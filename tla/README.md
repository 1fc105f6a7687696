# research-rag in TLA+

research-rag turns a Zotero library into Markdown notes (the *scanner*), builds two vector
indexes from the notes and the PDFs (the *index builders*), and serves search, evidence and
query-log tools over HTTP and MCP (the *query server*).  This directory models the parts that
keep state across failures and concurrent processes, checks them with TLC and proves the
properties that matter most with TLAPS.

    tlc -workers 2 -config MCNotesStore.cfg MCGenerationStore     # one run
    tlapm GenerationStoreProofs.tla                               # one proof module

`PROJECT.json` lists the components, the runs, the lines each definition stands for, the
mutations each property notices, the hazards and the theorems.

## Inventory

| Component | State | Operations | Talks to | What is hard | What makes it correct |
| --- | --- | --- | --- | --- | --- |
| Generation store (`service/index_generation.py`) | per collection: `generations/<id>/manifest.json` and artifacts, a Chroma collection per generation, `active.json`, `latest-attempt.json`, `recovery/`, `writer.lock` | begin, publish, fail, rollback, recover, prune, load_active | both builders, the maintenance command, readers | death or exception between any two writes; damage from outside; failure records written late; deletion from a list made earlier | the active generation can always be served; sealed means sealed; reported outcome = actual outcome; nothing is withdrawn silently |
| Notes builder (`build_notes_db.py`) | none of its own | scan, reuse or build, record failure, exit 0/1/3/130 | store, embedding session, Chroma | the scan must belong to the lock; exceptions after the commit | never publishes an older library; exit code tells the truth |
| Papers builder (`build_pdf_db.py`) | none of its own | plan, reuse or build, record failure | same | plan made before the lock; failure recorded after the lock was given back | as above |
| Maintenance (`scripts/manage_index_generations.py`) | none | status, rollback, recover, prune | store | competes with builders for the lock | as the store |
| Combined build (`scripts/build_indexes.py`) | none | runs notes, papers and keyword builds as subprocesses, stops at the first that fails | builders | one build of several fails | exit code of the build that failed |
| Query log (`query_server.py`) | one Markdown file per log, `_registry.json`, a process-wide lock | write_query_log, append_query_log_action, recovery of a lost entry | agents (retrying HTTP clients), the user, who moves files in his vault | two files per write, death between them, retries, concurrent requests, an unreadable registry | one log per idempotency key, nothing overwritten, true answers |
| Query server reads (`query_server.py`, `generation_query.py`) | generation pinned at start, its pages once read | search papers in four modes, search notes, get note, evidence and context of a chunk | store, Chroma, keyword index, embedding client | a pinned generation against publication, rollback and prune; damaged chunks and pages | results belong to the pinned generation as it was built; asking for fewer gives the beginning of asking for more |
| Keyword index (`lexical_index.py`, `scripts/build_lexical_index.py`) | a SQLite file beside a generation | read rows in batches, replace the file, open for a generation | store, Chroma | another build at the same time, a generation that is published or pruned meanwhile, a dead command | an index that is opened holds every chunk of its generation |
| Answer workflow (`answer_workflow.py`) | none; the packet is with the client | prepare an evidence packet within a budget, check an answer | reader | contexts that overlap, budgets at their limits, changed packets, another generation | packet within budget, no passage cut or repeated; a checked quotation stands in the sources |
| Embedding session (`embedding_session.py`) | an alias in the Ollama daemon, digests, counters | enter, embed batch, finish, clean up | daemon shared with other users | the model's tag moves; lost answers; retries; cleanup while failing | vectors come from the declared weights; an alias that is left is named somewhere |
| Embedding client (`embedding_client.py`) | cached provider objects | embed, split, contract | providers | none shared | the pieces of a text are all of it |
| PDF sources and IR (`pdf_sources.py`, `pdf_ir.py`, `pdf_baseline.py`) | none between builds: the files on disk, the plan in hand | discover, resolve to an attachment, hash, extract, cut into windows and embedding units, locate, map evidence | Zotero storage and databases, papers builder | files replaced during a build, two declarations of one attachment, windows and page breaks at their boundaries | what is published is whole, of the recorded bytes, and can be found again |
| Host protocol (`gemini_analyze_pdf.py`, `backends/subagent.py`, `list_pending_subagent_runs.py`) | one run directory per paper: manifests, stage outputs, quarantined outputs | start, resume, list pending, quarantine | a parent agent and its sub-agents, in any order | partial or stale outputs, files cut short by a death, resumed too early or with other PDFs, forced re-runs | no paper is marked done whose note was not published; an invalid output is asked for again |
| Dedup ledger (`dedup_index.py`, `verify_and_clean.py`, `migrate_combined_hash_to_stable.py`, `backfill_hash.py`) | `processed_history.txt`, hashes in the vault's notes | lookup, append, clean, migrate | three batch workers, solo runs, maintenance commands | concurrent appends, rewrites from a stale read | a processed paper stays processed |
| Batch scanner (`zotero_batch_scanner.py`) | progress counters | prefilter, three workers, retries | host protocol as subprocesses, ledger | exit codes 0/1/2/200, retry of what was done | every paper is done once, or reported |
| API backends, note rendering, reranker, textbook ingest, MCP transport, setup, doctor, audit, demo, benchmarks | none that outlives a call | - | - | - | - |

The components that persist something and are driven by several actors come first: the
store with its clients, the query log, the embedding session, the host protocol and the
ledger; then the way of a text from a PDF to a checked answer, and the searches.

## Plan

1. `GenerationStore`, with `IndexRegister` as the abstract specification (what a reader is
   promised) and a refinement; its proofs, the refinement's among them.  *Done.*
2. `QueryLog` and its proofs.  *Done.*
3. `EmbeddingSession` and its proofs.  *Done.*
4. `SubagentPipeline`: run directories, parent agent, sub-agents, resume, quarantine, forced
   re-runs, exit codes, and the batch wrapper's retries.  *Modelled, checked
   and its safety proved.  To add: versions of profiles and drafts.*
5. `DedupLedger`: scanner processes, the commands that rewrite notes and ledger, the user.
   *Modelled, checked and proved.*
6. `PdfText`, `PdfIngest`, `AnswerPacket`: from the declared sources to the pages and chunks
   of a candidate, and from those to a packet and a checked answer.  *Modelled, checked and
   proved, but for `SoundNotRefused`.*
7. `Retrieval`, on top of `IndexRegister`: pinned server, keyword index and its builder,
   fusion, reranking and the loop over note sections.  *Modelled, checked and its safety
   proved.*
8. Left: the combined build over the two builders, `index_status`, the legacy collections.

Modules that compose others: `GenerationStore` refines `IndexRegister`, and `Retrieval` takes
the store's publications, rollbacks and prunes from the same `IndexRegister`; `AnswerPacket`
serves what `PdfIngest` built, which cuts its texts with `PdfText`.

Runs stay small enough for minutes: one collection, two or three generations, two processes.

## GenerationStore: the index store and its writers

One collection, `Procs` processes each of which runs a builder or a maintenance command over
and over, the library they read, and the disk.  `Papers` chooses the builder.

* Files.  `manifest[g]` is `generations/<g>/manifest.json`; `collection[g]` and `artifacts[g]`
  are absent, partial or full; `pointer` is `active.json`, `latest` is `latest-attempt.json`,
  `preserved` the pointer values kept by intent records in `recovery/`.  A fingerprint is
  abstracted to the manifest's state and a revision number, which is what two manifests of one
  generation can differ in; `rev = 1` is a manifest edited from outside.
* Control.  `pc[p]` names the point a builder has reached; every action performs at most one
  write of a file, a collection or a directory tree, so a crash (`Crash`), an exception
  (`Raise`, `RaiseEarly`) or another process can come between any two.  `Raise` may follow the
  replacement of the pointer, which the code reports as `PublicationCommittedError`.
* The two builders differ where the code does: notes are scanned under the lock and failures
  handled under it; papers are planned before the lock (`PlanPapers`) and their failure is
  recorded after it was given back (`Reacquire`, `GiveUp`, `BeginFailed`, `Fail`).
* The withdrawal policy of `publish` (`RenamesCover`, a Counter comparison) is modelled over
  the sources of `World`, the successive states of the library; `World[w].complete` says that
  every declared source could be read, `World[w].embedding` is the configured model.
* Maintenance.  A rollback is one write; a recovery writes its intent, reads the pointer again
  and replaces it; a prune lists what it will delete and then drops collections and directory
  trees one by one, each tree possibly half (`RemoveSome`).
* Environment.  `EditLibrary`; damage to the pointer, a manifest, a collection or artifacts
  (`MaxDamage` of them).

`IndexRegister` is what a reader is promised: a register that moves only by publishing a new
version, by going back to the version replaced, by recovery after a loss, and that forgets
only versions that are neither.  `RefinesRegister` maps it to what `load_active` returns.

| Run | Instance | Shows |
| --- | --- | --- |
| `notes_store` | 3 generations, 1 process, a rename that also withdraws a copy (1.4 M states) | servable, sealed, pruned, withdrawal and exit-code properties across crashes and failures |
| `papers_store` | 2 generations, 2 processes, one state of the library, fairness (290 k) | late failure records, true success, every command ends |
| `damaged_store` | 2 generations, 2 processes, one with `--allow-removals`, one damage, a withdrawal with a model change (580 k) | type, recovery, refinement, staleness |

Three generations are the smallest number for which a prune has something to delete while
an active and a previous generation exist and an attempt is newer than both; two processes are
what the late recorder needs.  `BuildEnds` costs `papers_store` its symmetry and several states
of the library: a papers plan with unreadable sources, begun only to be failed, is met by the
proofs alone (`AttemptsMoveOn` and `SuccessIsReal` are of every `World`).  A uuid is never drawn twice, so the
number of generations bounds the number of attempts, and a store that has used them up stops
building but goes on with maintenance: no deadlock occurs.

*Fairness.*  Weak fairness of each process away from `idle`: a process that runs is scheduled,
every call it makes (file system, SQLite, HTTP with a timeout) returns or raises, and the
lock is taken without waiting (`LockBusy` raises).  Nothing is assumed of starting a command,
of crashes or of the environment.

*Left out.*  Builds of the legacy unversioned collections; the Chroma client's own crash
safety (a collection is partial or full); that a prune needs the query service stopped, which
the documentation makes the operator's duty; that between the second look of `recover` at the
pointer and its replacement something outside could still damage it.  A papers plan prepared
before the lock may be older than the one active: `NoStalePublish` is claimed for notes only.

## QueryLog: logs and their registry

Request threads of one server (`_QUERY_LOG_WRITE_LOCK` is process-wide and one process is the
documented contract), clients that retry, the user and the disk.  `logs[p]` is the file at a
path, `registry` is `_registry.json` (or `Garbled`), `server` the lock's holder and `known[t]`
what a thread has read.  A path the server derives from a request (`Names`) is distinct from
the places a user keeps logs (`Shelf`).  `write_query_log` is `Lookup`, `AnswerHit` or `Scan`,
`Name`, `WriteLog`, `SaveRegistry`; `append_query_log_action` is `ReadLog`, `Append`.  `Fail`
is the exception at any point, `Restart` the death of the server between any two steps.  The
scan for a lost entry reads all logs in one step: under the lock only the user changes them
meanwhile, and a log he moves during the scan is one he moved before or after it.

| Run | Instance | Shows |
| --- | --- | --- |
| `query_log` | 2 threads, 2 keys, 2 derived paths and one other, 2 actions, 3 requests, 1 edit by the user (280 k) | one log per key, nothing lost, registry grows, true answers, every request answered |

Three requests are a write, its retry and a competing write or append; both logs share a
`log_id` so that only the key tells them apart.  A finite number of requests ends: deadlock
is not checked there.  *Fairness*: each thread inside a request goes on and the lock is
granted in the end to a thread that waits while others release it.

The properties except a thread of a log the user touched: after he moved a log, another
request may be given its old path, and the registry, which checks that the file exists but
not whose log it is, may answer with it.

## EmbeddingSession: the build's model alias

`tags` is the daemon's inventory: the configured tag, which others may pull or remove
(`Pull`), and the alias of each session, which an administrator may change although he must
not (`Meddle`).  A session copies the tag, checks the digest around every request, retries
transient failures and unusable numbers within three requests, checks both tags when it
finishes and deletes its alias.  Every look at the daemon may fail, every request may take
effect and its answer be lost.  Batches stand for groups of inputs; a vector is represented
by the weights that computed it.  Sessions share nothing but the source tag, which they
never write, so one session is checked against everything the others could do (`Pull`).

A cleanup that cannot remove the alias puts its name on `cleanup_warnings`, in memory
(`warned`).  Only `summary` reads that list, for the receipt the builder writes when the
session was finished (`WriteReceipt`, `receipt`); a session ends `sealed` in a build that wrote
its receipt, or `failed`, with an exception on its way that names the alias only when the
outcome of the copy is unknown (`named`).

| Run | Instance | Shows |
| --- | --- | --- |
| `embedding_session` | 1 session, 2 batches, 3 digests, 3 pulls, 2 changes of the alias (100 k) | vectors of the declared weights; an alias that is left is in the receipt of a build that goes on, or in the failure of an uncertain copy; sessions end |
| `embedding_alias` | the same | **violation**: a failed build leaves an alias that nothing names, see Findings |

Two changes of the alias are what it takes to change it and change it back between two looks,
which the class excludes from its contract and the property from its claim.  *Fairness*:
requests have a timeout, so an open session goes on.

## SubagentPipeline: notes made by a host agent

`gemini_analyze_pdf.py` with the sub-agent backend, the batch command, the parent agent and
its sub-agents.  A run directory holds the outputs `profile` and `draft` (absent, in part,
parsing but invalid, or about a paper) and its manifests `asked`; `note` is the vault by file
name, `ledger` is `processed_history.txt`.  `process[p]` is the scanner process of a paper:
`started` (identity guard, dedup, bootstrap), `profiler` and `note_generator` (the model
calls: load what is filled, move aside what is invalid, else leave a manifest and exit 200),
`profiled` and `drafted` (the output is written again), `publishing`, `recording`.  The host
is `phase`: the parent is between passes (`loop`), runs the batch or a `solo` command, waits
for sub-agents (`dispatching`), or is `done` with exit code 0.  In a batch, the processes of
all groups interleave, which contains both the sequential mode and the three workers; the
vault is looked at once (`index`), and a group that fails is tried again with the command line
built at first.  `Forced` is the batch's `--force`.

A process may die before each of its steps (`Die`), the host with everything it runs
(`HostDies`), and leave the file that was being written cut short (`CutWrite`): an output in
part is not filled and is asked for again; a bootstrap file or a manifest is no JSON and as
good as none, or is cut inside a character (`Garbled`), and then the identity guard
(`Unresumable`) and the helper (`HelperFails`) raise; a note has its frontmatter and is known
by it (`part`), has not (`blank`), or cannot be decoded (`garbled`), and then no scan of the
vault succeeds (`ScanFails`).  Sub-agents may answer with nothing,
half a file or invalid JSON (`AnswerBadly`); the parent may run a single paper with or without
`--resume` and `--force`, in any directory (`StartSolo`).

| Run | Instance | Shows |
| --- | --- | --- |
| `subagent_pipeline` | 2 papers with names of their own, 1 bad answer, 2 deaths, 1 single run, canary and vault (1.0 M) | notes of one paper; ledger entries of published notes; pending work listed; exit 0 misses no note but one a death tore; the loop ends unless an undecodable file stays |
| `subagent_names` | both notes get one file name, nothing dies | **violation**: see Findings |

Two papers are what a mixed note needs; two deaths let the second fall into the recovery from
the first, and use up the two attempts of the instance (`Attempts`, three in the code).
*Fairness*: as long as the parent keeps to its contract something goes on (a process, a
sub-agent, the next pass); deaths and bad answers are finitely many.

*Left out.*  Inputs that preflight rejects (exit 2), post-publish scripts, `--out-dir` copies,
the archives of the Vertex backend, the Zotero parent key as a second identity of a note, and
the difference between two profiles or drafts of one paper.

A note is there (`HasNote`) when it is whole.  What the repository's README promises of the
ledger (`RecordedHasNote`) and of the end of a run (`DoneHasNotes`) the code keeps when nothing
dies (`PromisesWithoutDeaths`); with deaths it keeps `RecordedWasPublished` and
`DoneMissesOnlyTorn`, which name the torn note.  `BatchEndsUnlessUndecodable` leaves out the
histories in which from some point on there always is a file that its reader cannot decode:
a manifest or bootstrap file that the next pass writes again, or clears, is no obstacle.

## DedupLedger: what keeps a paper from being processed twice

A paper is a `Group` of PDFs at paths; `digest[path]` is what a file holds.  Its hash is the
sequence of the digests, in the order of the digests (`Stable`), of the paths (`Legacy`) or of
the note's frontmatter (what the migration takes for legacy).  `note[p]` is the frontmatter of
its note: none, blank (no frontmatter), garbled (no UTF-8), or hash, legacy hash, whether the
Zotero parent key is known and whether all of the file decodes.
`ledger` is the set of lines of `processed_history.txt`, `torn` the hash on a last line that
has lost its newline, `backups` the lines that were copied before a rewrite to a file of its
own, `named` those in the one file of a migration's `--backup-dir`.  Both orders are
given by rank: `Place(s, k)` is where the k-th smallest of `s` is.

A scanner process (`StartRun`, `PublishNote`, `Record`) builds the index and asks it once, then
writes the note, then appends under the lock of `append`; the copy of the ledger it appends by
is the one of its start.  Beside it a user runs one maintenance command at a time, whose reads
and writes are steps of their own: `--clean` (read the ledger, look at the notes, back up,
truncate, rewrite), the migration to the stable hash (plan, read the history, one note after
another, back up, truncate, rewrite), the backfill (read a note, write it).  Processes and
commands die at any step and leave the note they were writing cut short (`CutShort`), the copy
of the ledger in part or the ledger truncated; a note that cannot be decoded ends every scan of
the vault until somebody writes it again (`ScanFails`); the user moves or replaces a PDF,
deletes a note, saves the ledger without its last newline.

| Run | Instance | Shows |
| --- | --- | --- |
| `dedup_ledger` | 2 papers (two PDFs whose digests and paths are in different orders; one PDF with a parent item), 2 scanner runs, 2 commands, 1 death, 1 change by the user, every old form of the note of one of them and of its lines (2.2 M) | no paper is paid for twice and no recorded line is lost but for the exceptions below; a migration settles |

Two commands are a migration that dies and its repetition, or a migration and a clean; two runs
are the run that is recorded and the one that asks.  What the properties except is named,
because the code does lose it:

* `raced`: an append between the backup and the end of a rewrite, which takes no lock;
* `cut`: a command died with the ledger truncated, and the line is in the backup only;
* `overwritten`: a migration repeated with the same `--backup-dir` copies the ledger over the
  backup that is there (`migrate_combined_hash_to_stable.py:322`), so that after a death with
  the ledger truncated the recorded lines are in neither;
* `TornNote`: notes are written in place (`gemini_analyze_pdf.py:1198`, `migrate:318`,
  `backfill_hash.py:171`); a paper whose note a death has cut short is paid for again, unless
  its line still is in the ledger, from which a clean takes it.

Lines are a set: neither their order nor a line that is there twice is read by anything.

## PdfText, PdfIngest, AnswerPacket: from a PDF to a checked answer

`PdfText` has the pure algorithms over texts as sequences of characters: pages joined by line
breaks that belong to no page, the reference list cut off, windows of `ChunkSize` every
`ChunkStep`, the exact spans of a window on the pages, the place of a chunk found again from
its spans and text, the second cut for the embedding model, and the mapping of an evidence
span to chunks.  Where the code raises, an operator is `None`.  The hash of a text is the
text, so two texts with one hash are one text.  The loops of the code (pages that are
joined, characters that are matched, ranges that are merged) are recursive functions.

`PdfIngest` is one build: discovery of the declared sources, then source by source resolution
to an attachment key, the hash, the comparison with the original, the extractor's second hash,
its read; then the plan is checked, split and checked again, pages and chunks are written, the
collection is compared with the plan.  `todo`, `hash` and `warned` are the loop of
`prepare_pdf_build`.  Any file may be replaced or removed between any two of the reads; the
tokenizer of a local model may have no token for a text, an embedding may fail, the
collection may lack its last chunk.  `Cuts` is the splitter: as many characters as an input
may have, and with a local model as many words as it has tokens.

`AnswerPacket` is a server on the published generation.  `Evidence` and `Context` are the two
methods of `GenerationReader`: `Around` is the context of a hit by its bounds, `Accepted` says
that the hit and the context pass the checks of pages, spans and hashes.  `Packet` is
`prepare_packet`: `Candidates` the hits and then their contexts, `Subtract` what earlier
evidence leaves of one, `CutToFit` what the budget leaves of that, `AddPieces` and
`AddCandidates` the two loops.  An entry's source is the reader's proof of its fragment
(`ProofOf`: whose text it is and the quotation of each span), kept in `sources`.  `Checked` is
`check_answer`, with the comparison of that source with a new proof.  `book` is what the reader
keeps after its first use.  A stored page may be damaged, the server may move on to another
generation, and the client, who keeps the packet, may change a fragment or a quotation in its
source, or add one, with or without a new checksum.

| Run | Instance | Shows |
| --- | --- | --- |
| `answer_packet` | every document of up to 3 pages of 6 texts; one source with every combination of keys, paths, databases and files; two sources that may be one attachment; one library that is served and asked (64 k) | what is published is whole and can be found again, what the builder accepts the reader accepts, packets keep their budget and repeat nothing, checked quotations and the sources handed on with them stand in the documents |
| `ingest_twins` | two files of different bytes and equal text among them | **violation**: see Findings |

The sizes keep the relations of the code's, with texts short enough to enumerate: windows of 4
characters overlap by one and cross page breaks, a window of one character is dropped, units are
2 characters or one word, a context is at most 6 and packets are asked for below, at and above
that, a collection is written in several batches.  A text of spaces, one that begins with a line
break, one that ends in a sentence and one that is a heading of a reference list are among the
pages.  That text is found again (`AllTextMapped`) is claimed of sizes with `Overlapping`; the
code takes any positive sizes from the environment (`config.py:191-193`, `pdf_ir.py:398-408`).
`TellingAssumption` has TLC evaluate, on the instance of `answer_packet`, the hypothesis of two
of the theorems (Proofs).  `torn` names the one replacement the extractor cannot see, between
its hash and its read.

*Left out.*  What pdfplumber and the normalisation make of a page, JSON forms and
embedding values; a behaviour prepares one packet and checks one answer.

## Retrieval: searches on a pinned generation

Which generation is active is `IndexRegister`'s state, and its actions are the store's writers
here: a server must live with whatever the store may do, and `RefinesRegister` says that the
store does nothing else.  `collection`, `files` and `sidecar` are what a generation has on
disk; a prune drops the collection first, then the directory with the keyword index.

* The server pins the active generation at its start, opens its collection and then the
  keyword index, if that says it belongs to the generation (`Pin`, `OpenPapers`,
  `OpenKeywords`).
* `tool[t]` is a command that builds the keyword index: it reads the pointer once, rows in
  batches of `RowBatch` into a temporary file, and replaces the index (`SaveSidecar`).
* A request carries what the models say, the rankings of the embedding and of the keyword
  index and the scores of a reranker, and the server does the rest: which mode `auto` is, how
  many candidates each ranking gives, filters, reciprocal rank fusion (an exact fraction; ties
  go to the first list, as in the stable sorts of the code; an order is given by ranks), rows
  of what only the keyword index proposed, reranking, the check of each hit against the pages.
  Each look at the store is a step.
* `SearchNotes` fetches growing prefixes of sections until there are enough notes.

| Run | Instance | Shows |
| --- | --- | --- |
| `retrieval` | 2 generations of 2 and 3 chunks; four worlds: every paper question or every note question to a server in a store that is left alone; 3 questions, one command, one damage beside publications, rollbacks and prunes; two commands and no questions (about 300 k) | answers come from the pinned generation, keyword indexes are whole, fewer results are the beginning of more, searches end |

A generation that is pinned can be pruned after a rollback has made another one active, so two
are enough.  Pools of 2 candidates and generations of 3 chunks make the pool the limit;
questions ask for 1 to 3.  A row read in a batch of 2 can be lost between two reads.  `Forged`
are keyword indexes of another generation, with rows nobody indexed and with rows under
another paper.  *Fairness*: `WF_vars(Answering)`; a search in hand goes on, because it waits
for no other process (SQLite reads of an immutable generation have no writer, and the only
lock is around one keyword query); a request to Ollama or the reranker has a timeout.

*Left out.*  The legacy unpinned mode, the check that rejects contradictory attachment filters
(`query_server.py:936-945`), several requests at once (they share nothing but the loaded
pages), health and `index_status`, and failures of the query embedding, which raise before the
first step.

## Findings

* `embedding_alias`.  The name of an alias that could not be removed is said to be in the
  failure or in the receipt (`docs/development/EMBEDDING_BUILD_SESSIONS.md:30-31`); when the
  build itself failed there is no receipt, and the failure does not name it
  (`embedding_session.py:399-401`).
* `subagent_names`.  Nothing keeps two papers from the same note file name; the second one
  overwrites the first one's note, and the ledger keeps the first from being made again.
* `ingest_twins`.  Two files of different bytes and equal text declared for one attachment pass
  every check of the papers builder, which compares only the last of them; every page is
  stored twice, and the reader refuses every chunk of the published generation.

Further disagreements that the models show and no run is kept for:

* `README.md:313` calls the publication of a note atomic; it is written in place
  (`gemini_analyze_pdf.py:1198`), and what a death leaves of it is taken for the note as soon
  as its frontmatter is there.  `RecordedHasNote` states the promise; added to the invariants
  of `MCSubagentPipeline.cfg` it is violated after one death.  `RecordedWasPublished` and
  `DoneMissesOnlyTorn` say what is left of it.
* `list_pending_subagent_runs.py:81-84` provides for an output cut inside a character;
  manifests (123-126), bootstrap files (`gemini_analyze_pdf.py:1779-1785`) and notes
  (`dedup_index.py:87-91`, `zotero_batch_scanner.py:96-100`) are read without that care, and
  after such a cut the loop that `zotero_batch_scanner.py:782` tells the parent to run never
  reaches exit 0.  `BatchEnds` states that it does, and is violated with two deaths;
  `BatchEndsUnlessUndecodable` says what is left of it.
* The papers builder records its failure after its lock is free; when another process holds
  the lock, or has already published, a committed build exits with 1
  (`build_pdf_db.py:494-503`, 621), where `docs/INDEX_GENERATIONS.md:6` promises that an
  exception after the commit cannot downgrade it.
* A papers plan made before the lock may be older than the generation that is active by then
  (`build_pdf_db.py:534`); `NoStalePublish` is claimed of notes only.
* With `active.json` deleted the next build counts as the first one
  (`index_generation.py:167`), to which the withdrawal policy does not apply.
* A numeric `log_id` is accepted and saved (`query_server.py:1186`, 1224-1230), and the
  registry then no longer loads (352-364): every later `write_query_log` is refused.
* The batch command tells the parent to repeat it until nothing is pending
  (`zotero_batch_scanner.py:781-782`); with `--force` each pass clears what the pass before it
  asked for (570-572), and the loop does not end.
* A run without `--resume` asks for a new profile but leaves the draft of an earlier run, which
  a later resume takes over (`gemini_analyze_pdf.py:1800`).

## Proofs

`GenerationStoreProofs` proves, for any number of generations, processes, library states and
damages, and for both builders:

* `TypeCorrect`, `AlwaysServable`, from `Invariance`.  `ActiveServable` is not inductive: it
  says nothing of the candidate about to be activated.  The invariant `IInv` adds `LockInv`
  (whoever is past taking the lock holds it, so there is one), `CandidateInv` (what the
  holder is about to activate, seal or return to is what the control point says),
  `PruneInv` (a generation on a deletion list is neither active nor the previous one of the
  active) and `PointerInv` (the pointer names a sealed generation with the fingerprint it
  records, or damage is on record).  Each step is by the process that holds the lock, so the
  others' conjuncts are untouched; a step of the environment is covered by `damage`.
* `AttemptsMoveOn`, `SuccessIsReal`, `SealsLast`, `PruneIsSafe`, `RecoveryLosesNothing`, from
  `HistoryInvariance`, which relates the files to what was begun, superseded and committed.

`QueryLogProofs` proves, for any number of threads, keys, paths, actions, requests and edits,
`LogTypeCorrect`, `AnswersAreTrue`, `OneLogEach`, `NoLostUpdate` and `NoLostEntry` from
`LogInvariance`.  A thread inside the lock is alone, so only the user changes what it has
read; he never makes a log and never moves one to a path the server derives, so a free path
stays free and a key without a log stays without one.

`EmbeddingSessionProofs` proves, for any number of sessions, batches, weights, pulls and changes
of aliases, `RevisionOfTheContract` and `AliasIsAccounted` from `SessionInvariance`. Neither
property is inductive.  `FreshInv` adds that a request is sent while the alias still is the
contract's unless it was changed since the look before it, and that a reply of other weights
means that the look after it will see the change, if it was the only one; `AliasInv` that an
alias that exists is known to its session or named, that one that is left behind is noted, and
in the receipt once that is written, and that there is none before the copy.  The state of a
session is its own: a step of another one, or a pull, leaves it (`OthersUntouched`), so a step
has to be looked at for its own session only (`OwnKept`).

The last part of `GenerationStoreProofs` goes on from the two invariants of the store to what
a publication knows of the generation it replaces (`LineageInvariance`).

* `StoreIsRegister` is the refinement of `IndexRegister`: for each action of the store a step of
  the register or none, under the mapping of `RefinesRegister` (`load_active` is the register).
  The step that replaces the pointer needs `LineageInv`: the candidate has never been active,
  it binds the generation active now (nobody else can have moved the pointer since it was
  sealed, so it may go back to it), and a recovery that writes still finds nothing active.
* `NothingWithdrawn` (`NoSilentWithdrawal`).  The policy compares counts of contents in a
  `Counter`; the property says that every withdrawn source has a new source of the same content
  to itself.  The lemma between them (`CoverPairs`) makes one injection for each content, from
  the cardinalities of finite sets, and joins them.  It is why `WorldAssumption` has finite
  libraries.
* `NotesMoveForward` (`NoStalePublish`, for the notes builder, `~Papers`), from `SnapshotInv`:
  the library is scanned under the lock, so no manifest is of a later one.  For papers it is
  false (Findings).
* `AttemptIsTrue` (`LatestTruthful`), from `TruthInv`: whoever is going to record an outcome has
  announced that generation in `latest-attempt.json` before, or a later attempt has superseded
  it.
* `CommitsAreReported` (`CommitReported`), for notes and for files that nothing outside the
  program touches (`MaxDamage = 0`): the handler asks the pointer whether its commit is there,
  and says no if the pointer has been damaged in between.

`SubagentPipelineProofs` proves for any number of papers, deaths, bad answers, attempts and solo
runs, and for every choice of file names:

* `NotesAreUnmixed` (`NoteOfItsPaper`) and `PendingIsListed`, from `PipelineInvariance`.  A note
  is made of a profile and a draft that a process has loaded from a directory, and a process may
  be sent to any directory; `ProcessInv` says that past the identity guard it is in the
  directory of its own paper, and `DirectoryInv` that whatever lies in a directory is about the
  paper of the directory, or not loadable.  `PhaseInv` and `PendingInv` say who runs in which
  phase of the batch and what a pending group lacks.
* `LedgerWasPublished` (`RecordedWasPublished`) and `DoneMeansSeenTo` (`DoneMissesOnlyTorn`),
  from `CoverInvariance`, under the hypothesis `OwnNames`, no two papers have the same note file
  name.  The run `subagent_names` shows what happens without it.
* `PromisesWithoutDeaths`: with `MaxFails = 0` as well, what the README of the repository
  promises, `RecordedHasNote` and `DoneHasNotes`.

`DedupLedgerProofs` proves for any number of papers, files, runs, commands, deaths and changes
by the user:

* `RecordedLinesStay` (`LinesKept`).  It is not inductive, for a command truncates the ledger;
  `BackedUp` adds that from the backup to the end of a rewrite every recorded line is in a
  backup, was in one that was written over, or was appended meanwhile.
* `ProcessedStays` (`StaysCovered`) and `MigrationsSettle` (`MigrationSettles`), from
  `CoverInv`, under the hypothesis `Unlike`, no two papers ever have files of the same content.
  (Two papers with the same file are found by each other's note: deleting the one uncovers the
  other, and TLC shows it.)  With it a hash tells whose it is (`HashesApart`), so a note, a line
  or a plan is about one paper (`OwnInv`).  `CurrentInv` says that as long as a processed paper
  is left alone, processes and commands know the files it has now, so the hash a command writes
  into its note is the right one; that is why a paper does not count as processed while a
  command holds its note of older files.  `QuietInv` follows the papers that no note of theirs
  speaks for: their line survives a clean, because their note vouches for it, and a migration,
  which replaces it by the stable hash.  `SettleInv` says how far a migration has got.
* `PlaceIsThere` is the lemma about the order: ranks in a sequence of numbers are an injection
  of its places into themselves, so every place is taken and a hash of a group of digests
  consists of digests of the group.

`RetrievalProofs` proves for any stores, rankings, scores, filters, pool sizes, commands and
damages:

* `KeywordIndexIsWhole` (`KeywordsWhole`), from `RetrievalInvariance`: rows that a command has
  read are of one generation, with the text they were built with (`ToolInv`), and what it saves
  has as many as the generation (`StoreInv`), which leaves no room for a missing one.
* `AnswersComeFromThePin` (`AnswersPinned`): the invariant says what is stored and what a server
  has opened; the check of each hit does the rest.
* `AnswersAreStable` (`TopStable`), as long as nothing is damaged.  `TopInv` says that a search
  in hand has what its mode, the pools and the rankings give, for a count of results that enters
  only as a cut at the end.  The lemmas before it are about orders given by ranks: such an
  order lists what is ranked, each once and sorted, and the order of a subset is a
  subsequence of it.  For notes, the loop that fetches longer and longer prefixes
  returns the first notes in the order of their best section.

`PdfIngestProofs` proves for any libraries, pages, splitters and replacements on the disk, and
any sizes the code accepts but where it says otherwise:

* `PublishedIsTrue` (`RecordsTrue`, the first part of `PublishedWhole`), `PublishedIsWhole`
  (`PublishedWhole`) and `TextIsMapped` (`AllTextMapped`), from `IngestInvariant`.  None of the
  three is inductive: they speak of the published corpus, and the build ends with a comparison
  of lists that were made long before.  `InHand` follows the source in hand (the hash taken is
  the one on the disk, or the path is in `torn`), `PlanMade` says that every record and every
  document is what its note declares and holds the pages of the bytes with its hash, `Unsplit`
  that as long as every source succeeded there is a document for each record and the chunks are
  those of the documents, `Split` that every unit stands in the document of its file and the
  units hold the text together.
* The text.  Where pages start, what stands at a place of the joined text (`JoinedIs`), that the
  spans of an interval are its overlaps with the pages, that windows that overlap leave nothing
  out (`WindowsCover`), that cuts which follow each other cover what they cut (`CutsCover`),
  that a chunk is located where it was cut, that merging the ranges of chunks which cover a span
  gives one range (`EvidenceMapped`).

`AnswerPacketProofs` proves for any built generation, hits, budgets, answers and faults, from
`ServerInvariant` (`ServerInv`, which extends `IngestInv`):

* `PacketIsSound` (`PacketSound`).  The invariant is of the loops: after every piece the
  selection's count is that of its characters, its fragments are disjoint and stand where they
  say, and once the hits have been handled everything written in them is there if they fit.  The
  pieces of `Subtract` are what earlier fragments of the same source leave, and a cut keeps to
  the room that is left because `ContextBounds` keeps to its budget.
* `AnswerIsVerbatim` (`AnswerVerbatim`).  A page line whose hash agrees with a span has the text
  it was built with (`Kept`): a damaged line no longer has its hash and is refused.  So what the
  reader accepts stands in the document, at the spans named, whatever the client made of its
  packet; and since the source of each entry was compared with a new proof, its quotations are
  those of the document too.
* `ReaderIsAccepting` (`ReaderAccepts`): the place the builder found again is the one that the
  reader finds, and the context around it is itself located on the pages.

`PublishedIsWhole` and `ReaderIsAccepting` have the hypothesis `Telling`: of two files with
different bytes that a library has, each one with windows has a window whose text does not stand
on the other's pages.  Where it fails, two sources of one attachment pass the builder's checks,
and the run `ingest_twins` shows what the reader makes of that (Findings). `TextIsMapped`,
`PublishedIsTrue`, `PacketIsSound` and `AnswerIsVerbatim` do not need it.

`TextIsMapped` has the hypothesis `Overlapping`: the shortest text kept is no longer than a
step, and what a window has beyond its step is at least as long as the text that may be dropped
at the end, as with the default 800, 700 and 100.  The sizes come from the environment, and
`_validate_chunk_config` takes others: with a step as long as the window the end of a document
may be in no chunk.  No other theorem needs it.

*Recursion.*  The theorems of the library about induction take an operator, which neither SMT
nor Zenon can instantiate.  They do not have to be cited: `NatSetInduction` states induction
with the set of the numbers for which something holds in the place of the operator, and is
proved from the well-foundedness of the natural numbers.  `RecursionExists` proves with it that
a base and a step, given as a function, have a solution; a recursive function of the model,
which is a `CHOOSE`, therefore satisfies its equations, and what its base has and each step
keeps its value has.  `Joined`, `PageStart`, `Merged`, `AddPieces`, `AddCandidates` and the
library's `FlattenSeq` are reasoned about in this way.

The assumptions are those of the modules on their constants.  `WorldAssumption`,
`ConfigAssumption`, `QueryLogAssumption`, `EmbeddingAssumption`, `PipelineAssumption`,
`LedgerAssumption`, `RetrievalAssumption`, `IngestAssumption` and `AnswerAssumption` give the
parameters their types (bounds are numbers, batches are not empty, a group has one path or more
and no path in common with another, pages are texts, a note declares finitely many PDFs).
`RecordAssumption`, `QueryLogRecordAssumption`, `PipelineRecordAssumption`,
`LedgerRecordAssumption` and `NoneAssumption` say that the value for nothing is none of the
values it stands beside.  `ChunkAssumption` says of the sizes of a chunk what
`_validate_chunk_config` does: size and step are positive. TLC evaluates each of them in every
run of its module.  The hypotheses of single theorems (`~Papers`, `MaxDamage = 0`,
`MaxFails = 0`, `OwnNames`, `Unlike`, `Telling`, `Overlapping`) are above, with what they exclude.

Model-checked only:

* `BuildEnds`, `AllAnswered`, `SessionEnds`, `BatchEndsUnlessUndecodable` and `SearchEnds`:
  liveness under fairness is out of the prover's reach.
* `SoundNotRefused` of `PdfIngest`: which libraries have nothing wrong is a mark that the
  instance puts on them (`corpus.sound`), of which a theorem would have to know the reasons.

## Not modelled

* Embedding client, but for its splitter: stateless providers; a session takes their contract
  as an input.
* Combined build (`build_indexes.py`): starts notes, papers and keyword builds one after
  another and stops at the first that fails; each of them is modelled, it has no state.
* MCP server: forwards each call over HTTP.
* Textbook ingest and configuration: a one-shot import into a legacy collection; constants.
* API backends: one request to a provider each, nothing shared between calls.
* Note rendering and PDF slicing: formatting, without state.
* Setup, diagnosis and audit: interactive or read-only one-shot commands.
* Demo, verification scripts and benchmarks: drivers of the other components.
* Within the modelled ones, the paragraphs *Left out* above.
