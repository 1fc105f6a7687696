----------------------------- MODULE Retrieval -----------------------------
(***************************************************************************)
(* A query server that pins the papers generation it finds at its start    *)
(* (service/query_server.py, service/generation_query.py), the command     *)
(* that writes a keyword index beside a generation (service/               *)
(* lexical_index.py, scripts/build_lexical_index.py) and the searches.     *)
(* Which generation is active is the register that GenerationStore         *)
(* implements: other processes publish, roll back and prune while the      *)
(* server answers.                                                         *)
(***************************************************************************)
EXTENDS IndexRegister, Integers, Sequences, FiniteSets, SequencesExt, FiniteSetsExt

CONSTANTS
  Content,        \* the chunks of a generation: id -> [paper, role, text]
  Tools,          \* commands that build the keyword index
  Worlds,         \* what is asked, by which commands, and if others are at work
  Questions,      \* the requests of a kind of world
  RowBatch,       \* 2000 rows of one read
  HybridCandidates, RerankCandidates, \* 50 and 50
  Forged,         \* what may be put in the place of a keyword index
  Struck,         \* the chunks that may be damaged
  MaxFaults       \* bound: damage to stored chunks, notes and keyword indexes

(* A generation has finitely many chunks, which are numbered, and which    *)
(* damage may change.                                                      *)
Built == UNION {{Content[v][i] : i \in DOMAIN Content[v]} : v \in Versions}
Chunks == [paper : {c.paper : c \in Built} \cup {"other"}, role : {c.role : c \in Built},
           text : {c.text : c \in Built} \cup {"other"}]

(* An embedding ranks each chunk once; a scored chunk has a number; there  *)
(* are as many sections as the collection holds, or fewer.                 *)
IsRequest(r) ==
  /\ r = [kind |-> r.kind, n |-> r.n, mode |-> r.mode, rerank |-> r.rerank, filter |-> r.filter,
          dense |-> r.dense, lexical |-> r.lexical, score |-> r.score,
          sections |-> r.sections, count |-> r.count, dedupe |-> r.dedupe]
  /\ r.kind \in {"papers", "notes", "note"} /\ r.n \in Nat /\ r.rerank \in BOOLEAN
  /\ r.mode \in {"dense", "hybrid", "lexical", "auto"} /\ r.dedupe \in BOOLEAN
  /\ r.dense \in Seq(Nat) /\ IsInjective(r.dense) /\ r.lexical \in Seq(Nat)
  /\ \A i \in ToSet(r.dense) \cup ToSet(r.lexical) : r.score[i] \in Int
  /\ r.sections \in Seq(ToSet(r.sections)) /\ r.count \in Nat /\ Len(r.sections) <= r.count

ASSUME RetrievalAssumption ==
  /\ None \notin Versions /\ \A w \in Worlds : w.tools \subseteq Tools
  /\ RowBatch \in Nat \ {0} /\ HybridCandidates \in Nat /\ RerankCandidates \in Nat
  /\ \A v \in Versions :
       /\ Content[v] \in [DOMAIN Content[v] -> Chunks]
       /\ IsFiniteSet(DOMAIN Content[v]) /\ DOMAIN Content[v] \subseteq Nat
       /\ None \notin [of : {v}, count : Nat, by : {"command"}, rows : [DOMAIN Content[v] -> Chunks]]
  /\ \A index \in Forged : index # None /\ index.by = "outside"
  /\ \A w \in Worlds : \A r \in Questions[w.asked] : IsRequest(r)

VARIABLES
  world,
  collection,     \* generation -> its stored chunks, or None
  files,          \* generations whose directory is there
  sidecar,        \* generation -> its keyword index, or None
  told,           \* generations for which a command reported a keyword index
  tool,           \* command -> where it is, on what, and the rows it has read
  server,         \* what the server has pinned and opened
  request, work,  \* the request in hand, and what it has so far
  reply,          \* the last reply
  changed,        \* notes whose stored file differs from what was indexed
  faults

store == <<collection, files, sidecar, told>>
vars == <<regs, world, store, tool, server, request, work, reply, changed, faults>>

Idle == [at |-> "idle", gen |-> None, rows |-> <<>>]
Pinned(stage, v) == [at |-> stage, pinned |-> v, lexical |-> None, pages |-> FALSE]
Down == Pinned("down", None)

-----------------------------------------------------------------------------
(* Sequences in an order, which is given by what comes before each         *)
(* element. Ordered is a function, and Once is the sequence itself, so     *)
(* that TLC evaluates each of them once.                                   *)

Once(q) == SubSeq(q, 1, Len(q))

Ordered[S \in SUBSET Nat] ==
  [ahead \in [S -> SUBSET S] |->
     Once([k \in 1..Cardinality(S) |-> CHOOSE s \in S : Cardinality(ahead[s]) = k - 1])]

Ascending(S) == Ordered[S][[s \in S |-> {r \in S : r < s}]]

(* The elements at some places of a sequence: what is above comes first,   *)
(* and what neither is above stays as it was, as in Python's sort.         *)
Arranged(q, places, above) ==
  LET Picked[order \in Seq(Nat)] == Once([n \in DOMAIN order |-> q[order[n]]])
  IN Picked[Ordered[places][[k \in places |->
       {j \in places : \/ <<q[j], q[k]>> \in above
                       \/ <<q[k], q[j]>> \notin above /\ j < k}]]]

Kept(q, places) == Arranged(q, places, {})

Firsts(q) == {k \in DOMAIN q : \A j \in 1..(k - 1) : q[j] # q[k]}

Distinct(q) == Kept(q, Firsts(q))

Top(n, q) == SubSeq(q, 1, Min({n, Len(q)}))

-----------------------------------------------------------------------------
(* The store as others change it.                                          *)

PublishGeneration(v) ==
  /\ Publish(v) /\ \A u \in Versions : u < v => u \in published
  /\ collection' = [collection EXCEPT ![v] = Content[v]]
  /\ files' = files \cup {v}
  /\ UNCHANGED <<sidecar, told>>

RollBack ==
  /\ Revert
  /\ before[active] \in files /\ collection[before[active]] # None
  /\ UNCHANGED store

(* A prune deletes the collection first, then the directory.               *)
PruneCollection(v) ==
  /\ v \in published /\ collection[v] # None
  /\ Forget(v)
  /\ collection' = [collection EXCEPT ![v] = None]
  /\ UNCHANGED <<files, sidecar, told>>

PruneFiles(v) ==
  /\ v \in files /\ collection[v] = None
  /\ files' = files \ {v}
  /\ sidecar' = [sidecar EXCEPT ![v] = None]
  /\ told' = told \ {v}
  /\ UNCHANGED <<collection, regs>>

Maintain ==
  /\ world.busy \/ published = {}
  /\ \/ RollBack
     \/ \E v \in Versions : PublishGeneration(v) \/ PruneCollection(v) \/ PruneFiles(v)
  /\ UNCHANGED <<world, tool, server, request, work, reply, changed, faults>>

-----------------------------------------------------------------------------
(* build_lexical_index.py: the active generation is read once; its chunks  *)
(* are read in batches into a temporary file, which replaces the index.    *)

Goes(t, state) ==
  /\ tool' = [tool EXCEPT ![t] = state]
  /\ UNCHANGED <<regs, collection, files>>

ReadActive(t) ==
  /\ tool[t] = Idle /\ active \in Versions
  /\ Goes(t, [at |-> "open", gen |-> active, rows |-> <<>>])
  /\ UNCHANGED <<sidecar, told>>

Whole(v) ==
  /\ v \in files /\ collection[v] # None
  /\ Cardinality(DOMAIN collection[v]) = Cardinality(DOMAIN Content[v])

OpenIndex(t) ==
  /\ tool[t].at = "open"
  /\ Goes(t, IF Whole(tool[t].gen) THEN [tool[t] EXCEPT !.at = "read"] ELSE Idle)
  /\ UNCHANGED <<sidecar, told>>

Ids(v) == Ascending(DOMAIN collection[v])

NextRows(t) ==
  LET ids == Ids(tool[t].gen)
      offset == Len(tool[t].rows)
  IN SubSeq(ids, offset + 1, Min({offset + RowBatch, Len(ids)}))

ReadRows(t) ==
  LET v == tool[t].gen next == NextRows(t)
  IN /\ tool[t].at = "read" /\ collection[v] # None /\ next # <<>>
     /\ Goes(t, IF \E i \in ToSet(next) : collection[v][i].text # Content[v][i].text
                THEN Idle
                ELSE [tool[t] EXCEPT !.rows =
                        @ \o [k \in DOMAIN next |-> <<next[k], collection[v][next[k]]>>]])
     /\ UNCHANGED <<sidecar, told>>

(* A variant for the mutation runs: the last batch may be missing.         *)
AnyRows(v, rows) == rows # <<>>

AllRows(v, rows) ==
  /\ Len(rows) = Cardinality(DOMAIN Content[v])
  /\ Cardinality({r[1] : r \in ToSet(rows)}) = Len(rows)

SaveSidecar(t) ==
  LET v == tool[t].gen rows == tool[t].rows
  IN /\ tool[t].at = "read" /\ collection[v] # None /\ NextRows(t) = <<>>
     /\ Goes(t, Idle)
     /\ IF AllRows(v, rows) /\ v \in files
        THEN /\ sidecar' = [sidecar EXCEPT ![v] =
                  [of |-> v, count |-> Len(rows), by |-> "command",
                   rows |-> [i \in {r[1] : r \in ToSet(rows)} |->
                               (CHOOSE r \in ToSet(rows) : r[1] = i)[2]]]]
             /\ told' = told \cup {v}
        ELSE UNCHANGED <<sidecar, told>>

(* The collection is gone, or the command dies: what it wrote so far had   *)
(* another name.                                                           *)
ToolFails(t) ==
  /\ tool[t].at # "idle"
  /\ Goes(t, Idle)
  /\ UNCHANGED <<sidecar, told>>

BuildKeywords ==
  /\ world.busy \/ server = Down
  /\ \E t \in world.tools :
       \/ ReadActive(t) \/ OpenIndex(t) \/ ReadRows(t) \/ SaveSidecar(t)
       \/ world.busy /\ ToolFails(t)
  /\ UNCHANGED <<world, server, request, work, reply, changed, faults>>

-----------------------------------------------------------------------------
(* The server starts.                                                      *)

Serving(state) ==
  /\ server' = state
  /\ UNCHANGED <<regs, world, store, tool, request, work, reply, changed, faults>>

Pin ==
  /\ server.at = "down"
  /\ world.busy \/ \A t \in Tools : tool[t] = Idle
  /\ Serving(IF active \in Versions THEN Pinned("pinned", active) ELSE Pinned("ready", None))

OpenPapers ==
  /\ server.at = "pinned"
  /\ Serving(IF Whole(server.pinned) THEN [server EXCEPT !.at = "opened"]
                                     ELSE Pinned("ready", None))

(* The index must say that it belongs to the pinned generation.            *)
Fits(index, v) == index # None /\ index.of = v /\ index.count = Cardinality(DOMAIN Content[v])

OpenKeywords ==
  /\ server.at = "opened"
  /\ Serving([server EXCEPT !.at = "ready",
                !.lexical = IF Fits(sidecar[server.pinned], server.pinned)
                            THEN sidecar[server.pinned] ELSE None])

Restart ==
  /\ server.at = "ready" /\ request = None /\ reply = None
  /\ Serving(Down)

-----------------------------------------------------------------------------
(* One search: rankings of the embedding and of the keyword index, their   *)
(* fusion, and a model that may reorder the first.                         *)

Matches(row, filter) == filter.paper \in {None, row.paper} /\ filter.role \in {None, row.role}

(* A variant for the mutation runs: as many candidates as are asked for.   *)
SameDepth(r) == r.n

FirstStage(r) == IF r.rerank THEN Max({RerankCandidates, r.n}) ELSE r.n

PoolDepth(r) == Max({HybridCandidates, FirstStage(r)})

Mode(r) == IF r.mode # "auto" THEN r.mode
           ELSE IF server.lexical # None THEN "hybrid" ELSE "dense"

Depth(r) == IF Mode(r) = "dense" THEN FirstStage(r) ELSE PoolDepth(r)

Ranking(ids, rows, r) ==
  Top(Depth(r), Kept(ids, {k \in DOMAIN ids :
                             ids[k] \in DOMAIN rows /\ Matches(rows[ids[k]], r.filter)}))

(* Reciprocal rank fusion: the sum of 1 / (60 + rank), as a fraction; a    *)
(* tie goes to what the first list has first.                              *)
RankIn(q, i) == IF i \in ToSet(q) THEN CHOOSE k \in DOMAIN q : q[k] = i ELSE 0

Ranks(dense, lexical, i) == <<RankIn(dense, i), RankIn(lexical, i)>>

Score[rank \in Nat \X Nat] ==
  LET a == 60 + rank[1] b == 60 + rank[2]
  IN IF rank[1] = 0 THEN <<1, b>> ELSE IF rank[2] = 0 THEN <<1, a>> ELSE <<a + b, a * b>>

Higher[s \in Nat \X Nat] == {t \in Nat \X Nat : s[1] * t[2] > t[1] * s[2]}

Fused(dense, lexical) ==
  LET all == dense \o lexical
  IN Arranged(all, Firsts(all), {p \in ToSet(all) \X ToSet(all) :
       Score[Ranks(dense, lexical, p[2])] \in Higher[Score[Ranks(dense, lexical, p[1])]]})

FirstHits(r, dense, lexical) ==
  Top(FirstStage(r), IF Mode(r) = "dense" THEN dense ELSE Fused(dense, lexical))

RerankOrder(r, hits) ==
  Arranged(hits, DOMAIN hits,
           {p \in ToSet(hits) \X ToSet(hits) : r.score[p[1]] > r.score[p[2]]})

Reranked(r, hits) == IF r.rerank THEN RerankOrder(r, hits) ELSE hits

-----------------------------------------------------------------------------
(* A request in steps; others work between any two of them. What a step    *)
(* finds is chosen from a set of one, so that TLC evaluates it once.       *)

Answered(status, hits) ==
  /\ reply' = [status |-> status, hits |-> hits, to |-> request]
  /\ request' = None /\ work' = None

Refused(r, status) ==
  /\ reply' = [status |-> status, hits |-> <<>>, to |-> r]
  /\ UNCHANGED <<request, work>>

Others == UNCHANGED <<regs, world, store, tool, changed, faults>>

NeedsKeywords(r) == Mode(r) \in {"hybrid", "lexical"}

Ask(r) ==
  /\ \/ r.kind = "papers" /\ server.pinned = None /\ Refused(r, 503)
     \/ /\ r.kind = "papers" /\ server.pinned # None
        /\ NeedsKeywords(r) /\ server.lexical = None /\ Refused(r, 409)
     \/ /\ r.kind = "papers" => server.pinned # None /\ (NeedsKeywords(r) => server.lexical # None)
        /\ request' = r /\ UNCHANGED reply
        /\ work' = [at |-> IF r.kind # "papers" THEN r.kind
                           ELSE IF Mode(r) = "lexical" THEN "lexical" ELSE "dense",
                    hits |-> <<>>, rows |-> <<>>,
                    requested |-> IF r.kind = "notes" THEN Min({r.count, r.n}) ELSE 0]
  /\ UNCHANGED server /\ Others

Stored == collection[server.pinned]

SearchDense ==
  /\ work.at = "dense"
  /\ IF Stored = None
     THEN Answered(500, <<>>)
     ELSE \E found \in {Ranking(request.dense, Stored, request)} :
            /\ work' = [work EXCEPT !.hits = found,
                          !.rows = [i \in ToSet(found) |-> Stored[i]],
                          !.at = IF Mode(request) = "dense" THEN "verify" ELSE "lexical"]
            /\ UNCHANGED <<request, reply>>
  /\ UNCHANGED server /\ Others

SearchLexical ==
  /\ work.at = "lexical"
  /\ \E found \in {Ranking(request.lexical, server.lexical.rows, request)} :
       work' = [work EXCEPT !.hits = FirstHits(request, @, found), !.at = "fetch"]
  /\ UNCHANGED <<request, reply, server>> /\ Others

(* A variant for the mutation runs: the filters are left to the indexes.   *)
NoFilter(rows, filter) == TRUE

AllMatch(rows, filter) == \A i \in DOMAIN rows : Matches(rows[i], filter)

(* What only the keyword index proposed is read from the collection.       *)
Fetch ==
  LET hits == ToSet(work.hits)
      missing == hits \ DOMAIN work.rows
      rows == [i \in hits |-> IF i \in missing THEN Stored[i] ELSE work.rows[i]]
  IN /\ work.at = "fetch"
     /\ \/ missing # {} /\ Stored = None /\ Answered(500, <<>>)
        \/ /\ missing # {} => Stored # None
           /\ IF (missing # {} /\ ~(missing \subseteq DOMAIN Stored)) \/ ~AllMatch(rows, request.filter)
              THEN Answered(409, <<>>)
              ELSE work' = [work EXCEPT !.rows = rows, !.at = "verify"] /\ UNCHANGED <<request, reply>>
     /\ UNCHANGED server /\ Others

(* The reranking model is another service: it may fail, or not score all.  *)
RerankFails ==
  /\ work.at = "verify" /\ request.rerank /\ work.hits # <<>> /\ world.busy
  /\ \E status \in {409, 500} : Answered(status, <<>>)
  /\ UNCHANGED server /\ Others

(* Every hit that is returned must stand on the pages, which are read once.*)
Verified(v, i, row) == i \in DOMAIN Content[v] /\ row = Content[v][i]

Verify ==
  /\ work.at = "verify"
  /\ \E hits \in {Top(request.n, Reranked(request, work.hits))} :
       \/ hits # <<>> /\ ~server.pages /\ ~(server.pinned \in files)
          /\ Answered(500, <<>>) /\ UNCHANGED server
       \/ /\ hits # <<>> => server.pages \/ server.pinned \in files
          /\ server' = [server EXCEPT !.pages = @ \/ hits # <<>>]
          /\ IF \A k \in DOMAIN hits : Verified(server.pinned, hits[k], work.rows[hits[k]])
             THEN Answered(200, [k \in DOMAIN hits |-> [id |-> hits[k], row |-> work.rows[hits[k]]]])
             ELSE Answered(409, <<>>)
  /\ Others

(* Notes: sections are fetched in growing prefixes until there are enough  *)
(* notes, or no more sections. A note must be as it was indexed.           *)
(* A variant for the mutation runs: the prefix is fetched again as it was. *)
SameAgain(requested, count) == requested

More(requested, count) == Min({count, Max({requested + 1, 2 * requested})})

SearchNotes ==
  /\ work.at = "notes"
  /\ \E sections \in {Top(Max({1, work.requested}), request.sections)} :
     \E notes \in {Top(request.n, IF request.dedupe THEN Distinct(sections) ELSE sections)} :
       IF ToSet(notes) \cap changed # {}
       THEN Answered(500, <<>>)
       ELSE IF \/ ~request.dedupe \/ Len(notes) >= request.n
               \/ work.requested >= request.count \/ Len(sections) < work.requested
       THEN Answered(200, notes)
       ELSE /\ work' = [work EXCEPT !.requested = More(@, request.count)]
            /\ UNCHANGED <<request, reply>>
  /\ UNCHANGED server /\ Others

(* get_note: every note that has a section with what is asked for.         *)
GetNote ==
  /\ work.at = "note"
  /\ \E notes \in {Distinct(request.sections)} :
       IF ToSet(notes) \cap changed # {} THEN Answered(500, <<>>)
       ELSE Answered(IF notes = <<>> THEN 404 ELSE 200, notes)
  /\ UNCHANGED server /\ Others

Answering ==
  /\ request # None
  /\ SearchDense \/ SearchLexical \/ Fetch \/ RerankFails \/ Verify \/ SearchNotes \/ GetNote

(* The caller has the reply.                                               *)
Receive ==
  /\ reply # None
  /\ reply' = None
  /\ UNCHANGED <<request, work, server>> /\ Others

Serve ==
  \/ Pin \/ OpenPapers \/ OpenKeywords \/ Restart
  \/ /\ server.at = "ready" /\ request = None /\ reply = None
     /\ \E r \in Questions[world.asked] : Ask(r)
  \/ Answering \/ Receive

-----------------------------------------------------------------------------
(* Damage from outside: a stored chunk is lost or changed, a keyword index *)
(* is replaced by rows from elsewhere, in place, or by that of another     *)
(* generation, and a stored note changes.                                  *)

DamageChunk(v, i) ==
  /\ collection[v] # None /\ i \in DOMAIN collection[v]
  /\ \/ collection' = [collection EXCEPT ![v][i].text = "other"]
     \/ collection' = [collection EXCEPT ![v][i].paper = "other"]
     \/ collection' = [collection EXCEPT ![v] = [j \in DOMAIN @ \ {i} |-> @[j]]]
  /\ UNCHANGED <<sidecar, server, changed>>

DamageKeywords(v, index) ==
  /\ sidecar[v] # None /\ index # sidecar[v]
  /\ sidecar' = [sidecar EXCEPT ![v] = index]
  /\ server' = IF server.lexical = sidecar[v] /\ server.pinned = v
               THEN [server EXCEPT !.lexical = index] ELSE server
  /\ UNCHANGED <<collection, changed>>

ChangeNote(note) ==
  /\ changed' = changed \cup {note}
  /\ UNCHANGED <<collection, sidecar, server>>

Harm ==
  /\ world.busy /\ faults < MaxFaults
  /\ faults' = faults + 1
  /\ \/ \E chunk \in Struck : DamageChunk(chunk[1], chunk[2])
     \/ \E v \in Versions, index \in Forged : DamageKeywords(v, index)
     \/ \E r \in Questions[world.asked] : \E note \in ToSet(r.sections) : ChangeNote(note)
  /\ UNCHANGED <<regs, world, files, told, tool, request, work, reply>>

Init ==
  /\ RegisterInit
  /\ world \in Worlds
  /\ collection = [v \in Versions |-> None]
  /\ files = {} /\ sidecar = [v \in Versions |-> None] /\ told = {}
  /\ tool = [t \in Tools |-> Idle]
  /\ server = Down
  /\ request = None /\ work = None /\ reply = None
  /\ changed = {} /\ faults = 0

Next == Maintain \/ BuildKeywords \/ Serve \/ Harm

Spec == Init /\ [][Next]_vars

(* A search never waits for another process: SQLite reads have no writer,  *)
(* and the only lock is around one keyword query.                          *)
FairSpec == Spec /\ WF_vars(Answering)

-----------------------------------------------------------------------------
(* Properties.                                                             *)

(* What a search returns comes from the generation the server pinned, each *)
(* chunk once, as that generation was built, and within the filters of the *)
(* request: whatever is published, rolled back or pruned between two of    *)
(* its steps, and whatever stands in the keyword index, "a damaged keyword *)
(* index cannot inject text" (query_server.py:204-206).                    *)
AnswersPinned ==
  reply # None /\ reply.status = 200 /\ reply.to.kind = "papers" =>
    LET own == Content[server.pinned]
    IN /\ Len(reply.hits) <= reply.to.n
       /\ \A j, k \in DOMAIN reply.hits : reply.hits[j].id = reply.hits[k].id => j = k
       /\ \A hit \in ToSet(reply.hits) :
            /\ hit.id \in DOMAIN own /\ hit.row = own[hit.id]
            /\ Matches(own[hit.id], reply.to.filter)

Complete(index, v) ==
  index.by = "command" =>
    /\ index.of = v
    /\ DOMAIN index.rows = DOMAIN Content[v]
    /\ \A i \in DOMAIN index.rows : index.rows[i].text = Content[v][i].text

(* A keyword index that a command reported, or that a server has opened,   *)
(* holds every chunk of its generation as it was built: with two commands  *)
(* at work, one that dies, chunks lost between two reads, and publication  *)
(* and pruning at any moment. Changes to the index itself excepted.        *)
KeywordsWhole ==
  /\ \A v \in told : sidecar[v] # None /\ Complete(sidecar[v], v)
  /\ server.lexical # None => server.pinned # None /\ Complete(server.lexical, server.pinned)
  /\ server.lexical # None => Fits(server.lexical, server.pinned) \/ server.lexical.by = "outside"

Answer(r) ==
  LET dense == IF Mode(r) = "lexical" THEN <<>> ELSE Ranking(r.dense, Content[server.pinned], r)
      lexical == IF Mode(r) = "dense" THEN <<>> ELSE Ranking(r.lexical, server.lexical.rows, r)
  IN Top(r.n, Reranked(r, FirstHits(r, dense, lexical)))

PoolLimit(r) ==
  IF r.rerank THEN RerankCandidates
  ELSE IF Mode(r) = "dense" THEN r.n ELSE HybridCandidates

(* Who asks for fewer results gets the beginning of what others get: "a    *)
(* fixed pool makes top-k identical whether a caller asks for 10 or 20     *)
(* results" (query_server.py:176-182), up to the limits of the pools and   *)
(* with nothing damaged. Notes come once each, in the order of their best  *)
(* section, as many as there are, however the sections were fetched.       *)
TopStable ==
  reply # None /\ reply.status = 200 =>
    LET r == reply.to
        ids == [k \in DOMAIN reply.hits |-> reply.hits[k].id]
    IN /\ r.kind = "papers" /\ faults = 0 /\ r.n <= PoolLimit(r) =>
            ids = Top(r.n, Answer([r EXCEPT !.n = PoolLimit(r)]))
       /\ r.kind = "notes" =>
            reply.hits = Top(r.n, IF r.dedupe THEN Distinct(r.sections) ELSE r.sections)
       /\ r.kind = "note" => ToSet(reply.hits) = ToSet(r.sections)

(* Every search ends: the prefixes of search_notes grow until they hold    *)
(* enough notes, whatever the backend returns.                             *)
SearchEnds == request # None ~> request = None

=============================================================================
