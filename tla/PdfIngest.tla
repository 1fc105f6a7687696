----------------------------- MODULE PdfIngest ------------------------------
(***************************************************************************)
(* A build of the papers index from the notes that declare PDFs to the     *)
(* collection that holds their chunks (service/pdf_sources.py,             *)
(* service/build_pdf_db.py). The files are read at several moments; a      *)
(* synchronisation or the user may replace one between any two of them.    *)
(* The generation the collection belongs to, its lock and its publication  *)
(* are GenerationStore's.                                                  *)
(***************************************************************************)
EXTENDS PdfText, FiniteSetsExt

CONSTANTS
  Corpora,        \* what a build may meet: notes, Zotero database, files
  PagesOf,        \* the pages of a file, by its bytes
  StorageKey,     \* the attachment key a path of Zotero's storage names
  LinkedName,     \* a path below the base of linked attachments, in Zotero's form
  Malformed,      \* keys that are not eight letters or digits
  Unreadable,     \* what reading a file that is no PDF, or is locked, finds
  BatchLen,       \* 100 chunks of one write
  MaxChanges      \* bound: how often a file is replaced during the build

(* Bytes have pages of text, notes declare finitely many PDFs by numbers,  *)
(* keys are numbers, and what can be read is among the bytes.              *)
ASSUME IngestAssumption ==
  /\ BatchLen \in Nat \ {0}
  /\ \A bytes \in DOMAIN PagesOf : PagesOf[bytes] \in Seq(Seq(STRING))
  /\ \A library \in Corpora :
       /\ library.notes \in Seq(ToSet(library.notes))
       /\ \A note \in ToSet(library.notes) \ {None} :
            /\ DOMAIN note.pdfs \subseteq Nat /\ IsFiniteSet(DOMAIN note.pdfs)
            /\ note.parent \in Nat \cup {None}
            /\ \A i \in DOMAIN note.pdfs : note.pdfs[i].attachment \in Nat \cup {None}
       /\ \/ library.db \in {None, Unreadable}
          \/ \A row \in library.db : row.parent \in Nat /\ row.attachment \in Nat
       /\ \A path \in DOMAIN library.files :
            library.files[path] \in DOMAIN PagesOf \cup {Unreadable}
       /\ library.bytes \subseteq DOMAIN PagesOf \cup {Unreadable, None}

VARIABLES
  corpus,         \* the notes and the Zotero database the build reads
  disk,           \* path -> bytes; a path outside the domain is no file
  pc,             \* where the build is
  todo,           \* the declared sources not yet handled
  hash,           \* the hash taken of the source in hand
  warned,         \* the warnings about the source in hand
  inventory,      \* one record for every source handled
  documents, chunks, \* the plan
  stored,         \* pages.jsonl of the candidate: one record for every page
  collection,     \* the candidate collection
  changes,        \* how often a file was replaced
  torn            \* paths replaced between the extractor's hash and its read

ingest == <<corpus, disk, pc, todo, hash, warned, inventory, documents, chunks,
            stored, collection, changes, torn>>

-----------------------------------------------------------------------------
(* The declared sources: notes in the order of their names, which are      *)
(* their places here, each with its pdf_<i>_path keys in order. Keys are   *)
(* numbers in the order of the code's strings.                             *)

Declared(k, note) ==
  LET indices == Ascending(DOMAIN note.pdfs)
      From(i) == LET p == note.pdfs[i]
                   IN [note |-> k, index |-> i, path |-> p.path,
                       original |-> IF p.original = None THEN p.path ELSE p.original,
                       parent |-> note.parent, attachment |-> p.attachment]
  IN [n \in DOMAIN indices |-> From(indices[n])]

Discover(notes) ==
  FlattenSeq([k \in DOMAIN notes |->
    IF notes[k] = None THEN <<>> ELSE Declared(k, notes[k])])

(* The attachment a source names, or None. A pair of keys is believed      *)
(* without a database; with one, exactly one row must agree with all that  *)
(* the note says. No name is compared.                                     *)
Pair(source) == {source.parent, source.attachment} \cap (Malformed \cup {None}) = {}

Rows(source, db, base) ==
  LET OfParent == {r \in db : source.parent \in {None, r.parent}}
      storage == StorageKey[source.original]
      linked == LinkedName[source.original]
  IN IF Pair(source)
     THEN {r \in OfParent : r.attachment = source.attachment}
     ELSE IF source.attachment # None \/ source.parent \in Malformed
     THEN {}
     ELSE IF storage # None
     THEN {r \in OfParent : r.attachment = storage}
     ELSE IF base /\ linked # None
     THEN {r \in OfParent : r.path = linked}
     ELSE {}

Resolve(source, db, base) ==
  IF db = None
  THEN IF Pair(source)
       THEN [parent |-> source.parent, attachment |-> source.attachment]
       ELSE None
  ELSE IF db = Unreadable \/ Cardinality(Rows(source, db, base)) # 1
  THEN None
  ELSE LET r == CHOOSE r \in Rows(source, db, base) : TRUE
       IN [parent |-> r.parent, attachment |-> r.attachment]

Identity(source) == Resolve(source, corpus.db, corpus.base)

Record(source, id, status, error, pages, count) ==
  [note |-> source.note, index |-> source.index, status |-> status, error |-> error,
   main |-> source.index = 0,
   paper |-> IF id = None THEN None ELSE id.parent,
   file |-> IF id = None THEN None ELSE id.attachment,
   hash |-> hash, pages |-> pages, count |-> count, warnings |-> warned]

-----------------------------------------------------------------------------
Init ==
  /\ corpus \in Corpora
  /\ disk = corpus.files
  /\ pc = "discover"
  /\ todo = <<>> /\ hash = None /\ warned = {}
  /\ inventory = <<>> /\ documents = <<>> /\ chunks = <<>>
  /\ stored = {} /\ collection = <<>>
  /\ changes = 0 /\ torn = {}

Source == Head(todo)

Goto(label) == pc' = label

(* The build ends with an error: nothing is published.                     *)
Stop ==
  /\ Goto("stopped")
  /\ UNCHANGED <<corpus, disk, todo, hash, warned, inventory, documents, chunks,
                 stored, collection, changes, torn>>

DiscoverSources ==
  /\ pc = "discover"
  /\ \/ Discover(corpus.notes) = <<>> /\ Stop
     \/ /\ Discover(corpus.notes) # <<>>
        /\ todo' = Discover(corpus.notes)
        /\ Goto("identify")
        /\ UNCHANGED <<corpus, disk, hash, warned, inventory, documents, chunks,
                       stored, collection, changes, torn>>

(* The source in hand is recorded and the next one taken.                  *)
Recorded(record) ==
  /\ inventory' = Append(inventory, record)
  /\ todo' = Tail(todo)
  /\ hash' = None /\ warned' = {}
  /\ Goto(IF Tail(todo) = <<>> THEN "check" ELSE "identify")
  /\ UNCHANGED <<corpus, disk, stored, collection, changes, torn>>

Failed(id, status, error) ==
  /\ Recorded(Record(Source, id, status, error, <<>>, 0))
  /\ UNCHANGED <<documents, chunks>>

Proceed(label) ==
  /\ Goto(label)
  /\ UNCHANGED <<corpus, disk, todo, inventory, documents, chunks, stored, collection,
                 changes, torn>>

Identify ==
  /\ pc = "identify"
  /\ IF Identity(Source) = None
     THEN Failed(None, "error", "identity_unresolved")
     ELSE Proceed("hash") /\ UNCHANGED <<hash, warned>>

HashSource ==
  /\ pc = "hash"
  /\ \/ /\ ~(Source.path \in DOMAIN disk)
        /\ Failed(Identity(Source), "missing", "source_missing")
     \/ /\ Source.path \in DOMAIN disk
        /\ disk[Source.path] = Unreadable
        /\ Failed(Identity(Source), "error", "source_hash_error")
     \/ /\ Source.path \in DOMAIN disk
        /\ disk[Source.path] # Unreadable
        /\ hash' = disk[Source.path]
        /\ Proceed("compare") /\ UNCHANGED warned

(* A copy in the library is compared with the file it was copied from.     *)
CompareOriginal ==
  /\ pc = "compare"
  /\ LET o == Source.original
     IN \/ /\ o = Source.path
           /\ Proceed("rehash") /\ UNCHANGED <<hash, warned>>
        \/ /\ o # Source.path /\ ~(o \in DOMAIN disk)
           /\ warned' = {"source-original-unavailable"}
           /\ Proceed("rehash") /\ UNCHANGED hash
        \/ /\ o # Source.path /\ o \in DOMAIN disk
           /\ \/ /\ disk[o] = Unreadable
                 /\ Failed(Identity(Source), "error", "source_original_hash_error")
              \/ /\ ~(disk[o] \in {Unreadable, hash})
                 /\ Failed(Identity(Source), "error", "source_copy_hash_mismatch")
              \/ /\ disk[o] = hash
                 /\ Proceed("rehash") /\ UNCHANGED <<hash, warned>>

Readable(path) == path \in DOMAIN disk /\ disk[path] # Unreadable

ExtractionFails == Failed(Identity(Source), "error", "canonical_extraction_error")

(* A variant for the mutation runs: the second hash is not compared.       *)
AnyBytes == Readable(Source.path)

(* The extractor hashes the file again before it opens it.                 *)
SameBytes == Readable(Source.path) /\ disk[Source.path] = hash

Rehash ==
  /\ pc = "rehash"
  /\ IF SameBytes
     THEN Proceed("extract") /\ UNCHANGED <<hash, warned>>
     ELSE ExtractionFails

Document(source, pages) ==
  [file |-> Identity(source).attachment, paper |-> Identity(source).parent,
   hash |-> hash, pages |-> pages]

NoText(doc, made) == (\A k \in DOMAIN doc.pages : Blank(doc.pages[k])) \/ made = <<>>

Take(doc, made) ==
  \/ made = None /\ ExtractionFails
  \/ /\ made # None /\ NoText(doc, made)
     /\ Recorded(Record(Source, Identity(Source), "empty", "no_indexable_text", doc.pages, 0))
     /\ UNCHANGED <<documents, chunks>>
  \/ /\ made # None /\ ~NoText(doc, made)
     /\ Recorded(Record(Source, Identity(Source), "success", None, doc.pages, Len(made)))
     /\ documents' = Append(documents, doc)
     /\ chunks' = chunks \o made

TakeDocument(doc) == Take(doc, Adapted(doc))

Extract ==
  /\ pc = "extract"
  /\ \/ ~Readable(Source.path) /\ ExtractionFails
     \/ /\ Readable(Source.path)
        /\ TakeDocument(Document(Source, PagesOf[disk[Source.path]]))

-----------------------------------------------------------------------------
(* The plan is checked, split for the model and checked again.             *)

Publishable ==
  LET notes == {r.note : r \in ToSet(inventory)}
      mains == {r.note : r \in {r \in ToSet(inventory) : r.index = 0 /\ r.main}}
  IN /\ inventory # <<>>
     /\ \A r \in ToSet(inventory) : r.status = "success"
     /\ notes = mains

Rank(paper) == IF paper = None THEN -1 ELSE paper

InventoryInOrder == Sorted(inventory, LAMBDA r, s : Rank(r.paper) < Rank(s.paper))

DocumentsInOrder ==
  Sorted(documents, LAMBDA d, e : d.paper < e.paper \/ (d.paper = e.paper /\ d.file < e.file))

(* The chunks are sorted here too; SplitChunks orders them by itself.      *)
CheckPublishable ==
  /\ pc = "check"
  /\ inventory' = InventoryInOrder
  /\ documents' = DocumentsInOrder
  /\ Goto(IF Publishable THEN "split" ELSE "stopped")
  /\ UNCHANGED <<corpus, disk, todo, hash, warned, chunks, stored, collection, changes, torn>>

(* Maps by file: of two records of one attachment the last one counts.     *)
LastOf(q, f) == q[Max({i \in DOMAIN q : q[i].file = f})]

SourceOf(f) == LastOf(inventory, f)

DocumentOf(f) == LastOf(documents, f)

Files == {d.file : d \in ToSet(documents)}

(* The splitter cuts off, again and again, as much as one input of the     *)
(* model holds: way.chars characters and, with a local model, way.tokens   *)
(* tokens, words here; white space after the last one needs no token. It   *)
(* raises when the model takes nothing of what is left.                    *)
WordEnds(t) ==
  {j \in DOMAIN t : ~(t[j] \in Space) /\ (j = Len(t) \/ t[j + 1] \in Space)}

Retained(ends, tokens) ==
  Max({0} \cup {e \in ends : Cardinality({d \in ends : d <= e}) <= tokens})

InputEnd(way, t) ==
  IF way.tokens = None \/ Blank(Slice(t, Retained(WordEnds(t), way.tokens), Len(t)))
  THEN Len(t)
  ELSE Retained(WordEnds(t), way.tokens)

CutPoints(way, t) ==
  LET cut[i \in 0..Len(t)] ==
        i = 0 \/ \E j \in 0..(i - 1) : cut[j] /\ j + InputEnd(way, Slice(t, j, j + way.chars)) = i
  IN {i \in 0..Len(t) : cut[i]}

Pieces(points) == [k \in 1..(Len(points) - 1) |-> <<points[k], points[k + 1]>>]

Cuts(way, t) ==
  IF Len(t) \in CutPoints(way, t)
  THEN Pieces(Ascending(CutPoints(way, t)))
  ELSE None

ChunksOf(file) == Picked(chunks, {i \in DOMAIN chunks : chunks[i].file = file})

SplitChunks ==
  /\ pc = "split"
  /\ \E way \in corpus.splitters :
       LET split == [f \in Files |->
                       SplitDocument(DocumentOf(f), ChunksOf(f),
                         [t \in {c.text : c \in ToSet(chunks)} |-> Cuts(way, t)])]
           files == Ascending(Files)
       IN IF \E f \in Files : split[f] = None
          THEN Stop
          ELSE /\ chunks' = FlattenSeq([k \in DOMAIN files |-> split[files[k]]])
               /\ inventory' = [i \in DOMAIN inventory |->
                    [inventory[i] EXCEPT !.count = Len(split[inventory[i].file])]]
               /\ Goto("validate")
               /\ UNCHANGED <<corpus, disk, todo, hash, warned, documents, stored, collection,
                              changes, torn>>

DistinctIds == Cardinality({c.id : c \in ToSet(chunks)}) = Len(chunks)

MatchesInventory(f) ==
  LET d == DocumentOf(f) s == SourceOf(f)
  IN d.paper = s.paper /\ d.hash = s.hash /\ d.pages = s.pages

Located(c) ==
  LET d == DocumentOf(c.file)
  IN /\ Locate(d.pages, c.text, c.spans) # None
     /\ \A s \in ToSet(c.spans) : d.pages[s.page] = s.hash
     /\ \A id \in {c.previous, c.next} \ {None} : \E o \in ToSet(chunks) : o.id = id

Valid ==
  /\ Publishable
  /\ {r.file : r \in ToSet(inventory)} = Files
  /\ DistinctIds
  /\ \A f \in Files : MatchesInventory(f)
  /\ \A c \in ToSet(chunks) : Located(c)

(* One line of pages.jsonl; two lines differ by their place in the file.   *)
PageRecord(n, k) ==
  LET d == documents[n]
  IN [line |-> <<n, k>>, file |-> d.file, paper |-> d.paper, hash |-> d.hash,
      main |-> SourceOf(d.file).main, page |-> k, text |-> d.pages[k], textHash |-> d.pages[k]]

PageRecords == UNION {{PageRecord(n, k) : k \in DOMAIN documents[n].pages} : n \in DOMAIN documents}

(* The checked plan's pages are written, then its chunks.                  *)
Validate ==
  /\ pc = "validate"
  /\ \/ ~Valid /\ Stop
     \/ /\ Valid
        /\ stored' = PageRecords
        /\ Goto("write")
        /\ UNCHANGED <<corpus, disk, todo, hash, warned, inventory, documents, chunks,
                       collection, changes, torn>>

(* The next chunks are embedded and written; the embedding may fail.       *)
NextBatch ==
  SubSeq(chunks, Len(collection) + 1, Min({Len(collection) + BatchLen, Len(chunks)}))

WriteBatch ==
  /\ pc = "write"
  /\ NextBatch # <<>>
  /\ \/ Goto("failed") /\ UNCHANGED collection
     \/ collection' = collection \o NextBatch /\ UNCHANGED pc
  /\ UNCHANGED <<corpus, disk, todo, hash, warned, inventory, documents, chunks, stored,
                 changes, torn>>

(* The store may not hold what it was given.                               *)
CheckCollection ==
  /\ pc = "write"
  /\ NextBatch = <<>>
  /\ collection' \in {collection, Front(collection)}
  /\ Goto(IF Len(collection') = Len(chunks) /\ ToSet(collection') = ToSet(chunks)
          THEN "published" ELSE "failed")
  /\ UNCHANGED <<corpus, disk, todo, hash, warned, inventory, documents, chunks, stored,
                 changes, torn>>

(* A synchronisation or the user replaces or removes a file.               *)
Change(path, bytes) ==
  /\ changes < MaxChanges
  /\ pc \in {"identify", "hash", "compare", "rehash", "extract"}
  /\ \/ /\ bytes # None
        /\ disk' = [p \in DOMAIN disk \cup {path} |-> IF p = path THEN bytes ELSE disk[p]]
     \/ /\ bytes = None
        /\ disk' = [p \in DOMAIN disk \ {path} |-> disk[p]]
  /\ disk' # disk
  /\ changes' = changes + 1
  /\ torn' = torn \cup (IF pc = "extract" /\ path = Source.path
                        THEN {Source.note} ELSE {})
  /\ UNCHANGED <<corpus, pc, todo, hash, warned, inventory, documents, chunks, stored, collection>>

Build ==
  \/ DiscoverSources \/ Identify \/ HashSource \/ CompareOriginal \/ Rehash \/ Extract
  \/ CheckPublishable \/ SplitChunks \/ Validate \/ WriteBatch \/ CheckCollection

Next ==
  \/ Build
  \/ \E path \in corpus.changing, bytes \in corpus.bytes :
       Change(path, bytes)

Spec == Init /\ [][Next]_ingest

-----------------------------------------------------------------------------
(* Properties.                                                             *)

(* The files of a library that have pages, by what is in them.             *)
Met(library) ==
  DOMAIN PagesOf \cap (library.bytes \cup {library.files[p] : p \in DOMAIN library.files})

(* Two different files of a library are told apart by a chunk: one with    *)
(* chunks has a window that does not stand on the pages of the other.      *)
Telling ==
  \A library \in Corpora : \A b, c \in Met(library) :
    LET n == Len(WithoutReferences(Joined(PagesOf[b])))
        SpansAt(o) == Spans(PagesOf[b], o, WindowEnd(n, o))
    IN b # c /\ Windows(n) # {} =>
         \E o \in Windows(n) :
           \/ SpansAt(o) = <<>>
           \/ Locate(PagesOf[c], Slice(Joined(PagesOf[b]), o, WindowEnd(n, o)), SpansAt(o)) = None

(* What is published tells the truth about the files: every declared       *)
(* source of every note succeeded, every note has its main PDF, no declared *)
(* key is contradicted, and the pages are those of the bytes whose hash is *)
(* recorded, whenever files were replaced, unless between the extractor's  *)
(* hash and its read.                                                      *)
RecordsTrue ==
  LET declared == ToSet(Discover(corpus.notes))
      records == ToSet(inventory)
  IN /\ {<<s.note, s.index>> : s \in declared} = {<<r.note, r.index>> : r \in records}
     /\ \A r \in records : r.status = "success" /\ (r.note \in torn \/ r.pages = PagesOf[r.hash])
     /\ \A s \in declared : \E r \in records : r.note = s.note /\ r.index = 0
     /\ \A s \in declared, r \in records :
          r.note = s.note /\ r.index = s.index =>
            s.parent \in {None, r.paper} /\ s.attachment \in {None, r.file}

(* What is published is whole: it tells the truth about the files, and     *)
(* when none was torn, no attachment is there twice.                       *)
PublishedWhole ==
  pc = "published" =>
    /\ RecordsTrue
    /\ torn = {} => Cardinality({r.file : r \in ToSet(inventory)}) = Len(inventory)

(* Everything written before the reference list can be found again: any    *)
(* interval of a page is covered by chunks and maps to those that hold a   *)
(* part of it, after windows too short to keep were dropped and after the  *)
(* split for the model. Claimed of sizes whose windows overlap, as those   *)
(* of the default settings do and those of the run.                        *)
AllTextMapped ==
  pc = "published" =>
    \A f \in Files :
      LET doc == DocumentOf(f)
          n == Len(WithoutReferences(Joined(doc.pages)))
      IN \A k \in DOMAIN doc.pages :
           \A from \in 0..Len(doc.pages[k]) : \A to \in (from + 1)..Len(doc.pages[k]) :
             PageStart(doc.pages, k) + to <= n =>
               MapEvidence(ToSet(collection), f,
                 [page |-> k, from |-> from, to |-> to, hash |-> doc.pages[k]])
                 = {c \in ToSet(collection) : c.file = f /\ Touches(c, k, from, to)}

(* A library with nothing wrong, and left alone during the build, is not   *)
(* refused: no check of the builder stops at what its own steps made.      *)
SoundNotRefused == corpus.sound /\ changes = 0 => pc # "stopped"

=============================================================================
