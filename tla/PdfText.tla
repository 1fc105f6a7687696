------------------------------ MODULE PdfText ------------------------------
(***************************************************************************)
(* The text of a PDF as the papers index keeps it (service/pdf_ir.py,      *)
(* service/pdf_baseline.py): pages joined by line breaks that belong to no *)
(* page, windows cut from the joined text, the exact spans of a window on  *)
(* the pages, the way back from spans and text to the place in the joined  *)
(* text, and the second cut into inputs for the embedding model            *)
(* (service/pdf_sources.py).                                               *)
(*                                                                         *)
(* A text is a sequence of characters, a position a number of characters   *)
(* before it, an interval half open, as in the code. A heading of a        *)
(* reference list is one character. The hash of a text is the text.        *)
(***************************************************************************)
EXTENDS Integers, Sequences, FiniteSets, SequencesExt

CONSTANTS
  ChunkSize,      \* CHUNK_SIZE, 800 characters unless the environment says otherwise
  ChunkStep,      \* CHUNK_STEP, 700
  MinChunkLen,    \* MIN_CHUNK_LEN, 100: a window must be longer
  None            \* Python's None, and what a raised exception leaves

ASSUME ChunkAssumption ==
  /\ ChunkSize \in Nat \ {0}
  /\ ChunkStep \in Nat \ {0}
  /\ MinChunkLen \in Nat

ASSUME NoneAssumption == ~(None \in Int)

NL == "\n"
Heading == "R"
Space == {NL, " "}

Slice(t, a, b) == SubSeq(t, a + 1, Min({b, Len(t)}))

(* The elements of a set in a strict order: SetToSortSeq, without the       *)
(* enumeration of all sequences.                                           *)
Ordered(S, Before(_, _)) ==
  [k \in 1..Cardinality(S) |-> CHOOSE s \in S : Cardinality({r \in S : Before(r, s)}) = k - 1]

Ascending(S) == Ordered(S, LAMBDA i, j : i < j)

(* The elements of a sequence at some of its places, and the sequence in    *)
(* a weak order, a tie left as it is.                                      *)
Picked(q, places) ==
  LET order == Ascending(places) IN [n \in DOMAIN order |-> q[order[n]]]

Sorted(q, Before(_, _)) ==
  LET order == Ordered(DOMAIN q, LAMBDA i, j :
                 Before(q[i], q[j]) \/ (~Before(q[j], q[i]) /\ i < j))
  IN [k \in DOMAIN order |-> q[order[k]]]

Blank(t) == \A i \in DOMAIN t : t[i] \in Space

-----------------------------------------------------------------------------
(* Pages, the joined text and spans.                                       *)

Joined(pages) ==
  LET joined[k \in 0..Len(pages)] ==
        IF k = 0 THEN <<>>
        ELSE IF k = 1 THEN pages[1] ELSE joined[k - 1] \o <<NL>> \o pages[k]
  IN joined[Len(pages)]

PageStart(pages, k) ==
  LET start[n \in 1..(Len(pages) + 1)] ==
        IF n = 1 THEN 0 ELSE start[n - 1] + Len(pages[n - 1]) + 1
  IN start[k]

SpanOnPage(page, k, start, a, b) ==
  [page |-> k, from |-> Max({a, start}) - start,
   to |-> Min({b, start + Len(page)}) - start, hash |-> page]

Overlap(pages, k, a, b) == SpanOnPage(pages[k], k, PageStart(pages, k), a, b)

NonEmpty(span) == span.from < span.to

Spans(pages, a, b) ==
  LET overlaps == [k \in DOMAIN pages |-> Overlap(pages, k, a, b)]
  IN Picked(overlaps, {k \in DOMAIN pages : NonEmpty(overlaps[k])})

(* A variant for the mutation runs: no line break is skipped.              *)
NoLead(t) == {0}

(* The place of a text in the joined pages: at the first span, or before   *)
(* it by line breaks the text begins with, and only where both the text    *)
(* and every span agree.                                                   *)
Leads(t) == {n \in 0..Len(t) : \A i \in 1..n : t[i] = NL}

PlacesBefore(anchor, pages, t, spans) ==
  {a \in {anchor - n : n \in Leads(t)} :
     /\ a >= 0
     /\ Slice(Joined(pages), a, a + Len(t)) = t
     /\ Spans(pages, a, a + Len(t)) = spans}

LastPlace(places) == IF places = {} THEN None ELSE Max(places)

Locate(pages, t, spans) ==
  IF spans = <<>> \/ ~(spans[1].page \in DOMAIN pages)
  THEN None
  ELSE LastPlace(PlacesBefore(PageStart(pages, spans[1].page) + spans[1].from,
                              pages, t, spans))

-----------------------------------------------------------------------------
(* The windows of a document, without its reference list. The headings are *)
(* matched from the left; one that begins at the line break an earlier     *)
(* match ended with is not seen.                                           *)

BreaksAfter(t, i) ==
  {j \in (i + 2)..Len(t) : t[j] = NL /\ \A k \in (i + 2)..j : t[k] \in Space}

HeadingAt(t, i) ==
  t[i] = NL /\ i < Len(t) /\ t[i + 1] = Heading /\ BreaksAfter(t, i) # {}

Matches(t) ==
  LET matched[i \in 1..Len(t)] ==
        /\ HeadingAt(t, i)
        /\ \A j \in 1..(i - 1) : matched[j] => Max(BreaksAfter(t, j)) < i
  IN {i \in 1..Len(t) : matched[i]}

WithoutReferences(t) ==
  IF Matches(t) = {} THEN t ELSE SubSeq(t, 1, Max(Matches(t)) - 1)

Offsets(n) == {ChunkStep * k : k \in 0..n} \cap 0..(n - 1)

WindowEnd(n, o) == IF o + ChunkSize <= n THEN o + ChunkSize ELSE n

(* Windows overlap by a shortest window or more, and no shortest window is  *)
(* longer than a step: so with the defaults. The code takes other sizes     *)
(* too; with a step as long as the window, say, a short tail is in none.    *)
Overlapping ==
  /\ MinChunkLen <= ChunkStep
  /\ ChunkStep + MinChunkLen <= ChunkSize

(* A variant for the mutation runs: the tail of the text has no window.    *)
TailLost(n) ==
  {o \in Offsets(n) : WindowEnd(n, o) - o > MinChunkLen /\ (o = 0 \/ o + ChunkSize <= n)}

Windows(n) == {o \in Offsets(n) : WindowEnd(n, o) - o > MinChunkLen}

Chained(drafts) ==
  [i \in DOMAIN drafts |->
     [drafts[i] EXCEPT !.previous = IF i = 1 THEN None ELSE drafts[i - 1].id,
                       !.next = IF i = Len(drafts) THEN None ELSE drafts[i + 1].id]]

Draft(doc, spans, piece) ==
  [id |-> [file |-> doc.file, hash |-> doc.hash, base |-> <<>>, cut |-> <<>>,
           spans |-> spans, text |-> piece],
   file |-> doc.file, hash |-> doc.hash, paper |-> doc.paper, spans |-> spans, text |-> piece,
   previous |-> None, next |-> None]

Drafts(doc, text, offsets) ==
  [i \in DOMAIN offsets |->
     Draft(doc, Spans(doc.pages, offsets[i], WindowEnd(Len(text), offsets[i])),
           Slice(text, offsets[i], WindowEnd(Len(text), offsets[i])))]

WindowsOf(doc, text) ==
  Drafts(doc, text, Ascending(Windows(Len(text))))

(* The chunks of a document, or None: a window on separators alone has no  *)
(* spans, and the adapter raises.                                          *)
AllOnPages(drafts) ==
  IF \E i \in DOMAIN drafts : drafts[i].spans = <<>> THEN None ELSE Chained(drafts)

Adapted(doc) == AllOnPages(WindowsOf(doc, WithoutReferences(Joined(doc.pages))))

-----------------------------------------------------------------------------
(* The embedding model's splitter returns the intervals of a text. Every   *)
(* interval becomes a chunk with spans of its own, except one on           *)
(* separators alone.                                                       *)

Contiguous(cuts, n) ==
  /\ cuts # <<>>
  /\ cuts[1][1] = 0
  /\ cuts[Len(cuts)][2] = n
  /\ \A i \in DOMAIN cuts : cuts[i][1] < cuts[i][2]
  /\ \A i \in 1..(Len(cuts) - 1) : cuts[i][2] = cuts[i + 1][1]

Recut(chunk, cut, spans, piece) ==
  [chunk EXCEPT !.id.base = <<chunk.spans, chunk.text>>, !.id.cut = cut,
                !.id.spans = spans, !.id.text = piece,
                !.spans = spans, !.text = piece]

UnitAt(doc, chunk, cut, start) ==
  Recut(chunk, cut, Spans(doc.pages, start + cut[1], start + cut[2]),
        Slice(chunk.text, cut[1], cut[2]))

Unit(doc, chunk, cut) == UnitAt(doc, chunk, cut, Locate(doc.pages, chunk.text, chunk.spans))

UnitsOf(doc, chunk, cuts) ==
  LET units == [i \in DOMAIN cuts |-> Unit(doc, chunk, cuts[i])]
  IN IF cuts = <<<<0, Len(chunk.text)>>>>
     THEN <<chunk>>
     ELSE Picked(units, {i \in DOMAIN cuts : units[i].spans # <<>>})

(* What is left without spans must be separators.                          *)
OnPagesOrSeparators(unit) ==
  unit.spans = <<>> => \A j \in DOMAIN unit.text : unit.text[j] = NL

Splittable(doc, chunk, cuts) ==
  /\ Locate(doc.pages, chunk.text, chunk.spans) # None
  /\ cuts # None
  /\ Contiguous(cuts, Len(chunk.text))
  /\ \A i \in DOMAIN cuts :
       OnPagesOrSeparators(Unit(doc, chunk, cuts[i]))

(* Two chunks at one place are taken by their hashes in the code, here as  *)
(* they come.                                                              *)
InTextOrder(doc, chunks) ==
  Sorted(chunks, LAMBDA c, d : Locate(doc.pages, c.text, c.spans)
                                 < Locate(doc.pages, d.text, d.spans))

SplitDocument(doc, chunks, cuts) ==
  LET Units(ordered) ==
        FlattenSeq([i \in DOMAIN ordered |-> UnitsOf(doc, ordered[i], cuts[ordered[i].text])])
  IN IF \A i \in DOMAIN chunks : Splittable(doc, chunks[i], cuts[chunks[i].text])
     THEN Chained(Units(InTextOrder(doc, chunks)))
     ELSE None

-----------------------------------------------------------------------------
(* A place on a page found again in whatever chunks there are: the chunks  *)
(* that overlap it, or None when they do not cover all of it.              *)

Merge(merged, r) ==
  IF merged # <<>> /\ r[1] <= Last(merged)[2]
  THEN Append(Front(merged), <<Last(merged)[1], Max({Last(merged)[2], r[2]})>>)
  ELSE Append(merged, r)

ByBeginning(ranges) ==
  Ordered(ranges, LAMBDA q, r : q[1] < r[1] \/ (q[1] = r[1] /\ q[2] < r[2]))

Merged(ranges) ==
  LET order == ByBeginning(ranges)
      merged[n \in 0..Len(order)] ==
        IF n = 0 THEN <<>> ELSE Merge(merged[n - 1], order[n])
  IN merged[Len(order)]

SpansOn(chunk, file, place) ==
  {s \in ToSet(chunk.spans) : chunk.file = file /\ s.page = place.page}

Clipped(s, place) == <<Max({s.from, place.from}), Min({s.to, place.to})>>

MapEvidence(chunks, file, place) ==
  LET spans == UNION {SpansOn(c, file, place) : c \in chunks}
      Meets(s) == s.hash = place.hash /\ Clipped(s, place)[1] < Clipped(s, place)[2]
      merged == Merged({Clipped(s, place) : s \in {s \in spans : Meets(s)}})
  IN IF \/ spans # {} /\ \A s \in spans : s.hash # place.hash
        \/ Len(merged) # 1
        \/ merged[1] # <<place.from, place.to>>
     THEN None
     ELSE {c \in chunks : \E s \in SpansOn(c, file, place) : Meets(s)}

(* A chunk that holds a part of an interval of a page.                     *)
Touches(chunk, k, from, to) ==
  \E s \in ToSet(chunk.spans) : s.page = k /\ s.from < to /\ from < s.to

=============================================================================
