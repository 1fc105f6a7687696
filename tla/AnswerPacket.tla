---------------------------- MODULE AnswerPacket ----------------------------
(***************************************************************************)
(* A server answers from the generation it pinned (service/                *)
(* generation_query.py, service/answer_workflow.py): every hit is located  *)
(* on the stored pages and widened to a context, hits and contexts become  *)
(* a packet of source fragments within a budget, and an answer is checked  *)
(* against the packet and the pages again. The index is what PdfIngest     *)
(* built; stored pages may be damaged later, the server may move on to     *)
(* another generation, and a client may change a packet it was told to     *)
(* keep.                                                                   *)
(***************************************************************************)
EXTENDS PdfIngest

CONSTANTS
  ContextBudget,  \* 3200 characters around a hit
  Budgets,        \* what a client asks for, 256 to 8000 characters
  MaxHits,        \* bound: the hits of one question
  Answers         \* what a client's model may write

ASSUME AnswerAssumption == ContextBudget \in Nat /\ Budgets \subseteq Nat /\ MaxHits \in Nat

VARIABLES
  generation,     \* the generation the server has pinned, None before it runs
  book,           \* the pages its reader has loaded, None before the first use
  packet,         \* the last packet and what it was made from, or None
  verdict,        \* what check_answer returned, "raised", or None
  edited,         \* the client changed the packet
  faults          \* how often one of the last three happened

vars == <<ingest, generation, book, packet, verdict, edited, faults>>

-----------------------------------------------------------------------------
(* The context of a hit: as much as the budget allows on both sides, then  *)
(* back to sentence edges. A stop counts before a space or at the end of   *)
(* the text, unless it ends an abbreviation; a wide stop always counts.    *)
Stop1 == "."
WideStop == "W"
Abbreviation == "v"

AfterSpace(t, i, w) == Max({j \in (i + 1)..w : \A k \in (i + 2)..j : t[k] \in Space})

Edges(t, lower, upper) ==
  LET w == Min({Len(t), upper + 1})
      stops == {i \in lower..(w - 1) :
                  \/ t[i + 1] = WideStop
                  \/ /\ t[i + 1] = Stop1
                     /\ AfterSpace(t, i, w) > i + 1 \/ i + 1 = w
                     /\ ~(i > 0 /\ t[i] = Abbreviation)}
  IN {e \in {AfterSpace(t, i, w) : i \in stops} : e <= upper}

(* A variant for the mutation runs: the hit itself costs nothing.          *)
AllSpare(length, budget) == budget

Spare(length, budget) == IF length < budget THEN budget - length ELSE 0

ToEdges(t, start, end, lower, upper) ==
  LET starts == {e \in Edges(t, lower, upper) : e <= start}
      ends == {e \in Edges(t, lower, upper) : e >= end}
  IN [from |-> IF lower = 0 \/ starts = {} THEN lower ELSE Min(starts),
      to |-> IF upper = Len(t) \/ ends = {} THEN upper ELSE Max(ends)]

ContextBounds(t, start, end, budget) ==
  LET spare == Spare(end - start, budget)
      right == Min({Len(t) - end, spare - Min({start, spare \div 2})})
  IN ToEdges(t, start, end, start - Min({start, spare - right}), end + right)

-----------------------------------------------------------------------------
(* The reader. What does not verify raises, which is None here.            *)

Pages == IF book = None THEN stored ELSE book

TwicePaged == \E p, q \in Pages : p # q /\ p.file = q.file /\ p.page = q.page

PagesOfFile(file) ==
  LET own == Ordered({p \in Pages : p.file = file}, LAMBDA p, q : p.page < q.page)
  IN [k \in DOMAIN own |-> own[k].text]

Metadata(chunk) ==
  [generation |-> generation, file |-> chunk.file, paper |-> chunk.paper,
   hash |-> chunk.hash, main |-> SourceOf(chunk.file).main,
   textHash |-> chunk.text, spans |-> chunk.spans]

PageAgrees(meta, span) ==
  \E p \in Pages :
    /\ p.file = meta.file /\ p.page = span.page
    /\ p.paper = meta.paper /\ p.hash = meta.hash /\ p.main = meta.main
    /\ p.text = p.textHash /\ p.textHash = span.hash
    /\ 0 <= span.from /\ span.from < span.to /\ span.to <= Len(p.text)

(* A variant for the mutation runs: the text is not sought on the pages.   *)
Unlocated(meta, t) ==
  /\ meta.generation = generation
  /\ t = meta.textHash
  /\ ~TwicePaged
  /\ meta.spans # <<>>
  /\ \A s \in ToSet(meta.spans) : PageAgrees(meta, s)

Evidence(meta, t) ==
  /\ meta.generation = generation
  /\ t = meta.textHash
  /\ ~TwicePaged
  /\ meta.spans # <<>>
  /\ \A s \in ToSet(meta.spans) : PageAgrees(meta, s)
  /\ Locate(PagesOfFile(meta.file), t, meta.spans) # None

(* The proof evidence() returns: whose text it is, and what each span says *)
(* on its page. The pages of a file are numbered without a gap.            *)
SourceIdentity(meta) == <<meta.generation, meta.paper, meta.file, meta.hash, meta.main>>

Segments(spans, pages) ==
  [k \in DOMAIN spans |->
     [span |-> spans[k], quote |-> Slice(pages[spans[k].page], spans[k].from, spans[k].to)]]

ProofFrom(meta, pages) ==
  [of |-> SourceIdentity(meta), segments |-> Segments(meta.spans, pages)]

ProofOf(meta) == ProofFrom(meta, PagesOfFile(meta.file))

(* The metadata of another piece of the text a hit comes from.             *)
PieceMetadata(meta, from, to) ==
  LET pages == PagesOfFile(meta.file)
  IN [meta EXCEPT !.textHash = Slice(Joined(pages), from, to),
                  !.spans = Spans(pages, from, to)]

Stands(meta) == Evidence(meta, meta.textHash)

(* The context around a hit; both must stand on the pages.                 *)
ContextOf(meta, pages, anchor, length) ==
  LET bounds == ContextBounds(Joined(pages), anchor, anchor + length, ContextBudget)
  IN [meta |-> meta, at |-> anchor, length |-> length, from |-> bounds.from, to |-> bounds.to]

Around(chunk) ==
  LET pages == PagesOfFile(chunk.file)
  IN ContextOf(Metadata(chunk), pages, Locate(pages, chunk.text, chunk.spans), Len(chunk.text))

Accepted(chunk, context) ==
  Stands(Metadata(chunk)) /\ Stands(PieceMetadata(context.meta, context.from, context.to))

IfAccepted(chunk, context) == IF Accepted(chunk, context) THEN context ELSE None

Context(chunk) == IfAccepted(chunk, Around(chunk))

-----------------------------------------------------------------------------
(* prepare_packet: the hits themselves in their order, then their contexts,*)
(* each without what is already there, until the budget is used.           *)

Subtract(from, to, covered) ==
  LET Taken(i) == \E c \in covered : c[1] <= i /\ i < c[2]
      free == {i \in from..(to - 1) : ~Taken(i)}
      first == {i \in free : i = from \/ Taken(i - 1)}
      End(i) == Min({j \in (i + 1)..to : j = to \/ Taken(j)})
      order == Ascending(first)
  IN [n \in DOMAIN order |-> <<order[n], End(order[n])>>]

(* A variant for the mutation runs: only a fragment with the same metadata *)
(* counts as covering.                                                     *)
CoveredAlike(evidence, meta) ==
  {<<e.from, e.to>> : e \in {e \in ToSet(evidence) : e.meta = meta}}

Covered(evidence, meta) ==
  {<<e.from, e.to>> : e \in {e \in ToSet(evidence) : SourceIdentity(e.meta) = SourceIdentity(meta)}}

(* A fragment larger than what is left keeps the hit, or its beginning.    *)
Shifted(bounds, by) == <<by + bounds.from, by + bounds.to>>

CutToFit(text, c, piece, room) ==
  LET a == Max({piece[1], Min({c.at, piece[2]})})
      b == Min({Max({a, Min({c.at + c.length, piece[2]})}), a + room})
  IN IF piece[2] - piece[1] <= room
     THEN piece
     ELSE Shifted(ContextBounds(Slice(text, piece[1], piece[2]),
                                a - piece[1], b - piece[1], room), piece[1])

Fragment(id, meta, cut) ==
  [id |-> id, content |-> meta.textHash, meta |-> meta, from |-> cut[1], to |-> cut[2]]

AddFragment(made, fragment) ==
  IF Blank(fragment.content)
  THEN made
  ELSE [used |-> made.used + Len(fragment.content),
        failed |-> made.failed \/ ~Stands(fragment.meta),
        evidence |-> Append(made.evidence, fragment)]

AddCut(made, c, cut) ==
  AddFragment(made, Fragment(Len(made.evidence) + 1, PieceMetadata(c.meta, cut[1], cut[2]), cut))

AddPiece(made, c, piece, budget) ==
  IF made.used >= budget
  THEN made
  ELSE AddCut(made, c, CutToFit(Joined(PagesOfFile(c.meta.file)), c, piece, budget - made.used))

AddPieces(made, c, pieces, budget) ==
  LET added[n \in 0..Len(pieces)] ==
        IF n = 0 THEN made ELSE AddPiece(added[n - 1], c, pieces[n], budget)
  IN added[Len(pieces)]

AddCandidate(made, c, budget) ==
  AddPieces(made, c, Subtract(c.from, c.to, Covered(made.evidence, c.meta)), budget)

Original(context) == [context EXCEPT !.from = context.at, !.to = context.at + context.length]

Candidates(contexts) == [i \in DOMAIN contexts |-> Original(contexts[i])] \o contexts

AddCandidates(candidates, budget) ==
  LET added[n \in 0..Len(candidates)] ==
        IF n = 0 THEN [used |-> 0, failed |-> FALSE, evidence |-> <<>>]
        ELSE AddCandidate(added[n - 1], candidates[n], budget)
  IN added[Len(candidates)]

Selected(contexts, budget) == AddCandidates(Candidates(contexts), budget)

(* The source of an entry is the reader's proof of its fragment.           *)
EntrySources(evidence) == [i \in DOMAIN evidence |-> ProofOf(evidence[i].meta)]

Sum(evidence, sources) == <<evidence, sources>>

PacketOf(hits, budget, made) ==
  IF made.failed
  THEN None
  ELSE [hits |-> hits, budget |-> budget, used |-> made.used,
        evidence |-> made.evidence, sources |-> EntrySources(made.evidence),
        checksum |-> Sum(made.evidence, EntrySources(made.evidence)),
        pages |-> [f \in {h.file : h \in ToSet(hits)} |-> PagesOfFile(f)]]

FromContexts(hits, budget, contexts) ==
  IF \E i \in DOMAIN contexts : contexts[i] = None
  THEN None
  ELSE PacketOf(hits, budget, Selected(contexts, budget))

Packet(hits, budget) == FromContexts(hits, budget, [i \in DOMAIN hits |-> Context(hits[i])])

-----------------------------------------------------------------------------
(* check_answer.                                                           *)

Found(evidence, cite) == {e \in ToSet(evidence) : e.id = cite.id}

Within(quote, t) == \E i \in 0..(Len(t) - Len(quote)) : Slice(t, i, i + Len(quote)) = quote

QuoteOf(e, cite) == IF cite.quote = None THEN e.content ELSE cite.quote

Supports(evidence, cite) ==
  \E e \in Found(evidence, cite) :
    ~Blank(QuoteOf(e, cite)) /\ Within(QuoteOf(e, cite), e.content)

ClaimHolds(evidence, claim) ==
  /\ claim.text = "stated"
  /\ claim.cites # {}
  /\ \A c \in claim.cites : Supports(evidence, c)

Bindings(evidence, claims) ==
  LET cites == UNION {claim.cites : claim \in {claim \in claims : claim.text # "blank"}}
  IN UNION {{<<e, QuoteOf(e, c)>> : e \in Found(evidence, c)} :
              c \in {c \in cites : Supports(evidence, c)}}

Checked(p, answer) ==
  IF \/ p.checksum # Sum(p.evidence, p.sources)
     \/ \E i, j \in DOMAIN p.evidence : i # j /\ p.evidence[i].id = p.evidence[j].id
     \/ \E e \in ToSet(p.evidence) : ~Evidence(e.meta, e.content)
     \/ \E i \in DOMAIN p.evidence : ProofOf(p.evidence[i].meta) # p.sources[i]
  THEN [outcome |-> "raised", bindings |-> {}]
  ELSE [outcome |-> IF /\ \A claim \in answer.claims : ClaimHolds(p.evidence, claim)
                       /\ answer.claims # {} \/ answer.missing
                    THEN "passed" ELSE "errors",
        bindings |-> Bindings(p.evidence, answer.claims)]

-----------------------------------------------------------------------------
InitServer ==
  /\ Init
  /\ generation = None /\ book = None /\ packet = None /\ verdict = None
  /\ edited = FALSE /\ faults = 0

(* A server starts on the published generation.                            *)
StartServer ==
  /\ pc = "published" /\ generation = None
  /\ generation' = 1
  /\ UNCHANGED <<ingest, book, packet, verdict, edited, faults>>

Hits == {h \in UNION {[1..n -> ToSet(collection)] : n \in 0..MaxHits} : IsInjective(h)}

(* The first use of the reader loads the pages, unless one is there twice. *)
Loaded == IF TwicePaged THEN None ELSE Pages

(* Bound: a behaviour prepares one packet and checks one answer.           *)
PrepareAnswer(hits, budget) ==
  /\ generation # None /\ packet = None
  /\ book' = IF hits = <<>> THEN book ELSE Loaded
  /\ packet' = Packet(hits, budget)
  /\ UNCHANGED <<ingest, generation, verdict, edited, faults>>

Opens(p) ==
  /\ p.checksum = Sum(p.evidence, p.sources) /\ p.evidence # <<>>
  /\ p.evidence[1].meta.generation = generation

CheckAnswer(answer) ==
  /\ packet # None /\ verdict = None
  /\ book' = IF Opens(packet) THEN Loaded ELSE book
  /\ verdict' = Checked(packet, answer)
  /\ UNCHANGED <<ingest, generation, packet, edited, faults>>

(* One more of what a reader must refuse. Bound: before the verdict, after *)
(* which nothing is read.                                                  *)
Fault ==
  /\ faults < corpus.faults /\ verdict = None
  /\ faults' = faults + 1
  /\ UNCHANGED <<corpus, disk, pc, todo, hash, warned, inventory, documents, chunks,
                 collection, changes, torn>>

(* A stored page changes under its hash.                                   *)
DamagePage ==
  /\ generation # None
  /\ \E p \in stored :
       stored' = (stored \ {p}) \cup {[p EXCEPT !.text = Append(p.text, "x")]}
  /\ Fault
  /\ UNCHANGED <<generation, book, packet, verdict, edited>>

(* The server is restarted on a generation built later from the same files.*)
MoveOn ==
  /\ generation # None
  /\ generation' = generation + 1
  /\ stored' = PageRecords
  /\ book' = None
  /\ Fault
  /\ UNCHANGED <<packet, verdict, edited>>

(* The client changes the text of an entry or a quotation in its source,   *)
(* or names one twice, and may recompute the checksum.                     *)
Longer(e) == [e EXCEPT !.content = Append(e.content, "z"), !.meta.textHash = Append(e.content, "z")]

Misquoting(source) == [source EXCEPT !.segments[1].quote = Append(@, "z")]

Changes(p, i) ==
  LET e == p.evidence[i]
  IN {<<[p.evidence EXCEPT ![i] = Longer(e)], p.sources>>,
      <<Append(p.evidence, Longer(e)), Append(p.sources, p.sources[i])>>,
      <<p.evidence, [p.sources EXCEPT ![i] = Misquoting(@)]>>}

ChangePacket ==
  /\ packet # None /\ ~edited
  /\ \E i \in DOMAIN packet.evidence, resum \in BOOLEAN : \E new \in Changes(packet, i) :
       packet' = [packet EXCEPT !.evidence = new[1], !.sources = new[2],
                                !.checksum = IF resum THEN Sum(new[1], new[2]) ELSE @]
  /\ edited' = TRUE
  /\ Fault
  /\ UNCHANGED <<stored, generation, book, verdict>>

Serve ==
  \/ StartServer
  \/ \E hits \in Hits, budget \in Budgets : PrepareAnswer(hits, budget)
  \/ \E answer \in (IF corpus.asked THEN Answers ELSE {}) : CheckAnswer(answer)

NextServer ==
  \/ Next /\ UNCHANGED <<generation, book, packet, verdict, edited, faults>>
  \/ Serve
  \/ DamagePage \/ MoveOn \/ ChangePacket

SpecServer == InitServer /\ [][NextServer]_vars

-----------------------------------------------------------------------------
(* Properties.                                                             *)

Holds(x, text, c) ==
  /\ Accepted(c, x)
  /\ Slice(text, x.at, x.at + x.length) = c.text
  /\ 0 <= x.from /\ x.from <= x.at
  /\ x.at + x.length <= x.to /\ x.to <= Len(text)
  /\ x.to - x.from <= Max({ContextBudget, x.length})

(* Every chunk of a published generation is accepted by the reader of that *)
(* generation and keeps its place: the checks of the builder are as strict *)
(* as evidence() and context(), the context holds the whole hit and no     *)
(* more than the budget allows beside it.                                  *)
ReaderAccepts ==
  pc = "published" /\ generation # None /\ faults = 0 /\ torn = {} =>
    \A c \in ToSet(collection) : Holds(Around(c), Joined(DocumentOf(c.file).pages), c)

Places(e) == {<<e.meta.file, i>> : i \in e.from..(e.to - 1)}

PlacesOfHit(pages, h) ==
  LET at == Locate(pages[h.file], h.text, h.spans)
  IN {<<h.file, i>> : i \in at..(at + Len(h.text) - 1)}

Written(pages, places) ==
  {p \in places : ~(Joined(pages[p[1]])[p[2] + 1] \in Space)}

(* A packet as it was returned: within its budget, no character of a       *)
(* source twice, and when the hits fit the budget everything written in    *)
(* them is there, whatever contexts and cuts came after                    *)
(* (docs/ANSWER_WORKFLOW.md, "Selection and budget"). Places are those of  *)
(* the pages the packet was made from.                                     *)
PacketSound ==
  packet # None /\ ~edited =>
    LET taken == packet.evidence
        hits == UNION {PlacesOfHit(packet.pages, h) : h \in ToSet(packet.hits)}
    IN /\ packet.used = Len(FlattenSeq([i \in DOMAIN taken |-> taken[i].content]))
       /\ packet.used <= packet.budget
       /\ \A i, j \in DOMAIN taken : i # j => Places(taken[i]) \cap Places(taken[j]) = {}
       /\ Cardinality(hits) <= packet.budget =>
            Written(packet.pages, hits) \subseteq UNION {Places(e) : e \in ToSet(taken)}

(* An answer passes the check only with support for every claim, and each  *)
(* quotation it is bound to stands, verbatim and at the spans the fragment *)
(* names, in the text the pinned generation was built from, and the source *)
(* that is handed on with it says of every span what that text says:       *)
(* whatever page was damaged, whatever the client did to its packet, and   *)
(* not on a later generation (check_answer revalidates against the pinned  *)
(* generation and compares the full source mapping).                       *)
AnswerVerbatim ==
  verdict # None /\ verdict.outcome = "passed" =>
    /\ \A b \in verdict.bindings :
         LET pages == DocumentOf(b[1].meta.file).pages
         IN /\ Within(b[2], b[1].content)
            /\ \E i \in 0..(Len(Joined(pages)) - Len(b[1].content)) :
                 /\ Slice(Joined(pages), i, i + Len(b[1].content)) = b[1].content
                 /\ Spans(pages, i, i + Len(b[1].content)) = b[1].meta.spans
            /\ ~Blank(b[2])
    /\ \A b \in verdict.bindings : b[1].meta.generation = generation
    /\ \A i \in DOMAIN packet.evidence :
         LET meta == packet.evidence[i].meta
         IN packet.sources[i] = ProofFrom(meta, DocumentOf(meta.file).pages)

=============================================================================
