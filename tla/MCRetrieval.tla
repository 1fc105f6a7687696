---------------------------- MODULE MCRetrieval ----------------------------
(***************************************************************************)
(* Two quiet worlds in which one server is asked every question of a kind, *)
(* and one in which generations come and go, two commands build keyword    *)
(* indexes and something is damaged while a few questions are asked.       *)
(***************************************************************************)
EXTENDS Retrieval

Chunk(paper, role) == [paper |-> paper, role |-> role, text |-> "own"]
MCContent ==
  [v \in Versions |-> IF v = 2 THEN (1 :> Chunk("p", "main")) @@ (2 :> Chunk("q", "main"))
                     ELSE (1 :> Chunk("p", "main")) @@ (2 :> Chunk("p", "si")) @@ (3 :> Chunk("q", "main"))]

Request(kind, n, mode, rerank, filter, dense, lexical, score, sections, count, dedupe) ==
  [kind |-> kind, n |-> n, mode |-> mode, rerank |-> rerank, filter |-> filter,
   dense |-> dense, lexical |-> lexical, score |-> score,
   sections |-> sections, count |-> count, dedupe |-> dedupe]

All == [paper |-> None, role |-> None]
OfP == [paper |-> "p", role |-> None]
SI == [paper |-> "p", role |-> "si"]
Flat == [i \in 1..4 |-> 0]
Rising == [i \in 1..4 |-> i]

Papers(n, mode, rerank, filter, dense, lexical, score) ==
  Request("papers", n, mode, rerank, filter, dense, lexical, score, <<>>, 0, FALSE)
Note(kind, n, sections, count, dedupe) ==
  Request(kind, n, "dense", FALSE, All, <<>>, <<>>, Flat, sections, count, dedupe)

Orders == {<<1, 2, 3>>, <<2, 1, 3>>, <<3, 2, 1>>, <<3, 1, 2>>}
Modes == {"dense", "hybrid", "lexical", "auto"}

PaperQuestions ==
  {Papers(n, mode, rerank, filter, dense, lexical, score) :
     n \in 1..3, mode \in Modes, rerank \in BOOLEAN, filter \in {All, OfP, SI},
     dense \in {<<1, 2, 3>>, <<2, 3, 1>>}, lexical \in Orders \cup {<<>>, <<3>>, <<2, 3>>},
     score \in {Flat, Rising}}

NoteQuestions ==
  {Note("notes", n, sections, Len(sections) + more, dedupe) :
     n \in 1..3, more \in 0..2, dedupe \in BOOLEAN,
     sections \in UNION {[1..k -> {"a", "b"}] : k \in 0..4} \cup {<<"a", "a", "b", "a", "c">>}}
  \cup {Note("note", 1, sections, 3, TRUE) : sections \in {<<>>, <<"a", "a">>, <<"a", "b", "a">>}}

BusyQuestions ==
  {Papers(2, "auto", FALSE, All, <<1, 2, 3>>, <<3, 4, 2, 1>>, Flat),
   Papers(1, "lexical", TRUE, OfP, <<1, 2, 3>>, <<3, 2, 1>>, Rising),
   Note("notes", 2, <<"a", "a", "b">>, 3, TRUE)}

MCQuestions ==
  [papers |-> PaperQuestions, notes |-> NoteQuestions, few |-> BusyQuestions, none |-> {}]

World(busy, tools, asked) == [busy |-> busy, tools |-> tools, asked |-> asked]
MCWorlds ==
  {World(FALSE, {"build"}, "papers"), World(FALSE, {}, "notes"),
   World(TRUE, {"build"}, "few"), World(TRUE, Tools, "none")}

MCStruck == {<<1, 1>>, <<1, 3>>, <<2, 2>>}

(* The index of another generation, and rows nobody indexed: a chunk that  *)
(* is in no generation, one under another paper.                           *)
MCForged ==
  {[of |-> 2, count |-> 2, by |-> "outside", rows |-> MCContent[2]],
   [of |-> 1, count |-> 3, by |-> "outside",
    rows |-> (1 :> Chunk("q", "main")) @@ (3 :> Chunk("p", "si")) @@ (4 :> Chunk("p", "main"))]}
=============================================================================
