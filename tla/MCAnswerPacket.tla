--------------------------- MODULE MCAnswerPacket ---------------------------
(***************************************************************************)
(* Three kinds of library: one note with every short document of a few     *)
(* page texts; one source with every combination of keys, paths, databases *)
(* and files; and two sources that may be one attachment. Files of the     *)
(* last two kinds are replaced during the build.                           *)
(***************************************************************************)
EXTENDS AnswerPacket

CONSTANT Twins    \* two files with the same text are among the bytes

PageTexts == {<<>>, <<"x">>, <<NL, "x">>, <<"x", ".", " ">>, <<"x", "x", "x">>, <<Heading>>}
Documents == UNION {[1..n -> PageTexts] : n \in 1..3}

(* The bytes of a file are its pages and a number.                         *)
File(pages, n) == [pages |-> pages, number |-> n]
One == File(<<<<"x", "x">>>>, 1)
Twin == File(<<<<"x", "x">>>>, 2)
Other == File(<<<<"v", ".", " ", "x", "W", "x">>>>, 1)
Empty == File(<<<<" ">>>>, 1)
Short == {One, Other, Empty} \cup (IF Twins THEN {Twin} ELSE {})
MCPagesOf == [b \in {File(d, 1) : d \in Documents} \cup Short |-> b.pages]

MCStorageKey == ("stored" :> 11) @@ [p \in {"a", "b", "linked", None} |-> None]
MCLinkedName == ("linked" :> "attachments:linked") @@ [p \in {"a", "b", "stored", None} |-> None]

Row(parent, attachment, path) == [parent |-> parent, attachment |-> attachment, path |-> path]
Zotero == {Row(1, 11, "storage:one"), Row(1, 12, "attachments:linked"), Row(2, 13, "storage:two")}
Databases == {None, Unreadable, Zotero, Zotero \cup {Row(2, 11, "attachments:linked")}}

(* What one input of the embedding model holds.                            *)
Whole == [chars |-> 4, tokens |-> None]
Units == [chars |-> 2, tokens |-> None]
Words == [chars |-> 4, tokens |-> 1]
NoWords == [chars |-> 4, tokens |-> 0]

Note(parent, pdfs) == [parent |-> parent, pdfs |-> pdfs]
Pdf(path, original, attachment) == [path |-> path, original |-> original, attachment |-> attachment]
Library(notes, db, base, files, splitters, changing, bytes, sound, n) ==
  [notes |-> notes, db |-> db, base |-> base, files |-> files, splitters |-> splitters,
   changing |-> changing, bytes |-> bytes, sound |-> sound, faults |-> n,
   asked |-> n > 0]

(* A document counts as sound when it has text, in every window.           *)
Sound(pages) ==
  LET t == WithoutReferences(Joined(pages))
  IN /\ Len(t) > MinChunkLen
     /\ \A o \in Windows(Len(t)) : \E i \in (o + 1)..WindowEnd(Len(t), o) : t[i] # NL
     /\ \E k \in DOMAIN pages : ~Blank(pages[k])

OneDocument ==
  {Library(<<Note(1, 0 :> Pdf("a", None, 11))>>, None, FALSE, "a" :> File(d, 1),
           {Whole, Units} \cup (IF Len(d) < 3 THEN {Words} ELSE {}), {}, {}, Sound(d), 0) :
     d \in Documents}

OneSource ==
  {Library(<<None, Note(parent, 0 :> Pdf("a", original, attachment))>>, db, base, files,
           {Whole, NoWords}, {"a", original} \ {None}, {Other, None},
           FALSE, 0) :
     parent \in {None, 0, 1}, attachment \in {None, 0, 11},
     original \in {None, "stored", "linked"}, db \in Databases, base \in BOOLEAN,
     files \in {"a" :> One, ("a" :> One) @@ ("stored" :> One),
                ("a" :> One) @@ ("linked" :> Unreadable), "a" :> Empty}}

TwoSources ==
  {Library(notes, None, FALSE, ("a" :> One) @@ ("b" :> other), {Whole, Units},
           {"a", "b"}, Short \cup {Unreadable}, FALSE, 0) :
     other \in Short,
     notes \in {<<Note(1, (0 :> Pdf("a", None, 11)) @@ (1 :> Pdf("b", None, k)))>> : k \in {11, 12}}
          \cup {<<Note(1, 0 :> Pdf("a", None, 11)), Note(p, i :> Pdf(path, None, 11))>> :
                  p \in {1, 2}, i \in {0, 1}, path \in {"a", "b"}}}

(* Served, asked and answered, with the faults of a server's life.         *)
Served ==
  {Library(<<Note(1, 0 :> Pdf("a", None, 11)), Note(2, 0 :> Pdf("b", None, 12))>>, None,
           FALSE, ("a" :> File(<<<<"x", "x", "x">>, <<NL, "x">>>>, 1)) @@ ("b" :> Other),
           {Units}, {}, {}, TRUE, 1)}

MCCorpora == OneDocument \cup OneSource \cup TwoSources \cup Served
           \cup {Library(<<None>>, None, FALSE, "a" :> One, {Whole}, {}, {}, FALSE, 0)}

Cite(id, quote) == [id |-> id, quote |-> quote]
Claim(text, cites) == [text |-> text, cites |-> cites]
Good == Claim("stated", {Cite(1, None)})
MCAnswers ==
  {[claims |-> claims, missing |-> missing] :
     missing \in BOOLEAN, claims \in {{}, {Good}}}
  \cup
  {[claims |-> claims, missing |-> FALSE] :
     claims \in {{Good, Claim("blank", {Cite(1, None)})},
                 {Claim("stated", {})}, {Claim("stated", {Cite(2, <<"x">>), Cite(1, None)})},
                 {Good, Claim("marked", {Cite(1, <<"x">>)})},
                 {Claim("stated", {Cite(1, <<"z">>)})}, {Claim("stated", {Cite(2, <<" ">>)})}}}

(* But for the twins, two files of a library are told apart by a chunk.    *)
ASSUME TellingAssumption == Twins \/ Telling
=============================================================================
