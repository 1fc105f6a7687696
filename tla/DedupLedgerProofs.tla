--------------------------- MODULE DedupLedgerProofs ---------------------------
(***************************************************************************)
(* For any papers, PDFs, notes, changes, deaths, runs and commands.        *)
(*                                                                         *)
(* No recorded line is lost but as LinesKept says (IInv).  LinesKept alone *)
(* is not inductive, because a command truncates the ledger: before it     *)
(* does, and until it has written its lines, what was recorded is in a     *)
(* backup, was in one that has been written over, or was appended since.   *)
(*                                                                         *)
(* A paper that was covered stays covered, and a migration settles what it *)
(* planned (CoverInv), as long as no two papers ever have files of the     *)
(* same content (Unlike): notes, lines and plans are then of one paper     *)
(* each, so what a command does for one says nothing of another.           *)
(***************************************************************************)
EXTENDS DedupLedger, FiniteSetTheorems, TLAPS

(* A command that has made its backup, and has yet to write the ledger.    *)
Rewriting == tool.pc \in {"saved", "truncated"}

(* While a command rewrites the ledger, nothing that was recorded depends  *)
(* on what the ledger holds.                                               *)
BackedUp == Rewriting => recorded \subseteq backups \cup named \cup raced \cup overwritten

(* A command is what Rest is, with other values.                           *)
ToolShape ==
  tool = [cmd |-> tool.cmd, pc |-> tool.pc, lines |-> tool.lines, plan |-> tool.plan,
          todo |-> tool.todo]

(* The invariant behind LinesKept.                                        *)
IInv == LinesKept /\ BackedUp /\ ToolShape

-----------------------------------------------------------------------------

(* Nothing is recorded in the beginning.                                   *)
LEMMA InitKeepsLines == Init => IInv
BY DEF Init, IInv, LinesKept, BackedUp, Rewriting, ToolShape, Rest

(* A step that writes none of the six keeps the invariant unless it makes *)
(* a backup; one that ends a command makes BackedUp empty.                 *)
LEMMA OtherSteps ==
  ASSUME IInv, UNCHANGED <<ledger, backups, named, recorded, raced, overwritten>>,
         ToolShape', Rewriting' => Rewriting
  PROVE  IInv'
BY DEF IInv, LinesKept, BackedUp

(* The steps of a scanner process, of which only the append writes.        *)
LEMMA WorkerSteps ==
  ASSUME IInv, NEW p \in Papers,
         StartRun(p) \/ PublishNote(p) \/ Record(p) \/ WorkerDies(p)
  PROVE  IInv'
<1>1. CASE StartRun(p)
  BY <1>1, OtherSteps DEF IInv, ToolShape, Rewriting, StartRun, lines, ghosts
<1>2. CASE PublishNote(p)
  BY <1>2, OtherSteps DEF IInv, ToolShape, Rewriting, PublishNote, lines
<1>3. CASE WorkerDies(p)
  <2>1. UNCHANGED <<lines, tool, ghosts>>
    BY <1>3 DEF WorkerDies
  <2> QED BY <2>1, OtherSteps DEF IInv, ToolShape, Rewriting, lines, ghosts
<1>4. CASE Record(p)
  <2> DEFINE h == Stable(worker[p].contents)
  <2>1. UNCHANGED <<backups, named, tool, overwritten>>
    BY <1>4 DEF Record
  <2>2. CASE worker[p].known
    <3>1. UNCHANGED <<ledger, recorded, raced>>
      BY <1>4, <2>2 DEF Record
    <3>2. QED BY <2>1, <3>1, OtherSteps DEF IInv, ToolShape, Rewriting
  <2>3. CASE ~worker[p].known
    <3>1. /\ ledger' = ledger \cup {h}
          /\ recorded' = recorded \cup {h}
          /\ raced' = IF Rewriting THEN raced \cup {h} ELSE raced \ {h}
      BY <1>4, <2>3 DEF Record, Appended, Rewriting
    <3> HIDE DEF h
    <3>2. LinesKept'
      BY <2>1, <3>1 DEF IInv, LinesKept
    <3>3. BackedUp'
      BY <2>1, <3>1 DEF IInv, BackedUp, Rewriting
    <3>4. QED BY <2>1, <3>2, <3>3 DEF IInv, ToolShape
  <2>4. QED BY <2>2, <2>3
<1>5. QED BY <1>1, <1>2, <1>3, <1>4

(* The steps of a command: the backup holds all that the ledger held, so   *)
(* that it may be truncated and written from an older reading.             *)
LEMMA CommandSteps ==
  ASSUME IInv,
         \/ CleanRead \/ CleanScan \/ MigratePlan \/ MigrateHistory
         \/ SaveLedger \/ Truncate \/ Rewrite \/ Report \/ ToolDies
         \/ \E p \in Papers : MigrateNote(p) \/ BackfillRead(p) \/ BackfillWrite(p)
  PROVE  IInv'
<1>1. CASE CleanRead
  BY <1>1, OtherSteps DEF IInv, ToolShape, Rewriting, CleanRead, lines, ghosts, Rest
<1>2. CASE CleanScan
  BY <1>2, OtherSteps DEF IInv, ToolShape, Rewriting, CleanScan, lines, ghosts, Rest
<1>3. CASE MigratePlan
  BY <1>3, OtherSteps DEF IInv, ToolShape, Rewriting, MigratePlan, lines, ghosts, Rest
<1>4. CASE MigrateHistory
  BY <1>4, OtherSteps DEF IInv, ToolShape, Rewriting, MigrateHistory, lines, ghosts
<1>5. CASE SaveLedger
  BY <1>5 DEF SaveLedger, LinesToSave, IInv, LinesKept, BackedUp, ToolShape, ghosts
<1>6. CASE Truncate
  BY <1>6 DEF Truncate, IInv, LinesKept, BackedUp, Rewriting, ToolShape, ghosts
<1>7. CASE Rewrite
  <2>1. recorded \subseteq backups \cup named \cup raced \cup overwritten
    BY <1>7 DEF Rewrite, IInv, BackedUp, Rewriting
  <2>2. ToolShape' /\ ~Rewriting'
    BY <1>7 DEF Rewrite, Rest, IInv, ToolShape, Rewriting
  <2>3. UNCHANGED <<backups, named, recorded, raced, overwritten>>
    BY <1>7 DEF Rewrite, ghosts
  <2>4. QED BY <2>1, <2>2, <2>3 DEF IInv, LinesKept, BackedUp
<1>8. CASE Report
  BY <1>8, OtherSteps DEF IInv, ToolShape, Rewriting, Report, lines, ghosts, Rest
<1>9. CASE ToolDies
  <2>1. /\ UNCHANGED <<ledger, backups, recorded, raced>> /\ tool' = Rest
        /\ \/ UNCHANGED <<named, overwritten>>
           \/ overwritten' = overwritten \cup named
    BY <1>9 DEF ToolDies
  <2>2. ToolShape' /\ ~Rewriting'
    BY <2>1 DEF Rest, ToolShape, Rewriting
  <2> QED BY <2>1, <2>2 DEF IInv, LinesKept, BackedUp
<1>10. ASSUME NEW p \in Papers, MigrateNote(p) PROVE IInv'
  BY <1>10, OtherSteps DEF IInv, ToolShape, Rewriting, MigrateNote, lines, ghosts, Rest
<1>11. ASSUME NEW p \in Papers, BackfillRead(p) PROVE IInv'
  BY <1>11, OtherSteps DEF IInv, ToolShape, Rewriting, BackfillRead, lines, ghosts, Rest
<1>12. ASSUME NEW p \in Papers, BackfillWrite(p) PROVE IInv'
  BY <1>12, OtherSteps DEF IInv, ToolShape, Rewriting, BackfillWrite, lines, ghosts, Rest
<1>13. QED
  BY <1>1, <1>2, <1>3, <1>4, <1>5, <1>6, <1>7, <1>8, <1>9, <1>10, <1>11, <1>12

(* What a user does leaves the lines alone; an editor takes the newline    *)
(* of the last one, which the next append repairs.                         *)
LEMMA UserSteps ==
  ASSUME IInv,
         \/ \E p \in Papers : DeleteNote(p)
         \/ \E path \in Paths : MovePdf(path) \/ ReplacePdf(path)
         \/ EditLedger
  PROVE  IInv'
<1>1. ASSUME NEW p \in Papers, DeleteNote(p) PROVE IInv'
  BY <1>1, OtherSteps DEF IInv, ToolShape, Rewriting, DeleteNote, Meddle
<1>2. ASSUME NEW path \in Paths, MovePdf(path) PROVE IInv'
  BY <1>2, OtherSteps DEF IInv, ToolShape, Rewriting, MovePdf, Meddle
<1>3. ASSUME NEW path \in Paths, ReplacePdf(path) PROVE IInv'
  BY <1>3, OtherSteps DEF IInv, ToolShape, Rewriting, ReplacePdf, Meddle
<1>4. CASE EditLedger
  BY <1>4, OtherSteps DEF IInv, ToolShape, Rewriting, EditLedger, Meddle
<1>5. QED BY <1>1, <1>2, <1>3, <1>4

(* Every step of the system keeps it.                                      *)
LEMMA StepKeepsLines == IInv /\ [Next]_vars => IInv'
<1> SUFFICES ASSUME IInv, [Next]_vars PROVE IInv'
  OBVIOUS
<1>1. CASE UNCHANGED vars
  BY <1>1, OtherSteps DEF IInv, ToolShape, Rewriting, vars, lines, ghosts
<1>2. CASE Next
  BY <1>2, WorkerSteps, CommandSteps, UserSteps DEF Next
<1>3. QED BY <1>1, <1>2

(* What a worker has recorded in the ledger (dedup_index.py, append) leaves *)
(* it for a backup only, whatever else appends, rewrites or dies, but for  *)
(* an append between a command's backup and the end of its rewrite, and    *)
(* for a backup that a later migration is told to write in the same place. *)
THEOREM RecordedLinesStay == Spec => []LinesKept
<1>1. IInv => LinesKept
  BY DEF IInv
<1>2. QED BY <1>1, InitKeepsLines, StepKeepsLines, PTL DEF Spec

-----------------------------------------------------------------------------

(* Place(s, _) finds every place of s: those before a place are fewer than *)
(* those before any later one.                                             *)
LEMMA PlaceIsThere ==
  ASSUME NEW s \in Seq(Nat), NEW k \in 1..Len(s)
  PROVE  Place(s, k) \in 1..Len(s)
<1> DEFINE N == Len(s)
           Ahead(i) == {j \in DOMAIN s : s[j] < s[i] \/ (s[j] = s[i] /\ j < i)}
           rank == [i \in 1..N |-> Cardinality(Ahead(i)) + 1]
<1>1. N \in Nat /\ DOMAIN s = 1..N /\ \A i \in 1..N : s[i] \in Nat /\ i \in Nat
  <2>1. Len(s) \in Nat /\ DOMAIN s = 1..Len(s)
    OBVIOUS
  <2>2. \A i \in 1..Len(s) : s[i] \in Nat
    OBVIOUS
  <2> QED BY <2>1, <2>2
<1>2. IsFiniteSet(1..N) /\ Cardinality(1..N) = N
  <2>1. N \in Nat
    BY <1>1
  <2> HIDE DEF N
  <2> QED BY <2>1, FS_Interval
<1>3. \A i \in 1..N : Ahead(i) \subseteq (1..N) \ {i}
  BY <1>1
<1>4. \A i, j \in 1..N : i # j => i \in Ahead(j) \/ j \in Ahead(i)
  BY <1>1
<1>5. \A i, j \in 1..N : i \in Ahead(j) => Ahead(i) \subseteq Ahead(j)
  <2> SUFFICES ASSUME NEW i \in 1..N, NEW j \in 1..N, i \in Ahead(j), NEW h \in Ahead(i)
               PROVE  h \in Ahead(j)
    OBVIOUS
  <2>1. h \in 1..N /\ h \in Nat /\ i \in Nat /\ j \in Nat
          /\ s[h] \in Nat /\ s[i] \in Nat /\ s[j] \in Nat
    BY <1>1, <1>3
  <2>2. s[h] < s[i] \/ (s[h] = s[i] /\ h < i)
    OBVIOUS
  <2>3. s[i] < s[j] \/ (s[i] = s[j] /\ i < j)
    OBVIOUS
  <2>4. s[h] < s[j] \/ (s[h] = s[j] /\ h < j)
    BY <2>1, <2>2, <2>3
  <2> QED BY <1>1, <2>1, <2>4
<1> HIDE DEF Ahead, N
<1>6. \A i \in 1..N : IsFiniteSet(Ahead(i)) /\ Cardinality(Ahead(i)) \in 0..(N - 1)
  <2> SUFFICES ASSUME NEW i \in 1..N
               PROVE  IsFiniteSet(Ahead(i)) /\ Cardinality(Ahead(i)) \in 0..(N - 1)
    OBVIOUS
  <2>1. Ahead(i) \subseteq 1..N /\ Ahead(i) # 1..N
    BY <1>3
  <2>2. IsFiniteSet(Ahead(i)) /\ Cardinality(Ahead(i)) < N /\ Cardinality(Ahead(i)) \in Nat
    BY <1>2, <2>1, FS_Subset, FS_CardinalityType
  <2> QED BY <1>1, <2>2
<1>7. ASSUME NEW i \in 1..N, NEW j \in 1..N, i \in Ahead(j)
      PROVE  Cardinality(Ahead(i)) < Cardinality(Ahead(j))
  <2>1. Ahead(i) \subseteq Ahead(j) /\ Ahead(i) # Ahead(j)
    BY <1>3, <1>5, <1>7
  <2> QED BY <1>6, <2>1, FS_Subset, FS_CardinalityType
<1>8. rank \in Injection(1..N, 1..N)
  <2>1. \A i, j \in 1..N : i # j => Cardinality(Ahead(i)) # Cardinality(Ahead(j))
    <3> SUFFICES ASSUME NEW i \in 1..N, NEW j \in 1..N, i # j
                 PROVE  Cardinality(Ahead(i)) # Cardinality(Ahead(j))
      OBVIOUS
    <3>1. Cardinality(Ahead(i)) \in Int /\ Cardinality(Ahead(j)) \in Int
      BY <1>1, <1>6
    <3>2. CASE i \in Ahead(j) BY <3>1, <3>2, <1>7
    <3>3. CASE j \in Ahead(i) BY <3>1, <3>3, <1>7
    <3> QED BY <1>4, <3>2, <3>3
  <2>2. ASSUME NEW i \in 1..N
        PROVE  rank[i] = Cardinality(Ahead(i)) + 1 /\ rank[i] \in 1..N
    <3>1. rank[i] = Cardinality(Ahead(i)) + 1
      OBVIOUS
    <3>2. Cardinality(Ahead(i)) \in 0..(N - 1) /\ N \in Nat
      BY <1>1, <1>6
    <3>3. Cardinality(Ahead(i)) + 1 \in 1..N
      BY <3>2
    <3> QED BY <3>1, <3>3
  <2>3. \A i, j \in 1..N : rank[i] = rank[j] => i = j
    <3> SUFFICES ASSUME NEW i \in 1..N, NEW j \in 1..N, rank[i] = rank[j] PROVE i = j
      OBVIOUS
    <3>1. Cardinality(Ahead(i)) \in Int /\ Cardinality(Ahead(j)) \in Int
      BY <1>1, <1>6
    <3>2. Cardinality(Ahead(i)) + 1 = Cardinality(Ahead(j)) + 1
      BY <2>2
    <3>3. Cardinality(Ahead(i)) = Cardinality(Ahead(j))
      BY <3>1, <3>2
    <3> QED BY <2>1, <3>3
  <2>4. rank \in [1..N -> 1..N]
    BY <2>2
  <2> HIDE DEF rank
  <2> QED BY <2>3, <2>4 DEF Injection, IsInjective
<1>9. rank \in Surjection(1..N, 1..N)
  BY <1>2, <1>8, FS_Injection
<1>10. PICK i \in 1..N : rank[i] = k
  BY <1>9 DEF Surjection, N
<1>11. Cardinality(Ahead(i)) = k - 1
  <2>1. Cardinality(Ahead(i)) \in Int /\ k \in Int
    BY <1>1, <1>6
  <2>2. Cardinality(Ahead(i)) + 1 = k
    BY <1>10
  <2> QED BY <2>1, <2>2
<1>12. \E j \in DOMAIN s : Cardinality(Ahead(j)) = k - 1
  BY <1>1, <1>11
<1> QED BY <1>1, <1>12 DEF Place, Ahead, N

-----------------------------------------------------------------------------
(* Digests and hashes of a paper.                                          *)

(* What a file of the paper holds, or held before it was replaced.         *)
DigestOf(p, d) == \E path \in ToSet(Group[p]) : \E k \in Nat : d = FirstDigest[path] + 100 * k

(* What a hash of the paper is made from, and what one is made like.       *)
Listing(p, c) ==
  c \in Seq(Nat) /\ Len(c) = Len(Group[p]) /\ \A i \in 1..Len(c) : DigestOf(p, c[i])

(* A hash that starts with a digest of the paper.                          *)
Mine(p, h) == h \in Seq(Nat) /\ h # NoHash /\ DigestOf(p, h[1])

(* No two papers ever have files of the same content.                      *)
Unlike ==
  \A p, q \in Papers : p # q =>
    \A a \in ToSet(Group[p]), b \in ToSet(Group[q]) :
      \A j, k \in Nat : FirstDigest[a] + 100 * j # FirstDigest[b] + 100 * k

(* A hash tells whose it is.                                               *)
LEMMA HashesApart ==
  ASSUME Unlike, NEW p \in Papers, NEW q \in Papers, NEW h, Mine(p, h), Mine(q, h)
  PROVE  p = q
BY DEF Unlike, Mine, DigestOf

(* The group of a paper is a list of one path or more.                     *)
LEMMA GroupShape ==
  ASSUME NEW p \in Papers
  PROVE  /\ Group[p] \in Seq(Nat) /\ Len(Group[p]) \in Nat \ {0}
         /\ DOMAIN Group[p] = 1..Len(Group[p])
         /\ \A i \in 1..Len(Group[p]) : Group[p][i] \in Paths /\ Group[p][i] \in ToSet(Group[p])
<1>1. Group[p] \in Seq(Paths) /\ Group[p] # <<>> /\ Paths \subseteq Nat
  BY LedgerAssumption
<1>2. /\ Len(Group[p]) \in Nat \ {0} /\ DOMAIN Group[p] = 1..Len(Group[p])
      /\ Group[p] = [i \in 1..Len(Group[p]) |-> Group[p][i]]
  BY <1>1
<1>3. \A i \in 1..Len(Group[p]) : Group[p][i] \in Paths
  BY <1>1
<1>4. Group[p] \in Seq(Nat)
  <2>1. \A i \in 1..Len(Group[p]) : Group[p][i] \in Nat
    BY <1>1, <1>3
  <2> DEFINE g == Group[p]
  <2>2. g = [i \in 1..Len(g) |-> g[i]] /\ Len(g) \in Nat /\ \A i \in 1..Len(g) : g[i] \in Nat
    BY <1>2, <2>1
  <2> HIDE DEF g
  <2>3. g \in Seq(Nat)
    BY <2>2
  <2> QED BY <2>3 DEF g
<1> QED BY <1>2, <1>3, <1>4 DEF ToSet

(* The hashes of a listing are hashes of the paper.                        *)
LEMMA ListingHashes ==
  ASSUME NEW p \in Papers, NEW c, Listing(p, c)
  PROVE  Mine(p, c) /\ Mine(p, Stable(c)) /\ Mine(p, Legacy(p, c))
<1>1. /\ Len(c) \in Nat \ {0} /\ DOMAIN c = 1..Len(c) /\ c \in Seq(Nat)
      /\ Len(Group[p]) = Len(c) /\ Group[p] \in Seq(Nat)
      /\ \A i \in 1..Len(c) : DigestOf(p, c[i])
  BY GroupShape DEF Listing
<1>2. \A k \in 1..Len(c) : Place(c, k) \in 1..Len(c) /\ Place(Group[p], k) \in 1..Len(c)
  BY <1>1, PlaceIsThere
<1>9. \A i \in 1..Len(c) : c[i] \in Nat
  BY <1>1
<1>3. Stable(c) = [k \in 1..Len(c) |-> c[Place(c, k)]]
  BY <1>1 DEF Stable
<1>4. Legacy(p, c) = [k \in 1..Len(c) |-> c[Place(Group[p], k)]]
  BY <1>1 DEF Legacy
<1>5. ASSUME NEW h, h = [k \in 1..Len(c) |-> h[k]], \A k \in 1..Len(c) : h[k] \in Nat,
             DigestOf(p, h[1])
      PROVE  Mine(p, h)
  <2>1. h \in Seq(Nat) /\ Len(h) = Len(c)
    BY <1>1, <1>5
  <2> QED BY <1>1, <1>5, <2>1 DEF Mine, NoHash
<1>6. Mine(p, c)
  BY <1>1 DEF Mine, NoHash
<1>7. Mine(p, Stable(c))
  <2> DEFINE h == Stable(c)
  <2>1. h = [k \in 1..Len(c) |-> c[Place(c, k)]]
    BY <1>3
  <2> HIDE DEF h
  <2>2. \A k \in 1..Len(c) : h[k] = c[Place(c, k)]
    BY <2>1
  <2>3. h = [k \in 1..Len(c) |-> h[k]]
    BY <2>1, <2>2
  <2>4. \A k \in 1..Len(c) : h[k] \in Nat
    BY <1>9, <1>2, <2>2
  <2>5. DigestOf(p, h[1])
    <3>1. 1 \in 1..Len(c)
      BY <1>1
    <3> QED BY <1>1, <1>2, <2>2, <3>1
  <2>6. Mine(p, h)
    BY <1>5, <2>3, <2>4, <2>5
  <2> QED BY <2>6 DEF h
<1>8. Mine(p, Legacy(p, c))
  <2> DEFINE h == Legacy(p, c)
  <2>1. h = [k \in 1..Len(c) |-> c[Place(Group[p], k)]]
    BY <1>4
  <2> HIDE DEF h
  <2>2. \A k \in 1..Len(c) : h[k] = c[Place(Group[p], k)]
    BY <2>1
  <2>3. h = [k \in 1..Len(c) |-> h[k]]
    BY <2>1, <2>2
  <2>4. \A k \in 1..Len(c) : h[k] \in Nat
    BY <1>9, <1>2, <2>2
  <2>5. DigestOf(p, h[1])
    <3>1. 1 \in 1..Len(c)
      BY <1>1
    <3> QED BY <1>1, <1>2, <2>2, <3>1
  <2>6. Mine(p, h)
    BY <1>5, <2>3, <2>4, <2>5
  <2> QED BY <2>6 DEF h
<1> QED BY <1>6, <1>7, <1>8

(* The hashes of what is at the paths of a paper now.                      *)
S(p) == Stable(Contents(p))
L(p) == Legacy(p, Contents(p))
Hashes(p) == {S(p), L(p)}

(* Digests are those of the first files, or of their replacements.         *)
FileInv ==
  /\ DOMAIN digest = Paths /\ DOMAIN note = Papers /\ processed \subseteq Papers
  /\ \A path \in Paths : \E k \in Nat : digest[path] = FirstDigest[path] + 100 * k

(* A scanner process works on files of its paper.                          *)
WorkerInv ==
  /\ DOMAIN worker = Papers
  /\ \A p \in Papers :
       /\ worker[p] = [pc |-> worker[p].pc, contents |-> worker[p].contents,
                       known |-> worker[p].known]
       /\ worker[p].pc # "idle" => Listing(p, worker[p].contents)

(* A note of the paper: its hash, if it has one, is the paper's.           *)
IsNote(p, n) == n \in Notes /\ (n.hash = NoHash \/ Mine(p, n.hash))

(* A plan for the paper: a note of it, and hashes of one listing.          *)
IsPlan(p, plan) ==
  /\ plan = [was |-> plan.was, stable |-> plan.stable, listed |-> plan.listed]
  /\ IsNote(p, plan.was) /\ Listing(p, plan.listed) /\ plan.stable = Stable(plan.listed)

(* Notes and plans are those of their papers; no line is empty.            *)
OwnInv ==
  /\ \A p \in Papers : HasFrontmatter(note[p]) => IsNote(p, note[p])
  /\ DOMAIN tool.plan = Papers /\ tool.todo \subseteq Papers
  /\ \A p \in Papers : tool.plan[p] = NoPlan \/ IsPlan(p, tool.plan[p])
  /\ \A p \in tool.todo : tool.plan[p] # NoPlan
  /\ NoHash \notin ledger /\ NoHash \notin tool.lines

(* For a processed paper, processes and plans know the files of now.       *)
CurrentInv ==
  \A p \in processed :
    /\ note[p] # NoNote
    /\ worker[p].pc # "idle" => worker[p].contents = Contents(p)
    /\ tool.plan[p] # NoPlan => tool.plan[p].listed = Contents(p)

-----------------------------------------------------------------------------

(* What is at the paths of a paper can be hashed.                          *)
LEMMA ContentsListed ==
  ASSUME FileInv, NEW p \in Papers
  PROVE  Listing(p, Contents(p))
<1> DEFINE g == Group[p]
           c == [i \in 1..Len(g) |-> digest[g[i]]]
<1>1. /\ g \in Seq(Nat) /\ Len(g) \in Nat \ {0} /\ DOMAIN g = 1..Len(g)
      /\ \A i \in 1..Len(g) : g[i] \in Paths /\ g[i] \in ToSet(g)
  BY GroupShape
<1>2. Contents(p) = c
  BY <1>1 DEF Contents
<1>3. \A i \in 1..Len(g) : \E k \in Nat : digest[g[i]] = FirstDigest[g[i]] + 100 * k
  BY <1>1 DEF FileInv
<1>4. \A path \in Paths : digest[path] \in Nat
  <2> SUFFICES ASSUME NEW path \in Paths PROVE digest[path] \in Nat
    OBVIOUS
  <2>1. FirstDigest[path] \in Nat
    BY LedgerAssumption
  <2> QED BY <2>1 DEF FileInv
<1>5. ASSUME NEW i \in 1..Len(g) PROVE c[i] \in Nat /\ DigestOf(p, c[i])
  <2>1. c[i] = digest[g[i]] /\ g[i] \in Paths /\ g[i] \in ToSet(Group[p])
    BY <1>1
  <2> QED BY <1>3, <1>4, <2>1 DEF DigestOf
<1> HIDE DEF g
<1>6. c \in Seq(Nat) /\ Len(c) = Len(g)
  BY <1>1, <1>5
<1> HIDE DEF c
<1>7. Listing(p, c)
  BY <1>5, <1>6 DEF Listing, g
<1> QED BY <1>2, <1>7

(* The hashes of a paper change with its files only.                       *)
LEMMA SameHashes ==
  ASSUME NEW p \in Papers, Contents(p)' = Contents(p)
  PROVE  S(p)' = S(p) /\ L(p)' = L(p) /\ Hashes(p)' = Hashes(p)
BY DEF S, L, Hashes, Stable, Legacy

(* The files of a paper change with the digests only ...                   *)
LEMMA SameContents ==
  ASSUME UNCHANGED digest
  PROVE  \A p \in Papers : Contents(p)' = Contents(p)
BY DEF Contents

(* ... and not with a digest of another paper.                             *)
LEMMA OtherContents ==
  ASSUME FileInv, NEW p \in Papers, NEW path \in Paths, path \notin ToSet(Group[p]),
         digest' = [digest EXCEPT ![path] = @ + 100]
  PROVE  Contents(p)' = Contents(p)
<1>1. /\ DOMAIN Group[p] = 1..Len(Group[p])
      /\ \A i \in 1..Len(Group[p]) : Group[p][i] \in Paths /\ Group[p][i] \in ToSet(Group[p])
  BY GroupShape
<1>2. \A i \in 1..Len(Group[p]) : digest'[Group[p][i]] = digest[Group[p][i]]
  BY <1>1 DEF FileInv
<1> QED BY <1>1, <1>2 DEF Contents

(* What a scanner process writes is a note of its paper.                   *)
LEMMA WrittenIsNote ==
  ASSUME NEW p \in Papers, NEW c, Listing(p, c)
  PROVE  /\ IsNote(p, Written(p, c)) /\ HasFrontmatter(Written(p, c))
         /\ Written(p, c).hash = Stable(c) /\ Readable(Written(p, c))
<1>1. Mine(p, Stable(c)) /\ Mine(p, Legacy(p, c))
  BY ListingHashes
<1>2. Stable(c) \in Seq(Nat) /\ Legacy(p, c) \in Seq(Nat) /\ NoHash \in Seq(Nat)
  BY <1>1 DEF Mine, NoHash
<1> DEFINE s == Stable(c)
           l == IF Legacy(p, c) # Stable(c) THEN Legacy(p, c) ELSE NoHash
           k == p \in InZotero
<1>3. Written(p, c) = [hash |-> s, legacy |-> l, key |-> k, decodes |-> TRUE]
  BY DEF Written
<1>4. s \in Seq(Nat) /\ l \in Seq(Nat) /\ k \in BOOLEAN /\ Mine(p, s)
  BY <1>1, <1>2
<1> HIDE DEF s, l, k
<1>5. Written(p, c) \in Notes /\ Written(p, c).hash = s /\ Written(p, c).decodes
  BY <1>3, <1>4 DEF Notes
<1> QED BY <1>4, <1>5, LedgerRecordAssumption DEF IsNote, HasFrontmatter, Readable, s

(* A note with another hash, as one command writes it and the other.       *)
Rehashed(n, h) == {[n EXCEPT !.hash = h], [n EXCEPT !.hash = h, !.decodes = TRUE]}

(* It is a note of its paper when the hash is one of the paper.            *)
LEMMA RehashedIsNote ==
  ASSUME NEW p \in Papers, NEW n, IsNote(p, n), NEW h, Mine(p, h),
         NEW r, r \in Rehashed(n, h)
  PROVE  IsNote(p, r) /\ HasFrontmatter(r) /\ r.hash = h
<1>1. n \in Notes /\ h \in Seq(Nat)
  BY DEF IsNote, Mine
<1>2. r \in Notes /\ r.hash = h
  <2>1. [n EXCEPT !.hash = h] \in Notes /\ [n EXCEPT !.hash = h].hash = h
    BY <1>1 DEF Notes
  <2>2. [n EXCEPT !.hash = h, !.decodes = TRUE] \in Notes
          /\ [n EXCEPT !.hash = h, !.decodes = TRUE].hash = h
    BY <1>1 DEF Notes
  <2> QED BY <2>1, <2>2 DEF Rehashed
<1> QED BY <1>2, LedgerRecordAssumption DEF IsNote, HasFrontmatter

(* What is left of a note that is cut short is a note that no reader can   *)
(* tell anything from.                                                     *)
LEMMA CutIsTorn ==
  ASSUME NEW p \in Papers, NEW n, IsNote(p, n), NEW file \in CutShort(n)
  PROVE  /\ file # NoNote /\ ~Readable(file)
         /\ HasFrontmatter(file) => IsNote(p, file)
<1>1. CASE file \in {Blank, Garbled}
  BY <1>1, LedgerRecordAssumption DEF HasFrontmatter, Readable
<1>2. CASE file = [n EXCEPT !.decodes = FALSE]
  <2>1. n \in Notes
    BY DEF IsNote
  <2>2. file \in Notes /\ ~file.decodes /\ file.hash = n.hash
    BY <1>2, <2>1 DEF Notes
  <2> QED BY <2>2, LedgerRecordAssumption DEF IsNote, Readable
<1> QED BY <1>1, <1>2 DEF CutShort

(* What a command plans for a note that it writes.                         *)
LEMMA PlanShape ==
  ASSUME FileInv, OwnInv, NEW p \in Papers, HasFrontmatter(note[p])
  PROVE  LET plan == [was |-> note[p], stable |-> Stable(Contents(p)), listed |-> Contents(p)] IN
         IsPlan(p, plan) /\ plan # NoPlan
<1>1. IsNote(p, note[p]) /\ Listing(p, Contents(p)) /\ Contents(p) # NoHash
  BY ContentsListed, ListingHashes DEF OwnInv, Mine
<1> QED BY <1>1 DEF IsPlan, NoPlan

(* So is what the migration plans.                                         *)
LEMMA PlannedShape ==
  ASSUME FileInv, OwnInv, NEW p \in Papers
  PROVE  \/ Planned(p) = NoPlan
         \/ /\ IsPlan(p, Planned(p)) /\ Planned(p) # NoPlan
            /\ Planned(p).was = note[p] /\ Planned(p).listed = Contents(p)
            /\ Planned(p).stable = S(p)
<1> DEFINE plan == [was |-> note[p], stable |-> Stable(Contents(p)), listed |-> Contents(p)]
<1>1. Planned(p) = NoPlan \/ (HasFrontmatter(note[p]) /\ Planned(p) = plan)
  BY DEF Planned, StableAgain, Listed
<1>2. HasFrontmatter(note[p]) => IsPlan(p, plan) /\ plan # NoPlan
  BY PlanShape
<1>3. plan.was = note[p] /\ plan.listed = Contents(p) /\ plan.stable = S(p)
  BY DEF S
<1> QED BY <1>1, <1>2, <1>3

-----------------------------------------------------------------------------

(* Every step keeps what the scanner processes know.                       *)
LEMMA WorkerKept ==
  ASSUME FileInv, WorkerInv, [Next]_vars
  PROVE  WorkerInv'
<1>1. ASSUME NEW p \in Papers, StartRun(p) PROVE WorkerInv'
  <2>1. Listing(p, Contents(p))
    BY ContentsListed
  <2>2. PICK force \in BOOLEAN : worker' = [worker EXCEPT ![p] =
            [pc |-> IF Hits(p, Contents(p)) /\ ~force THEN "record" ELSE "write",
             contents |-> Contents(p), known |-> Stable(Contents(p)) \in ledger]]
    BY <1>1 DEF StartRun
  <2> QED BY <2>1, <2>2 DEF WorkerInv
<1>2. ASSUME NEW p \in Papers, PublishNote(p) PROVE WorkerInv'
  BY <1>2 DEF PublishNote, WorkerInv
<1>3. ASSUME NEW p \in Papers, Record(p) \/ WorkerDies(p) PROVE WorkerInv'
  <2>1. worker' = [worker EXCEPT ![p] = Idle]
    BY <1>3 DEF Record, WorkerDies
  <2> QED BY <2>1 DEF WorkerInv, Idle
<1>4. CASE UNCHANGED worker
  BY <1>4 DEF WorkerInv
<1> QED
  BY <1>1, <1>2, <1>3, <1>4, ZenonT(30) DEF Next, vars, MigrateNote, BackfillRead, BackfillWrite,
     DeleteNote,
     CleanRead, CleanScan, MigratePlan, MigrateHistory, SaveLedger, Truncate, Rewrite, Report,
     ToolDies, MovePdf, ReplacePdf, EditLedger, Meddle

(* Every step keeps what is known of the files.                            *)
LEMMA FileKept ==
  ASSUME FileInv, [Next]_vars
  PROVE  FileInv'
<1>1. DOMAIN note' = Papers
  BY ZenonT(30) DEF FileInv, Next, vars, files, StartRun, PublishNote, Record, WorkerDies,
     MigrateNote,
     BackfillRead, BackfillWrite, DeleteNote, CleanRead, CleanScan, MigratePlan, MigrateHistory,
     SaveLedger, Truncate, Rewrite, Report, ToolDies, MovePdf, ReplacePdf, EditLedger, Meddle
<1>2. processed' \subseteq Papers
  BY ZenonT(30) DEF FileInv, Next, vars, ghosts, StartRun, PublishNote, Record, WorkerDies,
     MigrateNote,
     BackfillRead, BackfillWrite, DeleteNote, CleanRead, CleanScan, MigratePlan, MigrateHistory,
     SaveLedger, Truncate, Rewrite, Report, ToolDies, MovePdf, ReplacePdf, EditLedger, Meddle
<1>3. CASE UNCHANGED digest
  BY <1>1, <1>2, <1>3 DEF FileInv
<1>4. ASSUME NEW path \in Paths, ReplacePdf(path) PROVE FileInv'
  <2>1. digest' = [digest EXCEPT ![path] = @ + 100]
    BY <1>4 DEF ReplacePdf
  <2>2. ASSUME NEW q \in Paths PROVE \E k \in Nat : digest'[q] = FirstDigest[q] + 100 * k
    <3>1. PICK k \in Nat : digest[q] = FirstDigest[q] + 100 * k
      BY DEF FileInv
    <3>2. CASE q # path
      BY <2>1, <3>1, <3>2 DEF FileInv
    <3>3. CASE q = path
      <4>1. FirstDigest[q] \in Nat
        BY LedgerAssumption
      <4>2. digest'[q] = FirstDigest[q] + 100 * k + 100
        BY <2>1, <3>1, <3>3 DEF FileInv
      <4>3. digest'[q] = FirstDigest[q] + 100 * (k + 1) /\ k + 1 \in Nat
        BY <4>1, <4>2
      <4> QED BY <4>3
    <3> QED BY <3>2, <3>3
  <2> QED BY <1>1, <1>2, <2>1, <2>2 DEF FileInv
<1>5. ASSUME ~UNCHANGED digest PROVE \E path \in Paths : ReplacePdf(path)
  BY <1>5, ZenonT(30) DEF FileInv, Next, vars, files, StartRun, PublishNote, Record, WorkerDies,
     MigrateNote,
     BackfillRead, BackfillWrite, DeleteNote, CleanRead, CleanScan, MigratePlan, MigrateHistory,
     SaveLedger, Truncate, Rewrite, Report, ToolDies, MovePdf, EditLedger, Meddle
<1> QED BY <1>3, <1>4, <1>5

-----------------------------------------------------------------------------
(* What a step makes of the command that runs.                             *)

(* The command goes on, with the plan it has.                              *)
Goes(pc, lns, todo) ==
  tool' = [cmd |-> tool.cmd, pc |-> pc, lines |-> lns, plan |-> tool.plan, todo |-> todo]

(* What a command has before it has planned anything.                      *)
NoPlans == [p \in Papers |-> NoPlan]

(* What each step of a command makes of it.                                *)
LEMMA ToolGoes ==
  ASSUME ToolShape
  PROVE  /\ MigrateHistory => Goes("notes", Normalised(ledger, tool.plan), tool.todo)
         /\ SaveLedger => Goes("saved", tool.lines, tool.todo)
         /\ Truncate => Goes("truncated", tool.lines, tool.todo)
         /\ Rewrite => \/ tool.cmd = "clean" /\ tool' = Rest
                       \/ tool.cmd # "clean" /\ Goes("written", tool.lines, tool.todo)
         /\ Report \/ ToolDies => tool' = Rest
         /\ CleanScan => \/ tool' = Rest
              \/ Goes("scanned", tool.lines \cap UNION {Noted(p) : p \in Verifiable}, tool.todo)
         /\ CleanRead => tool' = [cmd |-> "clean", pc |-> "read", lines |-> ledger,
                                  plan |-> NoPlans, todo |-> {}]
         /\ MigratePlan =>
              tool' = [cmd |-> "migrate", pc |-> "planned", lines |-> {},
                       plan |-> [p \in Papers |-> Planned(p)],
                       todo |-> {p \in Papers : Changed(Planned(p))}]
         /\ \A p \in Papers :
              /\ MigrateNote(p) => \/ tool' = Rest
                                   \/ Goes(tool.pc, tool.lines, tool.todo \ {p})
              /\ BackfillWrite(p) => tool' = Rest
              /\ BackfillRead(p) =>
                   tool' = [cmd |-> "backfill", pc |-> "notes", lines |-> {}, todo |-> {p},
                            plan |-> [NoPlans EXCEPT ![p] =
                              [was |-> note[p], stable |-> Stable(Contents(p)),
                               listed |-> Contents(p)]]]
<1>a. ASSUME NEW pc
      PROVE  [tool EXCEPT !.pc = pc]
               = [cmd |-> tool.cmd, pc |-> pc, lines |-> tool.lines, plan |-> tool.plan,
                  todo |-> tool.todo]
  BY DEF ToolShape
<1>b. ASSUME NEW pc, NEW lns
      PROVE  [tool EXCEPT !.pc = pc, !.lines = lns]
               = [cmd |-> tool.cmd, pc |-> pc, lines |-> lns, plan |-> tool.plan,
                  todo |-> tool.todo]
  <2>1. ASSUME NEW t, t = [cmd |-> tool.cmd, pc |-> pc, lines |-> tool.lines,
                           plan |-> tool.plan, todo |-> tool.todo]
        PROVE  [t EXCEPT !.lines = lns]
                 = [cmd |-> tool.cmd, pc |-> pc, lines |-> lns, plan |-> tool.plan,
                    todo |-> tool.todo]
    BY <2>1
  <2>2. [tool EXCEPT !.pc = pc, !.lines = lns] = [[tool EXCEPT !.pc = pc] EXCEPT !.lines = lns]
    OBVIOUS
  <2> QED BY <1>a, <2>1, <2>2
<1>c. ASSUME NEW todo
      PROVE  [tool EXCEPT !.todo = todo]
               = [cmd |-> tool.cmd, pc |-> tool.pc, lines |-> tool.lines, plan |-> tool.plan,
                  todo |-> todo]
  BY DEF ToolShape
<1>2. MigrateHistory => Goes("notes", Normalised(ledger, tool.plan), tool.todo)
  BY <1>a, <1>b, <1>c DEF MigrateHistory, Goes
<1>3. SaveLedger => Goes("saved", tool.lines, tool.todo)
  BY <1>a, <1>b, <1>c DEF SaveLedger, Goes
<1>4. Truncate => Goes("truncated", tool.lines, tool.todo)
  BY <1>a, <1>b, <1>c DEF Truncate, Goes
<1>5. Rewrite => \/ tool.cmd = "clean" /\ tool' = Rest
                 \/ tool.cmd # "clean" /\ Goes("written", tool.lines, tool.todo)
  BY <1>a, <1>b, <1>c DEF Rewrite, Goes
<1>6. Report \/ ToolDies => tool' = Rest
  BY DEF Report, ToolDies
<1>7. CleanScan => \/ tool' = Rest
        \/ Goes("scanned", tool.lines \cap UNION {Noted(p) : p \in Verifiable}, tool.todo)
  <2> DEFINE noted == UNION {Noted(p) : p \in Verifiable}
  <2>1. CleanScan => \/ tool' = Rest
                     \/ tool' = [tool EXCEPT !.pc = "scanned", !.lines = tool.lines \cap noted]
    BY DEF CleanScan
  <2> HIDE DEF noted
  <2>2. CleanScan => tool' = Rest \/ Goes("scanned", tool.lines \cap noted, tool.todo)
    BY <1>b, <2>1 DEF Goes
  <2> QED BY <2>2 DEF noted
<1>8. CleanRead => tool' = [cmd |-> "clean", pc |-> "read", lines |-> ledger,
                           plan |-> NoPlans, todo |-> {}]
  BY DEF CleanRead, Rest, NoPlans
<1>9. MigratePlan =>
        tool' = [cmd |-> "migrate", pc |-> "planned", lines |-> {},
                 plan |-> [p \in Papers |-> Planned(p)],
                 todo |-> {p \in Papers : Changed(Planned(p))}]
  <2> DEFINE plan == [p \in Papers |-> Planned(p)]
             todo == {p \in Papers : Changed(plan[p])}
  <2>1. todo = {p \in Papers : Changed(Planned(p))}
    OBVIOUS
  <2>2. MigratePlan =>
          tool' = [Rest EXCEPT !.cmd = "migrate", !.pc = "planned", !.plan = plan, !.todo = todo]
    BY DEF MigratePlan
  <2> HIDE DEF plan, todo
  <2>3. MigratePlan =>
          tool' = [cmd |-> "migrate", pc |-> "planned", lines |-> {}, plan |-> plan, todo |-> todo]
    BY <2>2 DEF Rest
  <2> QED BY <2>1, <2>3 DEF plan
<1>10. ASSUME NEW p \in Papers
       PROVE  /\ MigrateNote(p) => \/ tool' = Rest
                                   \/ Goes(tool.pc, tool.lines, tool.todo \ {p})
              /\ BackfillWrite(p) => tool' = Rest
  BY <1>a, <1>b, <1>c DEF MigrateNote, BackfillWrite, Goes
<1>11. ASSUME NEW p \in Papers, BackfillRead(p)
       PROVE  tool' = [cmd |-> "backfill", pc |-> "notes", lines |-> {}, todo |-> {p},
                       plan |-> [NoPlans EXCEPT ![p] =
                         [was |-> note[p], stable |-> Stable(Contents(p)),
                          listed |-> Contents(p)]]]
  <2> DEFINE mine == [was |-> note[p], stable |-> Stable(Contents(p)), listed |-> Contents(p)]
  <2>1. tool' = [Rest EXCEPT !.cmd = "backfill", !.pc = "notes", !.todo = {p}, !.plan[p] = mine]
    BY <1>11 DEF BackfillRead
  <2> HIDE DEF mine
  <2>2. tool' = [cmd |-> "backfill", pc |-> "notes", lines |-> {}, todo |-> {p},
                 plan |-> [NoPlans EXCEPT ![p] = mine]]
    BY <2>1 DEF Rest, NoPlans
  <2> QED BY <2>2 DEF mine
<1> QED BY <1>2, <1>3, <1>4, <1>5, <1>6, <1>7, <1>8, <1>9, <1>10, <1>11

(* Nothing else touches it.                                                *)
LEMMA ToolSteps ==
  ASSUME [Next]_vars
  PROVE  \/ MigratePlan \/ CleanRead \/ MigrateHistory \/ SaveLedger \/ Truncate \/ CleanScan
         \/ Rewrite \/ Report \/ ToolDies \/ UNCHANGED tool
         \/ \E p \in Papers : BackfillRead(p) \/ MigrateNote(p) \/ BackfillWrite(p)
BY ZenonT(30) DEF Next, vars, StartRun, PublishNote, Record, WorkerDies, DeleteNote, MovePdf,
   ReplacePdf,
       EditLedger, Meddle

(* The hashes a planned note goes by are hashes of its paper.              *)
LEMMA AliasIsMine ==
  ASSUME OwnInv, NEW p \in Papers, NEW h \in Aliases(tool.plan[p])
  PROVE  tool.plan[p] # NoPlan /\ Mine(p, h)
<1>1. tool.plan[p] # NoPlan /\ h # NoHash
        /\ h \in {tool.plan[p].was.hash, tool.plan[p].listed, tool.plan[p].stable}
  BY DEF Aliases
<1>2. IsPlan(p, tool.plan[p])
  BY <1>1 DEF OwnInv
<1>3. Mine(p, tool.plan[p].listed) /\ Mine(p, tool.plan[p].stable)
  BY <1>2, ListingHashes DEF IsPlan
<1> QED BY <1>1, <1>2, <1>3 DEF IsPlan, IsNote

(* What the migration makes of the ledger.                                 *)
LEMMA NormalisedLines ==
  ASSUME OwnInv, NEW history, NoHash \notin history
  PROVE  LET n == Normalised(history, tool.plan) IN
         /\ NoHash \notin n
         /\ \A p \in Papers : tool.plan[p] # NoPlan => tool.plan[p].stable \in n
         /\ Unlike => \A p \in Papers : tool.plan[p] # NoPlan =>
              {tool.plan[p].was.hash, tool.plan[p].listed} \cap n \subseteq {tool.plan[p].stable}
         /\ Unlike => \A p \in Papers : tool.plan[p] = NoPlan =>
              \A h \in history : Mine(p, h) => h \in n
<1> DEFINE plan == tool.plan
           known == UNION {Aliases(plan[p]) : p \in Papers}
           stableOf(h) == {plan[p].stable : p \in {q \in Papers : h \in Aliases(plan[q])}}
           stables == {plan[p].stable : p \in {q \in Papers : plan[q] # NoPlan}}
           moved == {CHOOSE s \in stableOf(h) : TRUE : h \in history \cap known}
           n == Normalised(history, plan)
<1>1. n = (history \ known) \cup moved \cup stables
  BY DEF Normalised
<1>2. moved \subseteq stables
  <2> SUFFICES ASSUME NEW h \in known PROVE (CHOOSE s \in stableOf(h) : TRUE) \in stables
    OBVIOUS
  <2>1. PICK q \in Papers : h \in Aliases(plan[q])
    OBVIOUS
  <2>2. plan[q].stable \in stableOf(h)
    BY <2>1
  <2>3. (CHOOSE s \in stableOf(h) : TRUE) \in stableOf(h)
    BY <2>2
  <2>4. stableOf(h) \subseteq stables
    BY AliasIsMine
  <2> QED BY <2>3, <2>4
<1>3. \A h : h \in n <=> (h \in history /\ h \notin known) \/ h \in stables
  <2>1. moved \cup stables = stables
    BY <1>2
  <2>2. n = (history \ known) \cup stables
    BY <1>1, <2>1
  <2> QED BY <2>2
<1>4. \A h : h \in known <=> \E p \in Papers : h \in Aliases(plan[p])
  OBVIOUS
<1>5. \A h : h \in stables <=> \E p \in Papers : plan[p] # NoPlan /\ h = plan[p].stable
  OBVIOUS
<1> HIDE DEF n, known, stables, moved
<1>6. \A p \in Papers : plan[p] # NoPlan => Mine(p, plan[p].stable) /\ Mine(p, plan[p].listed)
  BY ListingHashes DEF OwnInv, IsPlan
<1>7. NoHash \notin n
  BY <1>3, <1>5, <1>6 DEF Mine
<1>8. \A p \in Papers : plan[p] # NoPlan => plan[p].stable \in n
  BY <1>3, <1>5
<1>9. ASSUME Unlike, NEW p \in Papers, plan[p] # NoPlan,
             NEW h \in {plan[p].was.hash, plan[p].listed}, h \in n
      PROVE  h = plan[p].stable
  <2>1. h # NoHash
    BY <1>7, <1>9
  <2>2. h \in Aliases(plan[p])
    BY <1>9, <2>1 DEF Aliases
  <2>3. PICK q \in Papers : plan[q] # NoPlan /\ h = plan[q].stable
    BY <1>3, <1>4, <1>5, <1>9, <2>2
  <2>4. Mine(p, h) /\ Mine(q, h)
    BY <1>6, <2>2, <2>3, AliasIsMine
  <2> QED BY <1>9, <2>3, <2>4, HashesApart
<1>10. ASSUME Unlike, NEW p \in Papers, plan[p] = NoPlan, NEW h \in history, Mine(p, h)
       PROVE  h \in n
  <2>1. ASSUME NEW q \in Papers, h \in Aliases(plan[q]) PROVE FALSE
    <3>1. plan[q] # NoPlan /\ Mine(q, h)
      BY <2>1, AliasIsMine
    <3> QED BY <1>10, <3>1, HashesApart
  <2> QED BY <1>3, <1>4, <2>1
<1> QED BY <1>7, <1>8, <1>9, <1>10 DEF n

(* What a command may make of the note it has planned.                     *)
Writes(plan) == Rehashed(plan.was, plan.stable)

(* It is a note of its paper, with the stable hash.                        *)
LEMMA WritesAreNotes ==
  ASSUME OwnInv, NEW p \in tool.todo, NEW r \in Writes(tool.plan[p])
  PROVE  /\ p \in Papers /\ tool.plan[p] # NoPlan
         /\ IsNote(p, r) /\ HasFrontmatter(r) /\ r.hash = tool.plan[p].stable
<1>1. p \in Papers /\ tool.plan[p] # NoPlan /\ IsPlan(p, tool.plan[p])
  BY DEF OwnInv
<1>2. IsNote(p, tool.plan[p].was) /\ Mine(p, tool.plan[p].stable)
  BY <1>1, ListingHashes DEF IsPlan
<1> QED BY <1>1, <1>2, RehashedIsNote DEF Writes

(* So is what it was writing when it died.                                 *)
LEMMA RewrittenIsNote ==
  ASSUME OwnInv, NEW p \in tool.todo
  PROVE  IsNote(p, Rewritten(p))
<1>1. Rewritten(p) \in Writes(tool.plan[p])
  BY DEF Rewritten, Writes, Rehashed, Upserted, Stamped
<1> QED BY <1>1, WritesAreNotes

(* Who writes to a note.                                                   *)
NotesChange ==
  \/ UNCHANGED note \/ ToolDies
  \/ \E p \in Papers : \/ PublishNote(p) \/ MigrateNote(p) \/ BackfillWrite(p)
                       \/ WorkerDies(p) \/ DeleteNote(p)

(* Nobody else does.                                                       *)
LEMMA NoteChanges ==
  ASSUME [Next]_vars
  PROVE  NotesChange
BY ZenonT(30) DEF NotesChange, Next, vars, files, StartRun, Record,
   BackfillRead, CleanRead, CleanScan, MigratePlan, MigrateHistory,
   SaveLedger, Truncate, Rewrite, Report, MovePdf, ReplacePdf, EditLedger, Meddle

(* Every step keeps a note that of its paper.                              *)
LEMMA NotesKept ==
  ASSUME FileInv, WorkerInv, OwnInv, [Next]_vars, NEW q \in Papers
  PROVE  HasFrontmatter(note'[q]) => IsNote(q, note'[q])
<1>0. HasFrontmatter(note[q]) => IsNote(q, note[q])
  BY DEF OwnInv
<1>1. CASE note'[q] = note[q] \/ note'[q] = NoNote
  BY <1>0, <1>1 DEF HasFrontmatter
<1>2. ASSUME NEW p \in Papers, PublishNote(p) PROVE HasFrontmatter(note'[q]) => IsNote(q, note'[q])
  <2>1. Listing(p, worker[p].contents)
    BY <1>2 DEF PublishNote, WorkerInv
  <2>2. note' = [note EXCEPT ![p] = Written(p, worker[p].contents)]
    BY <1>2 DEF PublishNote
  <2> QED BY <1>0, <2>1, <2>2, WrittenIsNote DEF FileInv
<1>3. ASSUME NEW p \in Papers, MigrateNote(p) \/ BackfillWrite(p), note' # note
      PROVE HasFrontmatter(note'[q]) => IsNote(q, note'[q])
  <2>1. PICK r : r \in Writes(tool.plan[p]) /\ note' = [note EXCEPT ![p] = r]
    BY <1>3 DEF MigrateNote, BackfillWrite, Upserted, Stamped, Writes, Rehashed
  <2>2. IsNote(p, r)
    BY <1>3, <2>1, WritesAreNotes DEF MigrateNote, BackfillWrite
  <2> QED BY <1>0, <2>1, <2>2 DEF FileInv
<1>4. ASSUME NEW p \in Papers, WorkerDies(p), note' # note
      PROVE HasFrontmatter(note'[q]) => IsNote(q, note'[q])
  <2>1. PICK file \in CutShort(Written(p, worker[p].contents)) : note' = [note EXCEPT ![p] = file]
    BY <1>4 DEF WorkerDies
  <2>2. IsNote(p, Written(p, worker[p].contents))
    BY <1>4, WrittenIsNote DEF WorkerDies, WorkerInv
  <2> QED BY <1>0, <2>1, <2>2, CutIsTorn DEF FileInv
<1>5. ASSUME ToolDies, note' # note
      PROVE HasFrontmatter(note'[q]) => IsNote(q, note'[q])
  <2>1. PICK p \in tool.todo :
          \E file \in CutShort(Rewritten(p)) : note' = [note EXCEPT ![p] = file]
    BY <1>5 DEF ToolDies
  <2>2. p \in Papers /\ IsNote(p, Rewritten(p))
    BY <2>1, RewrittenIsNote DEF OwnInv
  <2> QED BY <1>0, <2>1, <2>2, CutIsTorn DEF FileInv
<1>6. ASSUME NEW p \in Papers, DeleteNote(p) PROVE note'[q] = note[q] \/ note'[q] = NoNote
  BY <1>6 DEF DeleteNote, FileInv
<1>7. NotesChange
  BY NoteChanges
<1> QED BY <1>1, <1>2, <1>3, <1>4, <1>5, <1>6, <1>7 DEF NotesChange

(* The part of OwnInv that is about plans.                                 *)
PlanInv ==
  /\ DOMAIN tool.plan = Papers /\ tool.todo \subseteq Papers
  /\ \A p \in Papers : tool.plan[p] = NoPlan \/ IsPlan(p, tool.plan[p])
  /\ \A p \in tool.todo : tool.plan[p] # NoPlan

(* Every step keeps a plan one for its paper.                              *)
LEMMA PlanKept ==
  ASSUME FileInv, WorkerInv, OwnInv, ToolShape, [Next]_vars
  PROVE  PlanInv'
<1>0. PlanInv
  BY DEF OwnInv, PlanInv
<1>1. CASE tool' = Rest
  BY <1>1 DEF PlanInv, Rest
<1>2. CASE tool'.plan = tool.plan /\ tool'.todo \subseteq tool.todo
  BY <1>0, <1>2 DEF PlanInv
<1>3. CASE MigratePlan
  <2>1. \A p \in Papers : Planned(p) = NoPlan \/ IsPlan(p, Planned(p))
    BY PlannedShape
  <2>2. tool'.plan = [p \in Papers |-> Planned(p)]
          /\ tool'.todo = {p \in Papers : Changed(Planned(p))}
    BY <1>3, ToolGoes
  <2> QED BY <2>1, <2>2 DEF PlanInv, Changed
<1>4. ASSUME NEW p \in Papers, BackfillRead(p) PROVE PlanInv'
  <2> DEFINE mine == [was |-> note[p], stable |-> Stable(Contents(p)), listed |-> Contents(p)]
  <2>1. tool'.plan = [NoPlans EXCEPT ![p] = mine] /\ tool'.todo = {p}
    <3>1. tool' = [cmd |-> "backfill", pc |-> "notes", lines |-> {}, todo |-> {p},
                   plan |-> [NoPlans EXCEPT ![p] = mine]]
      BY <1>4, ToolGoes
    <3> HIDE DEF mine
    <3> QED BY <3>1
  <2>2. IsPlan(p, mine) /\ mine # NoPlan
    BY <1>4, PlanShape DEF BackfillRead, Unstamped, Readable
  <2> HIDE DEF mine
  <2> QED BY <2>1, <2>2 DEF PlanInv, NoPlans
<1>5. CASE CleanRead
  <2>1. tool'.plan = NoPlans /\ tool'.todo = {}
    BY <1>5, ToolGoes
  <2> QED BY <2>1 DEF PlanInv, NoPlans
<1>6. ASSUME \/ MigrateHistory \/ SaveLedger \/ Truncate \/ CleanScan \/ Rewrite \/ Report
             \/ ToolDies \/ UNCHANGED tool
             \/ \E p \in Papers : MigrateNote(p) \/ BackfillWrite(p)
      PROVE  tool' = Rest \/ (tool'.plan = tool.plan /\ tool'.todo \subseteq tool.todo)
  BY <1>6, ToolGoes DEF Goes
<1> QED BY <1>1, <1>2, <1>3, <1>4, <1>5, <1>6, ToolSteps

(* No step writes an empty line.                                           *)
LEMMA HashesKept ==
  ASSUME WorkerInv, OwnInv, ToolShape, [Next]_vars
  PROVE  NoHash \notin ledger' /\ NoHash \notin tool'.lines
<1>0. NoHash \notin ledger /\ NoHash \notin tool.lines
  BY DEF OwnInv
<1>1. NoHash \notin ledger'
  <2>1. CASE UNCHANGED ledger
    BY <1>0, <2>1
  <2>2. ASSUME NEW p \in Papers, Record(p) PROVE NoHash \notin ledger'
    <3>1. Mine(p, Stable(worker[p].contents))
      BY <2>2, ListingHashes DEF Record, WorkerInv
    <3> QED BY <1>0, <2>2, <3>1 DEF Record, Appended, Mine
  <2>3. CASE Truncate
    BY <2>3 DEF Truncate
  <2>4. CASE Rewrite
    BY <1>0, <2>4 DEF Rewrite, LeftOver
  <2> QED
    BY <2>1, <2>2, <2>3, <2>4, ZenonT(30) DEF Next, vars, lines, StartRun, PublishNote,
       WorkerDies, MigrateNote,
       BackfillRead, BackfillWrite, DeleteNote, CleanRead, CleanScan, MigratePlan, MigrateHistory,
       SaveLedger, Report, ToolDies, MovePdf, ReplacePdf, EditLedger
<1>2. NoHash \notin tool'.lines
  <2>1. CASE MigrateHistory
    <3>1. tool'.lines = Normalised(ledger, tool.plan)
      BY <2>1, ToolGoes DEF Goes
    <3> QED BY <1>0, <3>1, NormalisedLines
  <2>2. CASE CleanRead
    <3>1. tool'.lines = ledger
      BY <2>2, ToolGoes
    <3> QED BY <1>0, <3>1
  <2>3. ASSUME \/ MigratePlan \/ SaveLedger \/ Truncate \/ CleanScan \/ Rewrite \/ Report
               \/ ToolDies \/ UNCHANGED tool
               \/ \E p \in Papers : MigrateNote(p) \/ BackfillWrite(p) \/ BackfillRead(p)
        PROVE  tool'.lines \subseteq tool.lines
    BY <2>3, ToolGoes DEF Goes, Rest
  <2> QED BY <1>0, <2>1, <2>2, <2>3, ToolSteps
<1> QED BY <1>1, <1>2

(* Every step keeps OwnInv.                                                *)
LEMMA OwnKept ==
  ASSUME FileInv, WorkerInv, OwnInv, ToolShape, [Next]_vars
  PROVE  OwnInv'
BY NotesKept, PlanKept, HashesKept DEF OwnInv, PlanInv

-----------------------------------------------------------------------------
(* What a step leaves of a paper that counts as processed after it.        *)

(* Its files are there, or gone, as before.                                *)
LEMMA FilesLeftAlone ==
  ASSUME FileInv, [Next]_vars, NEW p \in Papers, p \in processed'
  PROVE  Contents(p)' = Contents(p) /\ (Present(p)' <=> Present(p))
<1>1. CASE UNCHANGED <<digest, away>>
  BY <1>1 DEF Contents, Present
<1>2. ASSUME NEW path \in Paths, MovePdf(path) \/ ReplacePdf(path), path \in ToSet(Group[p])
      PROVE  FALSE
  <2>1. processed' = processed \ OwnersOf(path)
    BY <1>2 DEF MovePdf, ReplacePdf, Meddle
  <2>2. p \in OwnersOf(path)
    BY <1>2 DEF OwnersOf
  <2> QED BY <2>1, <2>2
<1>3. ASSUME NEW path \in Paths, MovePdf(path), path \notin ToSet(Group[p])
      PROVE  Contents(p)' = Contents(p) /\ (Present(p)' <=> Present(p))
  <2>1. UNCHANGED digest /\ away' \in {away \ {path}, away \cup {path}}
    BY <1>3 DEF MovePdf
  <2> QED BY <1>3, <2>1, SameContents DEF Present
<1>4. ASSUME NEW path \in Paths, ReplacePdf(path), path \notin ToSet(Group[p])
      PROVE  Contents(p)' = Contents(p) /\ (Present(p)' <=> Present(p))
  <2>1. UNCHANGED away /\ digest' = [digest EXCEPT ![path] = @ + 100]
    BY <1>4 DEF ReplacePdf
  <2> QED BY <1>4, <2>1, OtherContents DEF Present
<1>5. UNCHANGED <<digest, away>> \/ \E path \in Paths : MovePdf(path) \/ ReplacePdf(path)
  BY ZenonT(30) DEF Next, vars, files, StartRun, PublishNote, Record, WorkerDies, MigrateNote,
     BackfillRead, BackfillWrite, DeleteNote, CleanRead, CleanScan, MigratePlan, MigrateHistory,
     SaveLedger, Truncate, Rewrite, Report, ToolDies, EditLedger, Meddle
<1> QED BY <1>1, <1>2, <1>3, <1>4, <1>5

(* Only its scanner makes a paper a processed one.                         *)
LEMMA ProcessedStep ==
  ASSUME FileInv, [Next]_vars, NEW p \in processed', p \notin processed
  PROVE  PublishNote(p) /\ worker[p].contents = Contents(p) /\ ~Outdated(p)
<1>1. \E q \in Papers : PublishNote(q)
  BY ZenonT(30) DEF Next, vars, ghosts, StartRun, Record, WorkerDies, MigrateNote,
     BackfillRead, BackfillWrite, DeleteNote, CleanRead, CleanScan, MigratePlan, MigrateHistory,
     SaveLedger, Truncate, Rewrite, Report, ToolDies, MovePdf, ReplacePdf, EditLedger, Meddle
<1> QED BY <1>1 DEF PublishNote

(* Its note is written by its scanner, or by a command that has read it,   *)
(* or cut short by the death of one of them.                               *)
LEMMA NoteStep ==
  ASSUME FileInv, WorkerInv, OwnInv, [Next]_vars, NEW p \in Papers, p \in processed'
  PROVE  \/ note'[p] = note[p] /\ ~PublishNote(p)
         \/ PublishNote(p) /\ note'[p] = Written(p, worker[p].contents)
         \/ /\ tool.plan[p] # NoPlan /\ HasFrontmatter(note'[p])
            /\ note'[p].hash = tool.plan[p].stable
            /\ MigrateNote(p) \/ BackfillWrite(p)
         \/ TornNote(p)' /\ ~PublishNote(p)
<1>1. ASSUME NEW q \in Papers, PublishNote(q)
      PROVE  \/ q = p /\ note'[p] = Written(p, worker[p].contents)
             \/ q # p /\ note'[p] = note[p]
  BY <1>1 DEF PublishNote, FileInv
<1>2. ASSUME NEW q \in Papers, MigrateNote(q) \/ BackfillWrite(q), note'[p] # note[p]
      PROVE  /\ tool.plan[p] # NoPlan /\ HasFrontmatter(note'[p])
             /\ note'[p].hash = tool.plan[p].stable /\ q = p
  <2>1. PICK r : /\ r \in Writes(tool.plan[q]) /\ note' = [note EXCEPT ![q] = r]
                 /\ q \in tool.todo
    BY <1>2 DEF MigrateNote, BackfillWrite, Upserted, Stamped, Writes, Rehashed
  <2>2. q = p /\ note'[p] = r
    BY <1>2, <2>1 DEF FileInv
  <2> QED BY <2>1, <2>2, WritesAreNotes
<1>3. ASSUME NEW q \in Papers, WorkerDies(q), note'[p] # note[p] PROVE TornNote(p)'
  <2>1. PICK file \in CutShort(Written(q, worker[q].contents)) : note' = [note EXCEPT ![q] = file]
    BY <1>3 DEF WorkerDies
  <2>2. IsNote(q, Written(q, worker[q].contents))
    BY <1>3, WrittenIsNote DEF WorkerDies, WorkerInv
  <2>3. note'[p] = file
    BY <1>3, <2>1 DEF FileInv
  <2>4. file # NoNote /\ ~Readable(file)
    BY <2>1, <2>2, CutIsTorn
  <2> QED BY <2>3, <2>4 DEF TornNote, Readable, HasFrontmatter
<1>4. ASSUME ToolDies, note'[p] # note[p] PROVE TornNote(p)'
  <2>1. PICK q \in tool.todo :
          \E file \in CutShort(Rewritten(q)) : note' = [note EXCEPT ![q] = file]
    BY <1>4 DEF ToolDies
  <2>2. PICK file \in CutShort(Rewritten(q)) : note' = [note EXCEPT ![q] = file]
    BY <2>1
  <2>3. q \in Papers /\ IsNote(q, Rewritten(q))
    BY RewrittenIsNote DEF OwnInv
  <2>4. note'[p] = file
    BY <1>4, <2>2 DEF FileInv
  <2>5. file # NoNote /\ ~Readable(file)
    BY <2>3, CutIsTorn
  <2> QED BY <2>4, <2>5 DEF TornNote, Readable, HasFrontmatter
<1>5. ASSUME NEW q \in Papers, DeleteNote(q) PROVE note'[p] = note[p]
  BY <1>5 DEF DeleteNote, Meddle, FileInv
<1>6. NotesChange
  BY NoteChanges
<1>7. CASE PublishNote(p)
  BY <1>1, <1>7
<1>8. CASE ~PublishNote(p)
  BY <1>1, <1>2, <1>3, <1>4, <1>5, <1>6, <1>8 DEF NotesChange
<1> QED BY <1>7, <1>8

(* A process that works knows what it has read now, or before.             *)
LEMMA WorkerStep ==
  ASSUME WorkerInv, [Next]_vars, NEW p \in Papers, worker'[p].pc # "idle"
  PROVE  \/ worker'[p].contents = Contents(p) /\ UNCHANGED note
         \/ worker[p].pc # "idle" /\ worker'[p].contents = worker[p].contents
<1>1. ASSUME NEW q \in Papers, StartRun(q)
      PROVE  \/ worker'[p].contents = Contents(p) /\ UNCHANGED note
             \/ worker'[p] = worker[p]
  <2>1. PICK force \in BOOLEAN : worker' = [worker EXCEPT ![q] =
            [pc |-> IF Hits(q, Contents(q)) /\ ~force THEN "record" ELSE "write",
             contents |-> Contents(q), known |-> Stable(Contents(q)) \in ledger]]
    BY <1>1 DEF StartRun
  <2> QED BY <1>1, <2>1 DEF WorkerInv, StartRun, files
<1>2. ASSUME NEW q \in Papers, PublishNote(q)
      PROVE  worker[p].pc # "idle" /\ worker'[p].contents = worker[p].contents
  BY <1>2 DEF PublishNote, WorkerInv
<1>3. ASSUME NEW q \in Papers, Record(q) \/ WorkerDies(q)
      PROVE  worker'[p] = worker[p]
  <2>1. worker' = [worker EXCEPT ![q] = Idle]
    BY <1>3 DEF Record, WorkerDies
  <2> QED BY <2>1 DEF WorkerInv, Idle
<1>4. \/ UNCHANGED worker
      \/ \E q \in Papers : StartRun(q) \/ PublishNote(q) \/ Record(q) \/ WorkerDies(q)
  BY ZenonT(30) DEF Next, vars, MigrateNote, BackfillRead, BackfillWrite, DeleteNote,
     CleanRead, CleanScan, MigratePlan, MigrateHistory, SaveLedger, Truncate, Rewrite, Report,
     ToolDies, MovePdf, ReplacePdf, EditLedger, Meddle
<1> QED BY <1>1, <1>2, <1>3, <1>4

(* A plan is one that was there, or made of the note and files of now.     *)
LEMMA PlanStep ==
  ASSUME FileInv, OwnInv, ToolShape, [Next]_vars, NEW p \in Papers, tool'.plan[p] # NoPlan
  PROVE  \/ tool'.plan[p] = tool.plan[p]
         \/ /\ tool'.plan[p].listed = Contents(p) /\ tool'.plan[p].stable = S(p)
            /\ UNCHANGED note
<1>1. CASE MigratePlan
  <2>1. tool'.plan = [q \in Papers |-> Planned(q)]
    BY <1>1, ToolGoes
  <2> QED BY <1>1, <2>1, PlannedShape DEF MigratePlan, files
<1>2. ASSUME NEW q \in Papers, BackfillRead(q)
      PROVE  /\ tool'.plan[p].listed = Contents(p) /\ tool'.plan[p].stable = S(p)
             /\ UNCHANGED note
  <2> DEFINE mine == [was |-> note[q], stable |-> Stable(Contents(q)), listed |-> Contents(q)]
  <2>1. tool'.plan = [NoPlans EXCEPT ![q] = mine]
    <3>1. tool' = [cmd |-> "backfill", pc |-> "notes", lines |-> {}, todo |-> {q},
                   plan |-> [NoPlans EXCEPT ![q] = mine]]
      BY <1>2, ToolGoes
    <3> HIDE DEF mine
    <3> QED BY <3>1
  <2>2. mine.listed = Contents(q) /\ mine.stable = S(q)
    BY DEF S
  <2> HIDE DEF mine
  <2>3. p = q /\ tool'.plan[p] = mine
    BY <2>1 DEF NoPlans
  <2> QED BY <1>2, <2>2, <2>3 DEF BackfillRead, files
<1>3. ASSUME CleanRead \/ tool' = Rest PROVE FALSE
  <2>1. tool'.plan = NoPlans
    BY <1>3, ToolGoes DEF Rest, NoPlans
  <2> QED BY <2>1 DEF NoPlans
<1>4. ASSUME \/ MigrateHistory \/ SaveLedger \/ Truncate \/ CleanScan \/ Rewrite \/ Report
             \/ ToolDies \/ UNCHANGED tool
             \/ \E q \in Papers : MigrateNote(q) \/ BackfillWrite(q)
      PROVE  tool' = Rest \/ tool'.plan = tool.plan
  BY <1>4, ToolGoes DEF Goes
<1> QED BY <1>1, <1>2, <1>3, <1>4, ToolSteps

(* Every step keeps CurrentInv.                                            *)
LEMMA CurrentKept ==
  ASSUME FileInv, WorkerInv, OwnInv, CurrentInv, ToolShape, [Next]_vars
  PROVE  CurrentInv'
<1> SUFFICES ASSUME NEW p \in processed'
             PROVE  /\ note'[p] # NoNote
                    /\ worker'[p].pc # "idle" => worker'[p].contents = Contents(p)
                    /\ tool'.plan[p] # NoPlan => tool'.plan[p].listed = Contents(p)
  <2>1. processed' \subseteq Papers
    BY FileKept DEF FileInv
  <2> QED BY <2>1, FilesLeftAlone DEF CurrentInv
<1>0. p \in Papers
  BY FileKept DEF FileInv
<1>1. /\ p \in processed => note[p] # NoNote
      /\ worker[p].pc # "idle" => worker[p].contents = Contents(p)
      /\ tool.plan[p] # NoPlan => tool.plan[p].listed = Contents(p)
  <2>1. CASE p \in processed
    BY <2>1 DEF CurrentInv
  <2>2. CASE p \notin processed
    <3>1. worker[p].contents = Contents(p) /\ ~Outdated(p)
      BY <2>2, ProcessedStep
    <3>2. ASSUME tool.plan[p] # NoPlan PROVE tool.plan[p].listed # NoHash
      BY <1>0, <3>2, ListingHashes DEF OwnInv, IsPlan, Mine
    <3> QED BY <2>2, <3>1, <3>2 DEF Outdated
  <2> QED BY <2>1, <2>2
<1>2. note'[p] # NoNote
  <2>1. CASE PublishNote(p) /\ note'[p] = Written(p, worker[p].contents)
    BY <1>0, <2>1, WrittenIsNote DEF PublishNote, WorkerInv, HasFrontmatter
  <2>2. CASE note'[p] = note[p] /\ ~PublishNote(p)
    BY <1>1, <2>2, ProcessedStep
  <2>3. CASE HasFrontmatter(note'[p]) \/ TornNote(p)'
    BY <2>3 DEF HasFrontmatter, TornNote
  <2> QED BY <1>0, <2>1, <2>2, <2>3, NoteStep
<1>3. worker'[p].pc # "idle" => worker'[p].contents = Contents(p)
  BY <1>0, <1>1, WorkerStep
<1>4. tool'.plan[p] # NoPlan => tool'.plan[p].listed = Contents(p)
  BY <1>0, <1>1, PlanStep
<1> QED BY <1>2, <1>3, <1>4

-----------------------------------------------------------------------------

(* A note by which its paper is found.                                     *)
Told(p) ==
  Readable(note[p]) /\ (note[p].hash \in Hashes(p) \/ (p \in InZotero /\ note[p].key))

(* A paper that only the ledger speaks for has been so from the start.     *)
LEMMA QuietStep ==
  ASSUME FileInv, WorkerInv, OwnInv, CurrentInv, ToolShape, [Next]_vars,
         NEW p \in Papers, p \in processed', ~Told(p)', ~TornNote(p)'
  PROVE  /\ p \in processed /\ ~Told(p) /\ ~TornNote(p)
         /\ Hashes(p)' = Hashes(p) /\ (Present(p)' <=> Present(p))
<1>1. Contents(p)' = Contents(p) /\ Hashes(p)' = Hashes(p) /\ (Present(p)' <=> Present(p))
  BY FilesLeftAlone, SameHashes
<1>2. p \in processed' /\ CurrentInv'
  BY CurrentKept
<1>3. ASSUME PublishNote(p), note'[p] = Written(p, worker[p].contents) PROVE FALSE
  <2>1. worker[p].contents = Contents(p) /\ worker[p].pc # "idle"
    BY <1>3, ProcessedStep DEF CurrentInv, PublishNote
  <2>2. note'[p].hash = S(p) /\ Readable(note'[p])
    BY <1>3, <2>1, WrittenIsNote DEF WorkerInv, S
  <2> QED BY <1>1, <2>2 DEF Told, Hashes, Readable, HasFrontmatter
<1>4. ASSUME tool.plan[p] # NoPlan, note'[p].hash = tool.plan[p].stable,
             HasFrontmatter(note'[p]), MigrateNote(p) \/ BackfillWrite(p) PROVE FALSE
  <2>1. p \in processed
    BY <1>4 DEF MigrateNote, BackfillWrite, ghosts
  <2>2. tool.plan[p].stable = S(p)
    BY <1>4, <2>1 DEF CurrentInv, OwnInv, IsPlan, S
  <2>3. Readable(note'[p])
    BY <1>4 DEF TornNote, HasFrontmatter, Readable
  <2> QED BY <1>1, <1>4, <2>2, <2>3 DEF Told, Hashes, HasFrontmatter, Readable
<1>5. note'[p] = note[p] /\ ~PublishNote(p)
  BY <1>3, <1>4, NoteStep
<1>6. p \in processed
  BY <1>5, ProcessedStep
<1> QED BY <1>1, <1>5, <1>6 DEF Told, TornNote, Readable, HasFrontmatter

(* Which command is at which step.                                         *)
ControlInv ==
  /\ tool.pc \in {"saved", "truncated"} => tool.cmd \in {"clean", "migrate"}
  /\ tool.pc = "written" => tool.cmd = "migrate"

(* The lines of all backups that were made.                                *)
Copied == backups \cup named \cup overwritten

(* A line of the paper is in the ledger and will be when a command that    *)
(* runs has written it; or one died on the way and a backup has it.        *)
Secured(p) ==
  \/ cut /\ Copied \cap Hashes(p) # {}
  \/ /\ tool.pc # "truncated" => ledger \cap Hashes(p) # {}
     /\ tool.pc \in {"saved", "truncated"} => Copied \cap Hashes(p) # {}
     /\ \/ tool.cmd = "clean"
        \/ tool.cmd = "migrate" /\ tool.pc \in {"notes", "saved", "truncated"}
        => tool.lines \cap Hashes(p) # {}

(* The papers that no note of theirs speaks for.                           *)
QuietInv == \A p \in processed : ~Told(p) /\ ~TornNote(p) => Present(p) /\ Secured(p)

(* The lines a migration will have written, or has.                        *)
Settled(p) ==
  LET plan == tool.plan[p] IN
  /\ tool.pc \in {"notes", "saved", "truncated"} =>
       plan.stable \in tool.lines
         /\ {plan.was.hash, plan.listed} \cap tool.lines \subseteq {plan.stable}
  /\ tool.pc = "written" =>
       /\ plan.stable \in ledger
       /\ {plan.was.hash, plan.listed} \cap ledger \subseteq {plan.stable} \cup recorded

(* What a migration has done so far is done for each group it has planned. *)
SettleInv ==
  /\ tool.pc = "truncated" => ledger \subseteq recorded
  /\ tool.cmd = "migrate" =>
       /\ tool.pc \in {"saved", "truncated", "written"} => tool.todo = {}
       /\ \A p \in processed :
            tool.plan[p] # NoPlan /\ p \notin tool.todo => TornNote(p) \/ note[p].hash = S(p)
       /\ \A p \in Papers : tool.plan[p] # NoPlan => Settled(p)

-----------------------------------------------------------------------------

(* Every step keeps ControlInv.                                            *)
LEMMA ControlKept ==
  ASSUME ControlInv, ToolShape, [Next]_vars
  PROVE  ControlInv'
<1>1. CASE MigratePlan \/ CleanRead \/ Report \/ ToolDies \/ UNCHANGED tool
  BY <1>1, ToolGoes DEF ControlInv, Rest
<1>2. CASE MigrateHistory \/ SaveLedger \/ Truncate \/ CleanScan \/ Rewrite
  BY <1>2, ToolGoes DEF ControlInv, Goes, Rest, SaveLedger, ReadyToSave, Truncate, Rewrite
<1>3. ASSUME NEW p \in Papers, BackfillRead(p) PROVE ControlInv'
  <2> DEFINE plan == [NoPlans EXCEPT ![p] = [was |-> note[p], stable |-> Stable(Contents(p)),
                                             listed |-> Contents(p)]]
  <2>1. tool'.pc = "notes"
    <3>1. tool' = [cmd |-> "backfill", pc |-> "notes", lines |-> {}, todo |-> {p}, plan |-> plan]
      BY <1>3, ToolGoes
    <3> HIDE DEF plan
    <3> QED BY <3>1
  <2> QED BY <2>1 DEF ControlInv
<1>4. ASSUME NEW p \in Papers, MigrateNote(p) \/ BackfillWrite(p) PROVE ControlInv'
  BY <1>4, ToolGoes DEF ControlInv, Goes, Rest
<1> QED BY <1>1, <1>2, <1>3, <1>4, ToolSteps

(* A step that is not the rewrite of the ledger takes no line from it.     *)
LEMMA LedgerGrows ==
  ASSUME [Next]_vars, ~Truncate, ~Rewrite
  PROVE  ledger \subseteq ledger'
BY ZenonT(30) DEF Next, vars, lines, StartRun, PublishNote, Record, Appended, WorkerDies,
   MigrateNote,
     BackfillRead, BackfillWrite, DeleteNote, CleanRead, CleanScan, MigratePlan, MigrateHistory,
     SaveLedger, Report, ToolDies, MovePdf, ReplacePdf, EditLedger, Meddle

(* No line that was copied ceases to count as one.                         *)
LEMMA BackupsGrow ==
  ASSUME [Next]_vars
  PROVE  Copied \subseteq Copied' /\ (cut => cut')
<1>1. Copied \subseteq Copied'
  <2>1. CASE UNCHANGED <<backups, named, overwritten>>
    BY <2>1 DEF Copied
  <2>2. CASE SaveLedger
    BY <2>2 DEF SaveLedger, Copied
  <2>3. CASE ToolDies
    BY <2>3 DEF ToolDies, Copied
  <2>4. UNCHANGED <<backups, named, overwritten>> \/ SaveLedger \/ ToolDies
    BY ZenonT(30) DEF Next, vars, lines, ghosts, StartRun, PublishNote, Record, WorkerDies,
       MigrateNote, BackfillRead, BackfillWrite, DeleteNote, CleanRead, CleanScan, MigratePlan,
       MigrateHistory, Truncate, Rewrite, Report, MovePdf, ReplacePdf, EditLedger, Meddle
  <2> QED BY <2>1, <2>2, <2>3, <2>4
<1>2. cut => cut'
  BY ZenonT(30) DEF Next, vars, ghosts, StartRun, PublishNote, Record, WorkerDies, MigrateNote,
     BackfillRead, BackfillWrite, DeleteNote, CleanRead, CleanScan, MigratePlan, MigrateHistory,
     SaveLedger, Truncate, Rewrite, Report, ToolDies, MovePdf, ReplacePdf, EditLedger, Meddle
<1> QED BY <1>1, <1>2

(* A paper that is left alone stays secured, whatever a step does.         *)
LEMMA SecuredStep ==
  ASSUME Unlike, FileInv, OwnInv, CurrentInv, ControlInv, ToolShape, [Next]_vars,
         NEW p \in processed, p \in Papers, Present(p), Secured(p), Readable(note[p]),
         Hashes(p)' = Hashes(p)
  PROVE  Secured(p)'
<1> DEFINE H == Hashes(p)
<1>0. Copied \subseteq Copied' /\ (cut => cut') /\ H' = H
  BY BackupsGrow
<1>1. CASE cut /\ Copied \cap H # {}
  BY <1>0, <1>1 DEF Secured
<1>2. ASSUME tool.pc # "truncated" => ledger \cap H # {},
             tool.pc \in {"saved", "truncated"} => Copied \cap H # {},
             \/ tool.cmd = "clean"
             \/ tool.cmd = "migrate" /\ tool.pc \in {"notes", "saved", "truncated"}
             => tool.lines \cap H # {}
      PROVE  Secured(p)'
  <2>0. \A h \in H : Mine(p, h)
    BY ContentsListed, ListingHashes DEF Hashes, S, L
  <2>1. Readable(note[p]) /\ (tool.plan[p] # NoPlan => tool.plan[p].stable \in H)
    BY DEF CurrentInv, OwnInv, IsPlan, Hashes, S
  <2>2. Noted(p) = H
    BY DEF Noted, Hashes, S, L
  <2> HIDE DEF H
  <2>3. CASE Truncate
    <3>1. Goes("truncated", tool.lines, tool.todo) /\ tool.pc = "saved"
      BY <2>3, ToolGoes DEF Truncate
    <3> QED BY <1>0, <1>2, <3>1 DEF Goes, Secured, ControlInv, H
  <2>4. CASE Rewrite
    <3>1. tool.lines \cap H # {} /\ tool.lines \subseteq ledger'
      BY <1>2, <2>4 DEF Rewrite, ControlInv
    <3>2. tool' = Rest \/ (Goes("written", tool.lines, tool.todo) /\ tool.cmd # "clean")
      BY <2>4, ToolGoes
    <3>3. tool'.pc \notin {"saved", "truncated", "notes"} /\ tool'.cmd # "clean"
      BY <3>2 DEF Goes, Rest
    <3>4. ledger' \cap H # {}
      BY <3>1
    <3> QED BY <1>0, <3>3, <3>4 DEF Secured, H
  <2>5. CASE SaveLedger
    <3>1. /\ Goes("saved", tool.lines, tool.todo) /\ ledger \subseteq Copied'
          /\ ledger' = ledger
          /\ tool.pc # "truncated" /\ (tool.cmd = "migrate" => tool.pc = "notes")
      BY <2>5, ToolGoes DEF SaveLedger, ReadyToSave, LinesToSave, Copied
    <3> QED BY <1>0, <1>2, <3>1 DEF Goes, Secured, H
  <2>6. CASE MigrateHistory
    <3>1. /\ Goes("notes", Normalised(ledger, tool.plan), tool.todo) /\ ledger' = ledger
          /\ tool.cmd = "migrate" /\ ledger \cap H # {}
      BY <1>2, <2>6, ToolGoes DEF MigrateHistory, lines
    <3> DEFINE n == Normalised(ledger, tool.plan)
    <3>2. n \cap H # {}
      <4>1. /\ \A q \in Papers : tool.plan[q] # NoPlan => tool.plan[q].stable \in n
            /\ \A q \in Papers : tool.plan[q] = NoPlan => \A h \in ledger : Mine(q, h) => h \in n
        BY NormalisedLines DEF OwnInv
      <4> HIDE DEF n
      <4> QED BY <2>0, <2>1, <3>1, <4>1
    <3> HIDE DEF n
    <3>3. tool'.lines = n /\ tool'.cmd = "migrate" /\ tool'.pc = "notes"
      BY <3>1 DEF Goes, n
    <3> QED BY <1>0, <3>1, <3>2, <3>3 DEF Secured, H
  <2>7. CASE CleanRead
    <3>1. tool'.lines = ledger /\ tool'.pc = "read" /\ tool.pc = "rest" /\ ledger' = ledger
      BY <2>7, ToolGoes DEF CleanRead, StartCommand, Rest, lines
    <3> QED BY <1>0, <1>2, <3>1 DEF Secured, H
  <2>8. ASSUME CleanScan, tool' # Rest PROVE Secured(p)'
    <3> DEFINE noted == UNION {Noted(q) : q \in Verifiable}
    <3>1. H \subseteq noted
      BY <2>1, <2>2 DEF Verifiable
    <3>2. /\ tool'.lines = tool.lines \cap noted /\ tool'.pc = "scanned" /\ ledger' = ledger
          /\ tool.cmd = "clean" /\ tool.pc = "read"
      <4> HIDE DEF noted
      <4>1. Goes("scanned", tool.lines \cap noted, tool.todo)
        BY <2>8, ToolGoes DEF noted
      <4>2. ledger' = ledger /\ tool.cmd = "clean" /\ tool.pc = "read"
        BY <2>8 DEF CleanScan, lines
      <4>3. tool'.lines = tool.lines \cap noted /\ tool'.pc = "scanned"
        BY <4>1 DEF Goes
      <4> QED BY <4>2, <4>3
    <3> HIDE DEF noted
    <3>3. tool'.lines \cap H # {}
      BY <1>2, <3>1, <3>2
    <3> QED BY <1>0, <1>2, <3>2, <3>3 DEF Secured, H
  <2>9. CASE MigratePlan
    <3>1. tool'.cmd = "migrate" /\ tool'.pc = "planned" /\ tool.pc = "rest" /\ ledger' = ledger
      BY <2>9, ToolGoes DEF MigratePlan, StartCommand, Rest, lines
    <3> QED BY <1>0, <1>2, <3>1 DEF Secured, H
  <2>10. ASSUME NEW q \in Papers, BackfillRead(q) PROVE Secured(p)'
    <3>1. tool'.cmd = "backfill" /\ tool'.pc = "notes" /\ tool.pc = "rest" /\ ledger' = ledger
      BY <2>10, ToolGoes DEF BackfillRead, StartCommand, Rest, lines
    <3> QED BY <1>0, <1>2, <3>1 DEF Secured, H
  <2>11. ASSUME tool' = Rest, ledger \subseteq ledger', tool.pc # "truncated" PROVE Secured(p)'
    BY <1>0, <1>2, <2>11 DEF Secured, Rest, H
  <2>12. ASSUME ToolDies, tool.pc = "truncated" PROVE Secured(p)'
    BY <1>0, <1>2, <2>12 DEF ToolDies, Secured, H
  <2>13. ASSUME NEW q \in Papers, MigrateNote(q), tool' # Rest PROVE Secured(p)'
    <3>1. Goes(tool.pc, tool.lines, tool.todo \ {q}) /\ ledger' = ledger
      BY <2>13, ToolGoes DEF MigrateNote, lines
    <3> QED BY <1>0, <1>2, <3>1 DEF Secured, Goes, H
  <2>14. ASSUME UNCHANGED tool, ledger \subseteq ledger' PROVE Secured(p)'
    BY <1>0, <1>2, <2>14 DEF Secured, H
  <2>15. ASSUME \/ Report \/ CleanScan \/ \E q \in Papers : MigrateNote(q) \/ BackfillWrite(q)
         PROVE  tool.pc # "truncated"
    BY <2>15 DEF Report, CleanScan, MigrateNote, BackfillWrite, ControlInv
  <2>16. ASSUME Report \/ ToolDies \/ \E q \in Papers : BackfillWrite(q) PROVE tool' = Rest
    BY <2>16, ToolGoes
  <2>17. CASE Truncate \/ Rewrite
    BY <2>3, <2>4, <2>17
  <2>18. CASE ~(Truncate \/ Rewrite)
    <3>1. ledger \subseteq ledger'
      BY <2>18, LedgerGrows
    <3> QED BY <2>5, <2>6, <2>7, <2>8, <2>9, <2>10, <2>11, <2>12, <2>13, <2>14, <2>15, <2>16,
               <2>18, <3>1, ToolSteps
  <2> QED BY <2>17, <2>18
<1> QED BY <1>1, <1>2 DEF Secured

(* Every step keeps QuietInv.                                              *)
LEMMA QuietKept ==
  ASSUME Unlike, FileInv, WorkerInv, OwnInv, CurrentInv, ControlInv, QuietInv, ToolShape,
         [Next]_vars
  PROVE  QuietInv'
<1> SUFFICES ASSUME NEW p \in processed', ~Told(p)', ~TornNote(p)'
             PROVE  Present(p)' /\ Secured(p)'
  BY DEF QuietInv
<1>1. p \in Papers
  BY FileKept DEF FileInv
<1>2. /\ p \in processed /\ ~Told(p) /\ ~TornNote(p)
      /\ Hashes(p)' = Hashes(p) /\ (Present(p)' <=> Present(p))
  BY <1>1, QuietStep
<1>3. Present(p) /\ Secured(p) /\ Readable(note[p])
  BY <1>2 DEF QuietInv, CurrentInv, TornNote
<1> QED BY <1>1, <1>2, <1>3, SecuredStep

(* Only an append changes the ledger, or what is recorded, beside a tool   *)
(* that rests.                                                             *)
LEMMA LinesOfStep ==
  ASSUME ToolShape, [Next]_vars, UNCHANGED tool
  PROVE  UNCHANGED <<ledger, recorded>> \/ \E p \in Papers : Record(p)
<1>1. ~Truncate
  <2> SUFFICES ASSUME Truncate PROVE FALSE
    OBVIOUS
  <2>1. tool.pc = "saved" /\ Goes("truncated", tool.lines, tool.todo)
    BY ToolGoes DEF Truncate
  <2> QED BY <2>1 DEF Goes
<1>2. ~Rewrite
  <2> SUFFICES ASSUME Rewrite PROVE FALSE
    OBVIOUS
  <2>1. tool.pc = "truncated"
    BY DEF Rewrite
  <2>2. tool' = Rest \/ Goes("written", tool.lines, tool.todo)
    BY ToolGoes
  <2> QED BY <2>1, <2>2 DEF Goes, Rest
<1> QED
  BY <1>1, <1>2, ZenonT(30) DEF Next, vars, lines, ghosts, StartRun, PublishNote, WorkerDies,
     MigrateNote,
     BackfillRead, BackfillWrite, DeleteNote, CleanRead, CleanScan, MigratePlan, MigrateHistory,
     SaveLedger, Report, ToolDies, MovePdf, ReplacePdf, EditLedger, Meddle

(* A truncated ledger holds what was recorded since, and no more.          *)
LEMMA TruncatedKept ==
  ASSUME SettleInv, ToolShape, [Next]_vars
  PROVE  tool'.pc = "truncated" => ledger' \subseteq recorded'
<1> SUFFICES ASSUME tool'.pc = "truncated" PROVE ledger' \subseteq recorded'
  OBVIOUS
<1>1. CASE Truncate
  BY <1>1 DEF Truncate
<1>2. CASE UNCHANGED tool
  <2>1. ledger \subseteq recorded
    BY <1>2 DEF SettleInv
  <2>2. ASSUME NEW p \in Papers, Record(p) PROVE ledger' \subseteq recorded'
    BY <2>1, <2>2 DEF Record, Appended
  <2>3. UNCHANGED <<ledger, recorded>> \/ \E p \in Papers : Record(p)
    BY <1>2, LinesOfStep
  <2> QED BY <2>1, <2>2, <2>3
<1>3. ASSUME \/ MigratePlan \/ CleanRead \/ MigrateHistory \/ SaveLedger \/ CleanScan
             \/ Rewrite \/ Report \/ ToolDies
             \/ \E p \in Papers : MigrateNote(p) \/ BackfillWrite(p)
      PROVE  FALSE
  BY <1>3, ToolGoes DEF Goes, Rest, MigrateNote
<1>4. ASSUME NEW p \in Papers, BackfillRead(p) PROVE FALSE
  <2> DEFINE plan == [NoPlans EXCEPT ![p] = [was |-> note[p], stable |-> Stable(Contents(p)),
                                             listed |-> Contents(p)]]
  <2>1. tool' = [cmd |-> "backfill", pc |-> "notes", lines |-> {}, todo |-> {p}, plan |-> plan]
    BY <1>4, ToolGoes
  <2> HIDE DEF plan
  <2> QED BY <2>1
<1> QED BY <1>1, <1>2, <1>3, <1>4, ToolSteps

(* What a step leaves of a migration that goes on, or makes of a new one.  *)
LEMMA MigrationStep ==
  ASSUME ToolShape, [Next]_vars, tool'.cmd = "migrate"
  PROVE  \/ MigratePlan
         \/ /\ tool.cmd = "migrate" /\ tool'.plan = tool.plan
            /\ \/ UNCHANGED tool
               \/ MigrateHistory /\ Goes("notes", Normalised(ledger, tool.plan), tool.todo)
               \/ SaveLedger /\ Goes("saved", tool.lines, tool.todo)
               \/ Truncate /\ Goes("truncated", tool.lines, tool.todo)
               \/ Rewrite /\ Goes("written", tool.lines, tool.todo)
               \/ \E p \in Papers : MigrateNote(p) /\ Goes(tool.pc, tool.lines, tool.todo \ {p})
<1>1. ASSUME CleanRead \/ tool' = Rest PROVE FALSE
  BY <1>1, ToolGoes DEF Rest
<1>2. ASSUME NEW p \in Papers, BackfillRead(p) PROVE FALSE
  <2> DEFINE plan == [NoPlans EXCEPT ![p] = [was |-> note[p], stable |-> Stable(Contents(p)),
                                             listed |-> Contents(p)]]
  <2>1. tool' = [cmd |-> "backfill", pc |-> "notes", lines |-> {}, todo |-> {p}, plan |-> plan]
    BY <1>2, ToolGoes
  <2> HIDE DEF plan
  <2> QED BY <2>1
<1>3. ASSUME CleanScan, tool' # Rest PROVE FALSE
  <2> DEFINE noted == tool.lines \cap UNION {Noted(p) : p \in Verifiable}
  <2>1. Goes("scanned", noted, tool.todo) /\ tool.cmd = "clean"
    BY <1>3, ToolGoes DEF CleanScan
  <2> HIDE DEF noted
  <2> QED BY <2>1 DEF Goes
<1>4. ASSUME Report \/ ToolDies \/ \E p \in Papers : BackfillWrite(p) PROVE FALSE
  BY <1>1, <1>4, ToolGoes
<1>5. ASSUME NEW pc, NEW lns, NEW todo, Goes(pc, lns, todo)
      PROVE  tool.cmd = "migrate" /\ tool'.plan = tool.plan
  BY <1>5 DEF Goes
<1>6. CASE MigrateHistory \/ SaveLedger \/ Truncate
  BY <1>5, <1>6, ToolGoes
<1>7. CASE Rewrite
  BY <1>1, <1>5, <1>7, ToolGoes
<1>8. ASSUME NEW p \in Papers, MigrateNote(p)
      PROVE  Goes(tool.pc, tool.lines, tool.todo \ {p}) /\ tool.cmd = "migrate"
               /\ tool'.plan = tool.plan
  BY <1>1, <1>5, <1>8, ToolGoes
<1>9. CASE UNCHANGED tool
  BY <1>9
<1> QED BY <1>1, <1>2, <1>3, <1>4, <1>6, <1>7, <1>8, <1>9, ToolSteps

(* The ledger is saved when all notes are written.                         *)
LEMMA TodoKept ==
  ASSUME SettleInv, OwnInv, ToolShape, [Next]_vars, tool'.cmd = "migrate",
         tool'.pc \in {"saved", "truncated", "written"}
  PROVE  tool'.todo = {}
<1>1. CASE MigratePlan
  BY <1>1, ToolGoes
<1>2. CASE tool.cmd = "migrate" /\ UNCHANGED tool
  BY <1>2 DEF SettleInv
<1>3. ASSUME NEW p \in Papers, MigrateNote(p), Goes(tool.pc, tool.lines, tool.todo \ {p})
      PROVE  FALSE
  BY <1>3 DEF MigrateNote, Goes
<1>4. CASE MigrateHistory /\ Goes("notes", Normalised(ledger, tool.plan), tool.todo)
  BY <1>4 DEF Goes
<1>5. CASE SaveLedger /\ Goes("saved", tool.lines, tool.todo) /\ tool.cmd = "migrate"
  BY <1>5 DEF Goes, SaveLedger, ReadyToSave
<1>6. CASE \/ Truncate /\ Goes("truncated", tool.lines, tool.todo) /\ tool.cmd = "migrate"
           \/ Rewrite /\ Goes("written", tool.lines, tool.todo) /\ tool.cmd = "migrate"
  BY <1>6 DEF Goes, Truncate, Rewrite, SettleInv
<1> QED BY <1>1, <1>2, <1>3, <1>4, <1>5, <1>6, MigrationStep

(* A note that is done has the stable hash.                                *)
LEMMA DoneKept ==
  ASSUME FileInv, WorkerInv, OwnInv, CurrentInv, SettleInv, ToolShape, [Next]_vars,
         tool'.cmd = "migrate", NEW p \in processed', tool'.plan[p] # NoPlan, p \notin tool'.todo
  PROVE  TornNote(p)' \/ note'[p].hash = S(p)'
<1>0. p \in Papers
  BY FileKept DEF FileInv
<1>1. S(p)' = S(p) /\ CurrentInv'
  BY <1>0, FilesLeftAlone, SameHashes, CurrentKept
<1>2. CASE MigratePlan
  <2>1. tool'.plan[p] = Planned(p) /\ ~Changed(Planned(p)) /\ UNCHANGED note
    <3> DEFINE planned == [q \in Papers |-> Planned(q)]
    <3>1. /\ tool' = [cmd |-> "migrate", pc |-> "planned", lines |-> {}, plan |-> planned,
                      todo |-> {q \in Papers : Changed(planned[q])}]
          /\ UNCHANGED note
      BY <1>2, ToolGoes DEF MigratePlan, files
    <3>2. planned[p] = Planned(p)
      BY <1>0
    <3> HIDE DEF planned
    <3> QED BY <1>0, <3>1, <3>2
  <2>2. Planned(p).was = note[p] /\ Planned(p).stable = S(p) /\ Planned(p) # NoPlan
    BY <1>0, <2>1, PlannedShape
  <2> QED BY <1>1, <2>1, <2>2 DEF Changed
<1>3. CASE tool.cmd = "migrate" /\ tool'.plan = tool.plan
  <2>1. tool.plan[p] # NoPlan /\ IsPlan(p, tool.plan[p])
    BY <1>0, <1>3 DEF OwnInv
  <2>2. tool.plan[p].stable = S(p)
    <3>1. tool.plan[p].listed = Contents(p)
      <4>1. CASE p \in processed
        BY <2>1, <4>1 DEF CurrentInv
      <4>2. CASE p \notin processed
        <5>1. ~Outdated(p) /\ tool.plan[p].listed # NoHash
          BY <1>0, <2>1, <4>2, ProcessedStep, ListingHashes DEF IsPlan, Mine
        <5> QED BY <5>1 DEF Outdated
      <4> QED BY <4>1, <4>2
    <3> QED BY <2>1, <3>1 DEF IsPlan, S
  <2>3. CASE MigrateNote(p)
    <3>1. tool' # Rest
      BY DEF Rest
    <3>2. note' = [note EXCEPT ![p] = Upserted(tool.plan[p])] /\ p \in tool.todo
      BY <2>3, <3>1 DEF MigrateNote
    <3>3. note'[p] \in Writes(tool.plan[p])
      BY <1>0, <3>2 DEF FileInv, Upserted, Writes, Rehashed
    <3> QED BY <1>1, <2>2, <3>2, <3>3, WritesAreNotes
  <2>4. CASE ~MigrateNote(p)
    <3>1. CASE PublishNote(p) /\ note'[p] = Written(p, worker[p].contents)
      <4>1. worker[p].contents = Contents(p) /\ worker[p].pc # "idle"
        BY <3>1, ProcessedStep DEF CurrentInv, PublishNote
      <4> QED BY <1>0, <1>1, <3>1, <4>1, WrittenIsNote DEF WorkerInv, S
    <3>2. CASE note'[p] = note[p] /\ ~PublishNote(p)
      <4>1. p \in processed
        BY <3>2, ProcessedStep
      <4>2. p \notin tool.todo
        <5>1. ASSUME NEW q \in Papers, MigrateNote(q), Goes(tool.pc, tool.lines, tool.todo \ {q})
              PROVE  p \notin tool.todo
          BY <2>4, <5>1 DEF Goes
        <5>2. ASSUME NEW pc, NEW lns, Goes(pc, lns, tool.todo) PROVE p \notin tool.todo
          BY <5>2 DEF Goes
        <5>3. CASE UNCHANGED tool
          BY <5>3
        <5>4. ASSUME MigratePlan PROVE FALSE
          BY <1>3, <5>4 DEF MigratePlan, StartCommand, Rest
        <5> QED BY <5>1, <5>2, <5>3, <5>4, MigrationStep
      <4> QED
        BY <1>1, <1>3, <2>1, <3>2, <4>1, <4>2
        DEF SettleInv, TornNote, Readable, HasFrontmatter
    <3>3. CASE note'[p].hash = tool.plan[p].stable
      BY <1>1, <2>2, <3>3
    <3> QED BY <1>0, <3>1, <3>2, <3>3, NoteStep
  <2> QED BY <2>3, <2>4
<1> QED BY <1>2, <1>3, MigrationStep

(* What was settled for a group stays so.                                  *)
LEMMA SettledKept ==
  ASSUME Unlike, OwnInv, SettleInv, ControlInv, ToolShape, [Next]_vars,
         tool'.cmd = "migrate", NEW p \in Papers, tool'.plan[p] # NoPlan
  PROVE  Settled(p)'
<1> DEFINE plan == tool.plan[p]
<1>1. CASE MigratePlan
  BY <1>1, ToolGoes DEF Settled
<1>2. ASSUME tool.cmd = "migrate", tool'.plan = tool.plan PROVE Settled(p)'
  <2>1. Settled(p) /\ plan # NoPlan /\ plan = tool'.plan[p]
    BY <1>2 DEF SettleInv
  <2>2. CASE MigrateHistory /\ Goes("notes", Normalised(ledger, tool.plan), tool.todo)
    <3> DEFINE n == Normalised(ledger, tool.plan)
    <3>1. plan.stable \in n /\ {plan.was.hash, plan.listed} \cap n \subseteq {plan.stable}
      BY <2>1, NormalisedLines DEF OwnInv
    <3>2. tool'.lines = n /\ tool'.pc = "notes"
      BY <2>2 DEF Goes
    <3> HIDE DEF n
    <3> QED BY <2>1, <3>1, <3>2 DEF Settled
  <2>3. CASE SaveLedger /\ Goes("saved", tool.lines, tool.todo)
    <3>1. tool.pc = "notes"
      BY <1>2, <2>3 DEF SaveLedger, ReadyToSave
    <3> QED BY <2>1, <2>3, <3>1 DEF Goes, Settled
  <2>4. CASE Truncate /\ Goes("truncated", tool.lines, tool.todo)
    BY <2>1, <2>4 DEF Goes, Settled, Truncate
  <2>5. CASE Rewrite /\ Goes("written", tool.lines, tool.todo)
    <3>1. PICK rest \in SUBSET ledger : ledger' = tool.lines \cup rest
      BY <2>5 DEF Rewrite, LeftOver
    <3>2. ledger \subseteq recorded /\ recorded' = recorded /\ tool.pc = "truncated"
      BY <2>5 DEF Rewrite, SettleInv, ghosts
    <3>3. tool'.pc = "written"
      BY <2>5 DEF Goes
    <3> HIDE DEF plan
    <3>4. plan.stable \in tool.lines
            /\ {plan.was.hash, plan.listed} \cap tool.lines \subseteq {plan.stable}
      BY <2>1, <3>2 DEF Settled, plan
    <3>5. plan.stable \in ledger'
            /\ {plan.was.hash, plan.listed} \cap ledger' \subseteq {plan.stable} \cup recorded'
      BY <3>1, <3>2, <3>4
    <3> QED BY <2>1, <3>3, <3>5 DEF Settled, plan
  <2>6. ASSUME NEW q \in Papers, MigrateNote(q), Goes(tool.pc, tool.lines, tool.todo \ {q})
        PROVE  Settled(p)'
    BY <2>1, <2>6 DEF MigrateNote, Goes, Settled
  <2>7. CASE UNCHANGED tool
    <3>1. UNCHANGED <<ledger, recorded>> \/ \E q \in Papers : Record(q)
      BY <2>7, LinesOfStep
    <3>2. ASSUME NEW q \in Papers, Record(q)
          PROVE  \E h : ledger' = ledger \cup h /\ recorded' = recorded \cup h
      <4>1. CASE worker[q].known
        <5>1. ledger' = ledger \cup {} /\ recorded' = recorded \cup {}
          BY <3>2, <4>1 DEF Record
        <5> QED BY <5>1
      <4>2. CASE ~worker[q].known
        BY <3>2, <4>2 DEF Record, Appended
      <4> QED BY <4>1, <4>2
    <3>3. PICK h : ledger' = ledger \cup h /\ recorded' = recorded \cup h
      <4>1. CASE UNCHANGED <<ledger, recorded>>
        <5>1. ledger' = ledger \cup {} /\ recorded' = recorded \cup {}
          BY <4>1
        <5> QED BY <5>1
      <4> QED BY <3>1, <3>2, <4>1
    <3> QED BY <2>1, <2>7, <3>3 DEF Settled
  <2>8. CASE MigratePlan
    BY <1>1, <2>8
  <2> QED BY <1>2, <2>2, <2>3, <2>4, <2>5, <2>6, <2>7, <2>8, MigrationStep
<1> QED BY <1>1, <1>2, MigrationStep

(* Every step keeps SettleInv.                                             *)
LEMMA SettleKept ==
  ASSUME Unlike, FileInv, WorkerInv, OwnInv, CurrentInv, ControlInv, SettleInv, ToolShape,
         [Next]_vars
  PROVE  SettleInv'
BY TruncatedKept, TodoKept, DoneKept, SettledKept DEF SettleInv

-----------------------------------------------------------------------------
(* All of it together.                                                     *)

(* The papers that only the ledger speaks for are secured, and a migration *)
(* settles, because notes, lines and plans are of the paper they are for.  *)
CoverInv ==
  FileInv /\ WorkerInv /\ OwnInv /\ CurrentInv /\ ControlInv /\ QuietInv /\ SettleInv

(* A note that a paper starts with is of the paper.                        *)
LEMMA OldNotesAreNotes ==
  ASSUME NEW p \in Papers, Listing(p, Contents(p)), NEW n \in OldNotes(p), n # NoNote
  PROVE  IsNote(p, n) /\ HasFrontmatter(n) /\ Readable(n) /\ n.legacy = NoHash
<1> DEFINE k == p \in InZotero
<1>1. PICK h \in {NoHash, Contents(p), Stable(Contents(p))} :
        n = [hash |-> h, legacy |-> NoHash, key |-> k, decodes |-> TRUE]
  BY DEF OldNotes
<1>2. k \in BOOLEAN
  OBVIOUS
<1> HIDE DEF k
<1>3. h = NoHash \/ Mine(p, h)
  BY <1>1, ListingHashes
<1>4. NoHash \in Seq(Nat)
  BY DEF NoHash
<1>5. h \in Seq(Nat)
  BY <1>3, <1>4 DEF Mine
<1>6. n \in Notes /\ n.hash = h /\ n.legacy = NoHash /\ n.decodes
  BY <1>1, <1>2, <1>4, <1>5 DEF Notes
<1> QED BY <1>3, <1>6, LedgerRecordAssumption DEF IsNote, HasFrontmatter, Readable

(* All of it holds in the beginning.                                       *)
LEMMA InitCovers ==
  ASSUME Unlike, Init
  PROVE  CoverInv
<1>1. FileInv
  <2>1. DOMAIN digest = Paths /\ DOMAIN note = Papers /\ processed \subseteq Papers
    BY LedgerAssumption DEF Init
  <2>2. ASSUME NEW path \in Paths PROVE \E k \in Nat : digest[path] = FirstDigest[path] + 100 * k
    <3>1. digest[path] = FirstDigest[path] + 100 * 0
      BY LedgerAssumption DEF Init
    <3> QED BY <3>1
  <2> QED BY <2>1, <2>2 DEF FileInv
<1>2. WorkerInv
  BY DEF Init, WorkerInv, Idle
<1>3. \A p \in Papers : Listing(p, Contents(p))
  BY <1>1, ContentsListed
<1>4. ASSUME NEW p \in Papers, note[p] # NoNote
      PROVE  /\ IsNote(p, note[p]) /\ HasFrontmatter(note[p]) /\ Readable(note[p])
             /\ note[p].legacy = NoHash
  <2>1. note[p] \in OldNotes(p)
    BY DEF Init
  <2> QED BY <1>3, <1>4, <2>1, OldNotesAreNotes
<1>5. NoHash \notin ledger
  <2> SUFFICES ASSUME NEW h \in ledger PROVE h # NoHash
    OBVIOUS
  <2>1. PICK p \in Papers : h \in {Contents(p), Legacy(p, Contents(p))}
    BY DEF Init
  <2> QED BY <1>3, <2>1, ListingHashes DEF Mine
<1>6. tool = Rest
  BY DEF Init
<1>7. OwnInv
  BY <1>4, <1>5, <1>6 DEF OwnInv, Rest, HasFrontmatter
<1>8. ASSUME NEW p \in processed
      PROVE  p \in Papers /\ note[p] # NoNote /\ Covered(p) /\ Readable(note[p])
  BY <1>4, <1>8 DEF Init
<1>9. CurrentInv
  <2>1. ASSUME NEW p \in Papers PROVE worker[p].pc = "idle" /\ tool.plan[p] = NoPlan
    BY <1>6, <2>1 DEF Init, Idle, Rest
  <2> QED BY <1>8, <2>1 DEF CurrentInv
<1>10. ControlInv /\ SettleInv
  BY <1>6 DEF ControlInv, SettleInv, Rest
<1>11. QuietInv
  <2> SUFFICES ASSUME NEW p \in processed, ~Told(p) PROVE Present(p) /\ Secured(p)
    BY DEF QuietInv
  <2>1. p \in Papers /\ Covered(p)
    BY <1>8
  <2>2. Present(p)
    BY DEF Init, Present
  <2>3. \A h \in Hashes(p) : Mine(p, h)
    BY <1>3, <2>1, ListingHashes DEF Hashes, S, L
  <2>4. ASSUME NEW q \in Papers, HashesOf(note[q]) \cap Hashes(p) # {} PROVE FALSE
    <3>1. Readable(note[q]) /\ note[q].hash \in Hashes(p) /\ note[q].hash # NoHash
      BY <1>4, <2>4 DEF HashesOf, HasFrontmatter, Readable
    <3>2. Mine(q, note[q].hash)
      BY <1>4, <3>1 DEF IsNote, HasFrontmatter, Readable
    <3>3. q = p
      BY <2>1, <2>3, <3>1, <3>2, HashesApart
    <3> QED BY <3>1, <3>3 DEF Told
  <2>5. ledger \cap Hashes(p) # {}
    BY <1>8, <2>1, <2>4 DEF Covered, Hits, Hashes, S, L, Told, KeyOf
  <2> QED BY <1>6, <2>2, <2>5 DEF Secured, Rest
<1> QED BY <1>1, <1>2, <1>7, <1>9, <1>10, <1>11 DEF CoverInv

(* All of it is kept by every step.                                        *)
LEMMA StepCovers ==
  ASSUME Unlike, CoverInv, ToolShape, [Next]_vars
  PROVE  CoverInv'
BY FileKept, WorkerKept, OwnKept, CurrentKept, ControlKept, QuietKept, SettleKept DEF CoverInv

(* A note tells of its paper by a hash, or by the parent item of its PDFs. *)
LEMMA CoverStays ==
  ASSUME CoverInv
  PROVE  StaysCovered
<1> SUFFICES ASSUME NEW p \in processed
             PROVE  \/ Covered(p) \/ TornNote(p)
                    \/ /\ cut \/ tool.pc = "truncated"
                       /\ (backups \cup named \cup overwritten)
                            \cap {Stable(Contents(p)), Legacy(p, Contents(p))} # {}
  BY DEF StaysCovered
<1>1. p \in Papers /\ (TornNote(p) \/ Readable(note[p]))
        /\ Hashes(p) = {Stable(Contents(p)), Legacy(p, Contents(p))}
  BY DEF CoverInv, FileInv, CurrentInv, TornNote, Hashes, S, L
<1>2. CASE Readable(note[p]) /\ note[p].hash \in Hashes(p)
  <2>1. \A h \in Hashes(p) : Mine(p, h)
    BY <1>1, ContentsListed, ListingHashes DEF CoverInv, Hashes, S, L
  <2>2. note[p].hash \in HashesOf(note[p])
    BY <1>1, <1>2, <2>1 DEF HashesOf, Mine
  <2> QED BY <1>1, <1>2, <2>2 DEF Covered, Hits
<1>3. CASE Readable(note[p]) /\ p \in InZotero /\ note[p].key
  BY <1>1, <1>3 DEF Covered, Hits, KeyOf
<1>4. CASE ~Told(p) /\ ~TornNote(p)
  <2>1. Secured(p)
    BY <1>4 DEF CoverInv, QuietInv
  <2>2. CASE ledger \cap Hashes(p) # {}
    BY <1>1, <2>2 DEF Covered, Hits
  <2> QED BY <1>1, <2>1, <2>2 DEF Secured, Copied
<1> QED BY <1>2, <1>3, <1>4 DEF Told

(* At the end of a migration, all of its notes are done.                   *)
LEMMA CoverSettles ==
  ASSUME CoverInv
  PROVE  MigrationSettles
<1> SUFFICES ASSUME tool.cmd = "migrate", tool.pc = "written", NEW p \in processed,
                    tool.plan[p] # NoPlan, tool.plan[p].stable = Stable(Contents(p))
             PROVE  /\ TornNote(p) \/ note[p].hash = tool.plan[p].stable
                    /\ tool.plan[p].stable \in ledger
                    /\ {tool.plan[p].was.hash, tool.plan[p].listed} \cap ledger
                         \subseteq {tool.plan[p].stable} \cup recorded
  BY DEF MigrationSettles
<1>1. p \in Papers /\ tool.todo = {} /\ Settled(p)
  BY DEF CoverInv, FileInv, SettleInv
<1>2. TornNote(p) \/ note[p].hash = S(p)
  BY <1>1 DEF CoverInv, SettleInv
<1> QED BY <1>1, <1>2 DEF Settled, S

(* A paper that was covered once, and whose note and PDFs were left alone, *)
(* is found by an index that is built now (dedup_index.py, lookup),        *)
(* whatever workers and commands do to notes and ledger meanwhile, but     *)
(* where a death has cut its note short, or where one has left the ledger  *)
(* truncated, when its line is one that was copied to a backup.            *)
THEOREM ProcessedStays ==
  ASSUME Unlike
  PROVE  Spec => []StaysCovered
<1>1. Init => CoverInv /\ IInv
  BY InitCovers, InitKeepsLines
<1>2. CoverInv /\ IInv /\ [Next]_vars => CoverInv' /\ IInv'
  BY StepCovers, StepKeepsLines DEF IInv
<1>3. CoverInv => StaysCovered
  BY CoverStays
<1> QED BY <1>1, <1>2, <1>3, PTL DEF Spec

(* A migration that comes to its end (migrate_combined_hash_to_stable.py)  *)
(* leaves each group it planned, and the user left alone, with its stable  *)
(* hash in the note, if no worker has died over it, and in the ledger, and *)
(* without the hashes of before unless a worker has recorded them.         *)
THEOREM MigrationsSettle ==
  ASSUME Unlike
  PROVE  Spec => []MigrationSettles
<1>1. Init => CoverInv /\ IInv
  BY InitCovers, InitKeepsLines
<1>2. CoverInv /\ IInv /\ [Next]_vars => CoverInv' /\ IInv'
  BY StepCovers, StepKeepsLines DEF IInv
<1>3. CoverInv => MigrationSettles
  BY CoverSettles
<1> QED BY <1>1, <1>2, <1>3, PTL DEF Spec

================================================================================
