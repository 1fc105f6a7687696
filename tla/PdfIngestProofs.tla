-------------------------- MODULE PdfIngestProofs ---------------------------
(***************************************************************************)
(* A build of PdfIngest, for any corpora, any pages, any sizes of a chunk  *)
(* and any splitter, whatever is replaced on the disk while it runs.       *)
(*                                                                         *)
(* The text (PdfText) is cut by recursive functions, so what they compute  *)
(* is proved first: a recursion has a solution (RecursionExists), hence    *)
(* CHOOSE picks one, and what holds of its base and of each step holds of  *)
(* it (NatSetInduction, induction with the statement as a set). It follows *)
(* where each page starts, what stands where in the joined text, that the  *)
(* spans of an interval are its overlaps with the pages, that the windows  *)
(* leave nothing of the text out, and that a chunk, split again, still     *)
(* holds its interval.                                                     *)
(*                                                                         *)
(* The build keeps IngestInv: the record of a source and the document      *)
(* taken from it are those that its note declares (PlanMade), as long as   *)
(* every source succeeded the two lists are paired (Unsplit), and once the *)
(* chunks are split each one stands in its document and together they hold *)
(* its text (Split). What is published is then true, whole and mapped.     *)
(***************************************************************************)
EXTENDS PdfIngest, FiniteSetTheorems, FunctionTheorems, WellFoundedInduction, TLAPS

(***************************************************************************)
(* The operators of PdfText: orders, recursions, pages, slices, spans,     *)
(* windows, cuts and merged ranges                                         *)
(***************************************************************************)

(* A set of numbers that holds 0 and with every number the next one holds  *)
(* them all: induction, with the statement as a set.                       *)
LEMMA NatSetInduction ==
  ASSUME NEW T, 0 \in T, \A n \in Nat : n \in T => n + 1 \in T
  PROVE  \A n \in Nat : n \in T
<1> SUFFICES ASSUME Nat \ T # {} PROVE FALSE
  OBVIOUS
<1> DEFINE Less == {ss \in Nat \X Nat : ss[1] < ss[2]}
<1>1. IsWellFoundedOn(Less, Nat)
  BY NatLessThanWellFounded DEF OpToRel
<1> HIDE DEF Less
<1>2. PICK x \in Nat \ T : \A y \in Nat \ T : ~ (<<y, x>> \in Less)
  BY <1>1, WFMin
<1>3. x # 0 /\ x - 1 \in Nat
  OBVIOUS
<1>4. <<x - 1, x>> \in Less
  BY <1>3 DEF Less
<1> QED
  BY <1>2, <1>3, <1>4

(* A set of numbers that is not empty has a least one, and if it is bounded*)
(* a greatest one.                                                         *)
LEMMA LeastOne ==
  ASSUME NEW S \in SUBSET Nat, S # {}
  PROVE  \E x \in S : \A y \in S : x <= y
<1> DEFINE Less == {ss \in Nat \X Nat : ss[1] < ss[2]}
<1>1. IsWellFoundedOn(Less, Nat)
  BY NatLessThanWellFounded DEF OpToRel
<1> HIDE DEF Less
<1>2. PICK x \in S : \A y \in S : ~ (<<y, x>> \in Less)
  BY <1>1, WFMin
<1>3. \A y \in S : ~ (y < x)
  BY <1>2 DEF Less
<1> QED
  BY <1>3

(* A set of integers that is bounded has a greatest member.                 *)
LEMMA GreatestOne ==
  ASSUME NEW S \in SUBSET Int, S # {}, NEW n \in Int, \A y \in S : y <= n
  PROVE  \E x \in S : \A y \in S : x >= y
<1> DEFINE T == {n - y : y \in S}
<1>1. T \in SUBSET Nat /\ T # {}
  OBVIOUS
<1>2. PICK t \in T : \A u \in T : t <= u
  <2> HIDE DEF T
  <2> QED BY <1>1, LeastOne
<1>3. PICK x \in S : t = n - x
  OBVIOUS
<1>4. ASSUME NEW y \in S PROVE x >= y
  <2>1. n - y \in T
    OBVIOUS
  <2>2. t <= n - y
    BY <1>2, <2>1
  <2> HIDE DEF T
  <2> QED BY <1>3, <2>2
<1> QED BY <1>4

(* What Max and Min of a set of numbers are.                               *)
LEMMA MaxIs ==
  ASSUME NEW S \in SUBSET Int, S # {}, NEW n \in Int, \A y \in S : y <= n
  PROVE  Max(S) \in S /\ \A y \in S : y <= Max(S)
<1>1. \E x \in S : \A y \in S : x >= y
  BY GreatestOne
<1>2. Max(S) \in S /\ \A y \in S : Max(S) >= y
  BY <1>1 DEF Max
<1> QED BY <1>2

(* The least of a set of naturals is in the set and below the others.       *)
LEMMA MinIs ==
  ASSUME NEW S \in SUBSET Nat, S # {}
  PROVE  Min(S) \in S /\ \A y \in S : Min(S) <= y
<1>1. \E x \in S : \A y \in S : x <= y
  BY LeastOne
<1>2. Min(S) \in S /\ \A y \in S : Min(S) <= y
  BY <1>1 DEF Min
<1> QED BY <1>2

(* The lesser and the greater of two integers.                              *)
LEMMA MinMaxOfTwo ==
  ASSUME NEW a \in Int, NEW b \in Int
  PROVE  /\ Min({a, b}) = IF a <= b THEN a ELSE b
         /\ Max({a, b}) = IF a >= b THEN a ELSE b
<1>1. \E x \in {a, b} : \A y \in {a, b} : x <= y
  OBVIOUS
<1>2. Min({a, b}) \in {a, b} /\ \A y \in {a, b} : Min({a, b}) <= y
  BY <1>1 DEF Min
<1>3. \E x \in {a, b} : \A y \in {a, b} : x >= y
  OBVIOUS
<1>4. Max({a, b}) \in {a, b} /\ \A y \in {a, b} : Max({a, b}) >= y
  BY <1>3 DEF Max
<1> QED BY <1>2, <1>4

(* The elements of a finite set in a strict order: every place below its   *)
(* size belongs to exactly one of them. The order is given by the elements *)
(* below each.                                                             *)
IsStrictOrder(S, below) ==
  /\ below \in [S -> SUBSET S]
  /\ \A s \in S : ~(s \in below[s])
  /\ \A r, s \in S : r \in below[s] => below[r] \subseteq below[s]
  /\ \A r, s \in S : r # s => r \in below[s] \/ s \in below[r]

(* The ranks of a finite set under a strict order are 0, 1, ..., one less   *)
(* than its size.                                                           *)
LEMMA RanksFill ==
  ASSUME NEW S, IsFiniteSet(S), NEW below, IsStrictOrder(S, below)
  PROVE  /\ \A s \in S : Cardinality(below[s]) \in 0..(Cardinality(S) - 1)
         /\ \A r, s \in S : r \in below[s] => Cardinality(below[r]) < Cardinality(below[s])
         /\ \A k \in 1..Cardinality(S) : \E s \in S : Cardinality(below[s]) = k - 1
<1> DEFINE N == Cardinality(S)
           rank == [s \in S |-> Cardinality(below[s])]
<1>1. N \in Nat
  BY FS_CardinalityType
<1>2. ASSUME NEW s \in S
      PROVE  IsFiniteSet(below[s]) /\ Cardinality(below[s]) \in 0..(N - 1)
  <2>1. below[s] \in SUBSET S /\ below[s] # S
    BY DEF IsStrictOrder
  <2>2. IsFiniteSet(below[s]) /\ Cardinality(below[s]) <= N /\ Cardinality(below[s]) # N
    BY <2>1, FS_Subset
  <2>3. Cardinality(below[s]) \in Nat
    BY <2>2, FS_CardinalityType
  <2> HIDE DEF N
  <2> QED BY <1>1, <2>2, <2>3
<1>3. ASSUME NEW r \in S, NEW s \in S, r \in below[s]
      PROVE  Cardinality(below[r]) < Cardinality(below[s])
  <2>1. below[r] \in SUBSET below[s] /\ below[r] # below[s]
    BY <1>3 DEF IsStrictOrder
  <2>2. /\ Cardinality(below[r]) <= Cardinality(below[s])
        /\ Cardinality(below[r]) # Cardinality(below[s])
    BY <1>2, <2>1, FS_Subset
  <2> QED BY <1>2, <2>2
<1>4. IsFiniteSet(0..(N - 1)) /\ Cardinality(0..(N - 1)) = N
  <2> HIDE DEF N
  <2>1. 0 \in Int /\ N - 1 \in Int
    BY <1>1
  <2>2. IsFiniteSet(0..(N - 1))
            /\ Cardinality(0..(N - 1)) = IF 0 > N - 1 THEN 0 ELSE (N - 1) - 0 + 1
    BY <2>1, FS_Interval
  <2> QED BY <1>1, <2>2
<1>5. rank \in Injection(S, 0..(N - 1))
  <2>1. rank \in [S -> 0..(N - 1)]
    BY <1>2
  <2>2. ASSUME NEW r \in S, NEW s \in S, rank[r] = rank[s] PROVE r = s
    <3> SUFFICES ASSUME r # s PROVE FALSE
      OBVIOUS
    <3>1. r \in below[s] \/ s \in below[r]
      BY DEF IsStrictOrder
    <3>2. Cardinality(below[r]) < Cardinality(below[s])
              \/ Cardinality(below[s]) < Cardinality(below[r])
      BY <1>3, <3>1
    <3> QED BY <1>2, <2>2, <3>2
  <2> HIDE DEF rank
  <2> QED BY <2>1, <2>2 DEF Injection, IsInjective
<1>6. rank \in Surjection(S, 0..(N - 1))
  <2> HIDE DEF rank, N
  <2>1. Cardinality(S) = Cardinality(0..(N - 1))
    BY <1>4 DEF N
  <2> QED BY <1>4, <1>5, <2>1, FS_Injection
<1>7. ASSUME NEW k \in 1..N PROVE \E s \in S : Cardinality(below[s]) = k - 1
  <2>1. k - 1 \in 0..(N - 1)
    <3> HIDE DEF N
    <3> QED BY <1>1
  <2>2. \E s \in S : rank[s] = k - 1
    <3> HIDE DEF rank, N
    <3> QED BY <1>6, <2>1 DEF Surjection
  <2> QED BY <2>2
<1> HIDE DEF rank
<1> QED BY <1>2, <1>3, <1>7

(* A sequence with, at every place, the element that has as many below it  *)
(* as there are places before: it has every element, once, in order.       *)
Ranked(q, S, below) ==
  /\ DOMAIN q = 1..Cardinality(S)
  /\ \A k \in 1..Cardinality(S) : q[k] \in S /\ Cardinality(below[q[k]]) = k - 1

(* A sequence by rank is in the order, has no member twice and leaves none  *)
(* out.                                                                     *)
LEMMA RanksEnumerate ==
  ASSUME NEW S, IsFiniteSet(S), NEW below, IsStrictOrder(S, below),
         NEW q, Ranked(q, S, below)
  PROVE  /\ \A k, l \in 1..Cardinality(S) : k < l => q[k] \in below[q[l]]
         /\ \A k, l \in 1..Cardinality(S) : q[k] = q[l] => k = l
         /\ \A s \in S : \E k \in 1..Cardinality(S) : q[k] = s
<1> DEFINE N == Cardinality(S)
<1>1. N \in Nat
  BY FS_CardinalityType
<1>2. /\ \A s \in S : Cardinality(below[s]) \in 0..(N - 1)
      /\ \A r, s \in S : r \in below[s] => Cardinality(below[r]) < Cardinality(below[s])
  BY RanksFill
<1>3. \A k \in 1..N : q[k] \in S /\ Cardinality(below[q[k]]) = k - 1
  BY DEF Ranked
<1> HIDE DEF N
<1>4. ASSUME NEW k \in 1..N, NEW l \in 1..N, q[k] = q[l] PROVE k = l
  BY <1>3, <1>4
<1>5. ASSUME NEW k \in 1..N, NEW l \in 1..N, k < l PROVE q[k] \in below[q[l]]
  <2>1. q[k] # q[l]
    BY <1>4, <1>5
  <2>2. q[k] \in below[q[l]] \/ q[l] \in below[q[k]]
    BY <1>3, <2>1 DEF IsStrictOrder
  <2>3. ~(q[l] \in below[q[k]])
    BY <1>1, <1>2, <1>3, <1>5
  <2> QED BY <2>2, <2>3
<1>6. ASSUME NEW s \in S PROVE \E k \in 1..N : q[k] = s
  <2> DEFINE k == Cardinality(below[s]) + 1
  <2>1. k \in 1..N /\ Cardinality(below[q[k]]) = Cardinality(below[s])
    BY <1>1, <1>2, <1>3
  <2>2. q[k] = s
    <3> HIDE DEF k
    <3> SUFFICES ASSUME q[k] # s PROVE FALSE
      OBVIOUS
    <3>1. q[k] \in S
      BY <1>3, <2>1
    <3>2. q[k] \in below[s] \/ s \in below[q[k]]
      BY <3>1 DEF IsStrictOrder
    <3> QED BY <1>1, <1>2, <2>1, <3>1, <3>2
  <2> HIDE DEF k
  <2> QED BY <2>1, <2>2
<1> QED BY <1>4, <1>5, <1>6 DEF N

(* A set of numbers in ascending order.                                    *)
LEMMA AscendingEnumerates ==
  ASSUME NEW S \in SUBSET Int, IsFiniteSet(S)
  PROVE  /\ Cardinality(S) \in Nat
         /\ Ascending(S) \in [1..Cardinality(S) -> S]
         /\ \A k, l \in 1..Cardinality(S) : k < l => Ascending(S)[k] < Ascending(S)[l]
         /\ \A s \in S : \E k \in 1..Cardinality(S) : Ascending(S)[k] = s
<1> DEFINE N == Cardinality(S)
           q == Ascending(S)
           below == [s \in S |-> {r \in S : r < s}]
<1>1. N \in Nat
  BY FS_CardinalityType
<1>2. IsStrictOrder(S, below)
  <2>1. below \in [S -> SUBSET S]
    OBVIOUS
  <2>2. \A r, s \in S : r \in below[s] <=> r < s
    OBVIOUS
  <2>3. ASSUME NEW r \in S, NEW s \in S, r \in below[s], NEW t \in below[r] PROVE t \in below[s]
    <3>1. t \in S /\ t < r /\ r < s
      BY <2>2, <2>3
    <3> QED BY <2>2, <3>1
  <2>4. \A s \in S : ~(s \in below[s])
    BY <2>2
  <2>5. \A r, s \in S : r # s => r \in below[s] \/ s \in below[r]
    BY <2>2
  <2>6. \A r, s \in S : r \in below[s] => below[r] \subseteq below[s]
    BY <2>3
  <2> HIDE DEF below
  <2> QED BY <2>1, <2>4, <2>5, <2>6 DEF IsStrictOrder
<1>3. \A k \in 1..N : \E s \in S : Cardinality(below[s]) = k - 1
  <2> HIDE DEF below
  <2> QED BY <1>2, RanksFill
<1>4. q = [k \in 1..N |-> CHOOSE s \in S : Cardinality({r \in S : r < s}) = k - 1]
  BY DEF Ascending, Ordered
<1>5. ASSUME NEW k \in 1..N PROVE q[k] \in S /\ Cardinality(below[q[k]]) = k - 1
  <2>1. q[k] = CHOOSE s \in S : Cardinality({r \in S : r < s}) = k - 1
    BY <1>4
  <2>2. \E s \in S : Cardinality({r \in S : r < s}) = k - 1
    BY <1>3
  <2>3. q[k] \in S /\ Cardinality({r \in S : r < q[k]}) = k - 1
    <3> HIDE DEF q
    <3> QED BY <2>1, <2>2
  <2> HIDE DEF q
  <2> QED BY <2>3
<1>6. DOMAIN q = 1..N /\ q \in [1..N -> S]
  <2>1. DOMAIN q = 1..N
    BY <1>4
  <2>2. q = [k \in 1..N |-> q[k]]
    <3>1. q = [k \in DOMAIN q |-> q[k]]
      BY <1>4
    <3> QED BY <2>1, <3>1
  <2> HIDE DEF q
  <2> QED BY <1>5, <2>1, <2>2
<1>7. /\ \A k, l \in 1..N : k < l => q[k] \in below[q[l]]
      /\ \A s \in S : \E k \in 1..N : q[k] = s
  <2>1. Ranked(q, S, below)
    <3> HIDE DEF q, below
    <3> QED BY <1>5, <1>6 DEF Ranked
  <2> HIDE DEF below, q
  <2> QED BY <1>2, <2>1, RanksEnumerate
<1>8. ASSUME NEW k \in 1..N, NEW l \in 1..N, k < l PROVE q[k] < q[l]
  <2>1. q[k] \in below[q[l]] /\ q[l] \in S
    BY <1>5, <1>7, <1>8
  <2> HIDE DEF q
  <2> QED BY <2>1
<1> HIDE DEF q, below
<1> QED BY <1>1, <1>6, <1>7, <1>8 DEF q

(* The elements at some places, in the order of the places.                *)
LEMMA PickedEnumerates ==
  ASSUME NEW q, NEW places \in SUBSET Int, IsFiniteSet(places)
  PROVE  /\ Len(Picked(q, places)) = Cardinality(places)
         /\ DOMAIN Picked(q, places) = 1..Cardinality(places)
         /\ Picked(q, places) = [n \in 1..Cardinality(places) |-> q[Ascending(places)[n]]]
<1>1. Cardinality(places) \in Nat /\ DOMAIN Ascending(places) = 1..Cardinality(places)
  BY AscendingEnumerates
<1>2. Picked(q, places) = [n \in 1..Cardinality(places) |-> q[Ascending(places)[n]]]
  BY <1>1 DEF Picked
<1> QED BY <1>1, <1>2

(* Every place that was asked for is in the picked sequence.                *)
LEMMA PickedHas ==
  ASSUME NEW q, NEW places \in SUBSET Int, IsFiniteSet(places), NEW p \in places
  PROVE  \E n \in DOMAIN Picked(q, places) : Ascending(places)[n] = p /\ Picked(q, places)[n] = q[p]
BY PickedEnumerates, AscendingEnumerates

(* What stands in the picked sequence comes from a place that was asked     *)
(* for.                                                                     *)
LEMMA PickedFrom ==
  ASSUME NEW q, NEW places \in SUBSET Int, IsFiniteSet(places), NEW n \in DOMAIN Picked(q, places)
  PROVE  Ascending(places)[n] \in places /\ Picked(q, places)[n] = q[Ascending(places)[n]]
BY PickedEnumerates, AscendingEnumerates

(* A picked sequence is one of the members that were picked.                *)
LEMMA PickedIsSeq ==
  ASSUME NEW R, NEW q, NEW places \in SUBSET Int, IsFiniteSet(places), \A p \in places : q[p] \in R
  PROVE  Picked(q, places) \in Seq(R)
<1>1. Cardinality(places) \in Nat
  BY AscendingEnumerates
<1>2. \A n \in 1..Cardinality(places) : q[Ascending(places)[n]] \in R
  BY AscendingEnumerates
<1> QED BY <1>1, <1>2, PickedEnumerates

(* A sequence in another order.                                            *)
Rearranges(r, q) ==
  \E h \in Bijection(DOMAIN q, DOMAIN q) : r = [k \in DOMAIN q |-> q[h[k]]]

(* The places 1..N, the one with k - 1 places ahead of it at k.             *)
OrderedPlaces(order, N, ahead) ==
  /\ DOMAIN order = 1..N
  /\ order = [k \in 1..N |-> order[k]]
  /\ \A k \in 1..N : order[k] \in 1..N /\ Cardinality(ahead[order[k]]) = k - 1

(* A sequence read along such an order is a rearrangement of it.            *)
LEMMA RanksRearrange ==
  ASSUME NEW q, NEW N \in Nat, DOMAIN q = 1..N, NEW ahead, IsStrictOrder(1..N, ahead),
         NEW order, OrderedPlaces(order, N, ahead),
         NEW r, r = [k \in DOMAIN order |-> q[order[k]]]
  PROVE  Rearranges(r, q)
<1>1. IsFiniteSet(1..N) /\ Cardinality(1..N) = N
  <2>1. 1 \in Int /\ N \in Int
    OBVIOUS
  <2> QED BY <2>1, FS_Interval
<1>2. \A k \in 1..N : order[k] \in 1..N /\ Cardinality(ahead[order[k]]) = k - 1
  BY DEF OrderedPlaces
<1>3. DOMAIN order = 1..N /\ order = [k \in 1..N |-> order[k]]
  BY DEF OrderedPlaces
<1>4. /\ \A k, l \in 1..N : order[k] = order[l] => k = l
      /\ \A s \in 1..N : \E k \in 1..N : order[k] = s
  <2>1. Ranked(order, 1..N, ahead)
    BY <1>1, <1>2, <1>3 DEF Ranked
  <2> DEFINE S == 1..N
  <2>2. IsFiniteSet(S) /\ IsStrictOrder(S, ahead) /\ Ranked(order, S, ahead)
    BY <1>1, <2>1
  <2>3. Cardinality(S) = N
    BY <1>1
  <2> HIDE DEF S
  <2>4. \A k, l \in 1..Cardinality(S) : order[k] = order[l] => k = l
    BY <2>2, RanksEnumerate
  <2>5. \A s \in S : \E k \in 1..Cardinality(S) : order[k] = s
    BY <2>2, RanksEnumerate
  <2> QED BY <2>3, <2>4, <2>5 DEF S
<1>5. order \in Bijection(1..N, 1..N)
  BY <1>2, <1>3, <1>4 DEF Bijection, Injection, Surjection, IsInjective
<1>6. r = [k \in 1..N |-> q[order[k]]]
  BY <1>3
<1> QED BY <1>5, <1>6 DEF Rearranges

(* What rearranging keeps.                                                 *)
Shuffled(r, q, D) ==
  /\ DOMAIN r = D
  /\ \A k \in D : \E i \in D : r[k] = q[i]
  /\ \A i \in D : \E k \in D : r[k] = q[i]
  /\ \A i, j \in D : i # j => \E k, l \in D : k # l /\ r[k] = q[i] /\ r[l] = q[j]
  /\ \A k, l \in D : k # l => \E i, j \in D : i # j /\ r[k] = q[i] /\ r[l] = q[j]
  /\ ToSet(r) = ToSet(q)

(* A rearrangement has each member, at a place of its own.                  *)
LEMMA RearrangedHas ==
  ASSUME NEW r, NEW q, Rearranges(r, q), NEW D, D = DOMAIN q
  PROVE  Shuffled(r, q, D)
<1>1. PICK h \in Bijection(DOMAIN q, DOMAIN q) : r = [k \in DOMAIN q |-> q[h[k]]]
  BY DEF Rearranges
<1>2. /\ DOMAIN r = DOMAIN q
      /\ \A k \in DOMAIN r : h[k] \in DOMAIN q /\ r[k] = q[h[k]]
      /\ \A i \in DOMAIN q : \E k \in DOMAIN q : h[k] = i
      /\ \A k, l \in DOMAIN q : h[k] = h[l] => k = l
  BY <1>1 DEF Bijection, Injection, Surjection, IsInjective
<1>3. ASSUME NEW i \in DOMAIN q, NEW j \in DOMAIN q, i # j
      PROVE  \E k, l \in DOMAIN r : k # l /\ r[k] = q[i] /\ r[l] = q[j]
  <2>1. PICK k \in DOMAIN q : h[k] = i
    BY <1>2
  <2>2. PICK l \in DOMAIN q : h[l] = j
    BY <1>2
  <2>3. k # l /\ k \in DOMAIN r /\ l \in DOMAIN r
    BY <1>2, <1>3, <2>1, <2>2
  <2>4. r[k] = q[i] /\ r[l] = q[j]
    BY <1>2, <2>1, <2>2, <2>3
  <2> QED BY <2>3, <2>4
<1>4. ASSUME NEW k \in DOMAIN r, NEW l \in DOMAIN r, k # l
      PROVE  \E i, j \in DOMAIN q : i # j /\ r[k] = q[i] /\ r[l] = q[j]
  <2>1. h[k] \in DOMAIN q /\ h[l] \in DOMAIN q /\ h[k] # h[l]
    BY <1>2, <1>4
  <2>2. r[k] = q[h[k]] /\ r[l] = q[h[l]]
    BY <1>2
  <2> QED BY <2>1, <2>2
<1>5. \A k \in DOMAIN r : \E i \in DOMAIN q : r[k] = q[i]
  BY <1>2
<1>6. ASSUME NEW i \in DOMAIN q PROVE \E k \in DOMAIN r : r[k] = q[i]
  <2>1. PICK k \in DOMAIN q : h[k] = i
    BY <1>2
  <2> QED BY <1>2, <2>1
<1>7. ToSet(r) = ToSet(q)
  BY <1>5, <1>6 DEF ToSet
<1>8. DOMAIN r = DOMAIN q
  BY <1>2
<1> QED BY <1>3, <1>4, <1>5, <1>6, <1>7, <1>8 DEF Shuffled

(* A rearrangement is a sequence of the same members, as long.              *)
LEMMA RearrangedIsSeq ==
  ASSUME NEW R, NEW q \in Seq(R), NEW r, Rearranges(r, q)
  PROVE  r \in Seq(R) /\ Len(r) = Len(q)
<1>1. PICK h \in Bijection(DOMAIN q, DOMAIN q) : r = [k \in DOMAIN q |-> q[h[k]]]
  BY DEF Rearranges
<1>2. DOMAIN q = 1..Len(q) /\ Len(q) \in Nat /\ \A i \in DOMAIN q : q[i] \in R
  OBVIOUS
<1>3. \A k \in DOMAIN q : h[k] \in DOMAIN q
  BY DEF Bijection, Injection
<1> QED BY <1>1, <1>2, <1>3

(* Keys that are numbers, with the place where they are equal.             *)
LEMMA KeysOrder ==
  ASSUME NEW N \in Nat, NEW key \in [1..N -> Int],
         NEW ahead,
         ahead = [i \in 1..N |-> {j \in 1..N : key[j] < key[i] \/ (~(key[i] < key[j]) /\ j < i)}]
  PROVE  IsStrictOrder(1..N, ahead)
<1>1. ahead \in [1..N -> SUBSET (1..N)]
  OBVIOUS
<1>2. \A i, j \in 1..N : j \in ahead[i] <=> key[j] < key[i] \/ (key[j] = key[i] /\ j < i)
  OBVIOUS
<1>3. \A i \in 1..N : ~(i \in ahead[i])
  BY <1>2
<1>4. ASSUME NEW i \in 1..N, NEW j \in 1..N, i \in ahead[j], NEW h \in ahead[i]
      PROVE  h \in ahead[j]
  <2>1. h \in 1..N /\ key[h] \in Int /\ key[i] \in Int /\ key[j] \in Int
    BY <1>1
  <2> QED BY <1>2, <1>4, <2>1
<1>5. \A i, j \in 1..N : i # j => i \in ahead[j] \/ j \in ahead[i]
  BY <1>2
<1> QED BY <1>1, <1>3, <1>4, <1>5 DEF IsStrictOrder

(* A recursive definition along numbers, every value made from the one     *)
(* before it, has a solution.                                              *)
Solution(f, a, n, V, base, step) ==
  /\ f \in [a..n -> V]
  /\ f[a] = base
  /\ \A k \in (a + 1)..n : f[k] = step[<<k, f[k - 1]>>]

(* A recursive function exists: the step, applied from a base, defines a    *)
(* function on a..n.                                                        *)
LEMMA RecursionExists ==
  ASSUME NEW a \in Int, NEW n \in Int, a <= n, NEW V, NEW base \in V,
         NEW step, step \in [((a + 1)..n) \X V -> V]
  PROVE  \E f : Solution(f, a, n, V, base, step)
<1> DEFINE Solves(f, m) == /\ f \in [a..(a + m) -> V]
                           /\ f[a] = base
                           /\ \A k \in (a + 1)..(a + m) : f[k] = step[<<k, f[k - 1]>>]
           T == {m \in Nat : a + m <= n => \E f : Solves(f, m)}
<1>1. 0 \in T
  <2> DEFINE f == [k \in a..(a + 0) |-> base]
  <2>1. Solves(f, 0)
    OBVIOUS
  <2> HIDE DEF Solves, f
  <2> QED BY <2>1
<1>2. ASSUME NEW m \in Nat, m \in T PROVE m + 1 \in T
  <2> SUFFICES ASSUME a + (m + 1) <= n PROVE \E f : Solves(f, m + 1)
    OBVIOUS
  <2>1. \E f : Solves(f, m)
    <3> HIDE DEF Solves
    <3> QED BY <1>2
  <2>2. PICK f : Solves(f, m)
    <3> HIDE DEF Solves
    <3> QED BY <2>1
  <2> DEFINE g == [k \in a..(a + (m + 1)) |->
                     IF k = a + m + 1 THEN step[<<k, f[k - 1]>>] ELSE f[k]]
  <2>3. f[a + m] \in V /\ a + m + 1 \in (a + 1)..n
    BY <2>2
  <2>4. <<a + m + 1, f[a + m]>> \in ((a + 1)..n) \X V
    BY <2>3
  <2>5. step[<<a + m + 1, f[a + m]>>] \in V
    BY <2>4
  <2>6. g[a + m + 1] = step[<<a + m + 1, f[a + m]>>] /\ \A k \in a..(a + m) : g[k] = f[k]
    OBVIOUS
  <2>7. g \in [a..(a + (m + 1)) -> V]
    <3> SUFFICES ASSUME NEW k \in a..(a + (m + 1))
                 PROVE  (IF k = a + m + 1 THEN step[<<k, f[k - 1]>>] ELSE f[k]) \in V
      OBVIOUS
    <3>1. CASE k = a + m + 1
      <4>1. k - 1 = a + m
        BY <3>1
      <4> QED BY <2>5, <3>1, <4>1
    <3>2. CASE k # a + m + 1
      BY <2>2, <3>2
    <3> QED BY <3>1, <3>2
  <2>8. ASSUME NEW k \in (a + 1)..(a + (m + 1)) PROVE g[k] = step[<<k, g[k - 1]>>]
    <3>1. CASE k = a + m + 1
      <4>1. k - 1 = a + m /\ g[k - 1] = f[a + m]
        BY <2>6, <3>1
      <4> HIDE DEF g
      <4> QED BY <2>6, <3>1, <4>1
    <3>2. CASE k # a + m + 1
      <4>1. k \in (a + 1)..(a + m) /\ k - 1 \in a..(a + m) /\ k \in a..(a + m)
        BY <3>2
      <4>2. g[k] = f[k] /\ g[k - 1] = f[k - 1]
        BY <2>6, <4>1
      <4> HIDE DEF g
      <4> QED BY <2>2, <4>1, <4>2
    <3> QED BY <3>1, <3>2
  <2>9. g[a] = base
    BY <2>2, <2>6
  <2>10. Solves(g, m + 1)
    <3> HIDE DEF g
    <3> QED BY <2>7, <2>8, <2>9
  <2> HIDE DEF g, Solves
  <2> QED BY <2>10
<1>3. n - a \in T
  <2>1. n - a \in Nat
    OBVIOUS
  <2> HIDE DEF T
  <2> QED BY <1>1, <1>2, <2>1, NatSetInduction
<1>4. \E f : Solves(f, n - a)
  <2> HIDE DEF Solves
  <2> QED BY <1>3
<1>5. PICK f : Solves(f, n - a)
  <2> HIDE DEF Solves
  <2> QED BY <1>4
<1>6. a + (n - a) = n
  OBVIOUS
<1>7. Solution(f, a, n, V, base, step)
  BY <1>5, <1>6 DEF Solution
<1> QED BY <1>7

(* Numbers that do not fall: they are in order, and what lies below the    *)
(* last of them lies between two neighbours.                               *)
LEMMA Staircase ==
  ASSUME NEW N \in Nat, NEW off \in [1..(N + 1) -> Int],
         \A i \in 1..N : off[i] <= off[i + 1]
  PROVE  /\ \A i, j \in 1..(N + 1) : i <= j => off[i] <= off[j]
         /\ \A p \in off[1]..(off[N + 1] - 1) : \E i \in 1..N : off[i] <= p /\ p < off[i + 1]
<1> DEFINE T == {n \in Nat : \A i, j \in 1..(N + 1) : j = i + n => off[i] <= off[j]}
<1>1. 0 \in T
  OBVIOUS
<1>2. ASSUME NEW n \in Nat, n \in T PROVE n + 1 \in T
  <2> SUFFICES ASSUME NEW i \in 1..(N + 1), NEW j \in 1..(N + 1), j = i + (n + 1)
               PROVE  off[i] <= off[j]
    OBVIOUS
  <2>1. j - 1 \in 1..N /\ j - 1 = i + n
    OBVIOUS
  <2>2. off[i] <= off[j - 1]
    BY <1>2, <2>1
  <2>3. off[j - 1] <= off[j]
    <3>1. off[j - 1] <= off[(j - 1) + 1]
      BY <2>1
    <3> QED BY <3>1
  <2> QED BY <2>1, <2>2, <2>3
<1>3. \A n \in Nat : n \in T
  <2> HIDE DEF T
  <2> QED BY <1>1, <1>2, NatSetInduction
<1>4. ASSUME NEW i \in 1..(N + 1), NEW j \in 1..(N + 1), i <= j PROVE off[i] <= off[j]
  <2>1. j - i \in Nat /\ j = i + (j - i)
    BY <1>4
  <2>2. j - i \in T
    <3> HIDE DEF T
    <3> QED BY <1>3, <2>1
  <2> QED BY <2>1, <2>2
<1>5. ASSUME NEW p \in off[1]..(off[N + 1] - 1)
      PROVE  \E i \in 1..N : off[i] <= p /\ p < off[i + 1]
  <2> DEFINE S == {i \in 1..(N + 1) : off[i] <= p}
  <2>0. /\ 1 \in 1..(N + 1) /\ N + 1 \in 1..(N + 1) /\ off[1] \in Int /\ off[N + 1] \in Int
        /\ p \in Int /\ off[1] <= p /\ p < off[N + 1]
    OBVIOUS
  <2>1. S \in SUBSET Int /\ 1 \in S /\ (\A i \in S : i <= N + 1) /\ N + 1 \in Int
    BY <2>0
  <2>2. PICK i \in S : \A j \in S : i >= j
    <3> HIDE DEF S
    <3> QED BY <2>1, GreatestOne
  <2>3. i \in 1..N
    <3>1. i \in 1..(N + 1) /\ off[i] <= p
      OBVIOUS
    <3>2. i # N + 1
      BY <2>0, <3>1
    <3> QED BY <3>1, <3>2
  <2>4. ~(i + 1 \in S) /\ i + 1 \in 1..(N + 1)
    BY <2>2, <2>3
  <2> QED BY <2>3, <2>4
<1> QED BY <1>4, <1>5

(* Pages and the joined text.                                              *)
Characters == STRING \cup {NL, "x", "z"}
(* The texts of the model: sequences of characters.                         *)
Text == Seq(Characters)

(* Where each page starts: the recursion of PageStart, unfolded.            *)
LEMMA PageStartIs ==
  ASSUME NEW pages \in Seq(Text)
  PROVE  /\ \A k \in 1..(Len(pages) + 1) : PageStart(pages, k) \in Int
         /\ PageStart(pages, 1) = 0
         /\ \A k \in 1..Len(pages) :
              PageStart(pages, k + 1) = PageStart(pages, k) + Len(pages[k]) + 1
<1> DEFINE N == Len(pages)
           step == [kv \in (2..(N + 1)) \X Int |-> kv[2] + Len(pages[kv[1] - 1]) + 1]
           Equation(f) == f = [n \in 1..(N + 1) |->
                                 IF n = 1 THEN 0 ELSE f[n - 1] + Len(pages[n - 1]) + 1]
<1>1. N \in Nat /\ \A k \in 1..N : Len(pages[k]) \in Nat
  BY DEF Text
<1>2. step \in [((1 + 1)..(N + 1)) \X Int -> Int]
  <2> SUFFICES ASSUME NEW kv \in (2..(N + 1)) \X Int
               PROVE  kv[2] + Len(pages[kv[1] - 1]) + 1 \in Int
    BY <1>1
  <2>1. kv[1] - 1 \in 1..N /\ kv[2] \in Int
    BY <1>1
  <2> HIDE DEF N
  <2> QED BY <1>1, <2>1
<1>3. PICK f : Solution(f, 1, N + 1, Int, 0, step)
  <2>1. 1 \in Int /\ N + 1 \in Int /\ 1 <= N + 1 /\ 0 \in Int
    BY <1>1
  <2> HIDE DEF step, N
  <2> QED BY <1>2, <2>1, RecursionExists
<1>10. /\ f \in [1..(N + 1) -> Int] /\ f[1] = 0
       /\ \A k \in 2..(N + 1) : f[k] = step[<<k, f[k - 1]>>]
  <2> HIDE DEF step, N
  <2> QED BY <1>3 DEF Solution
<1>4. ASSUME NEW k \in 2..(N + 1) PROVE f[k] = f[k - 1] + Len(pages[k - 1]) + 1
  <2>1. <<k, f[k - 1]>> \in (2..(N + 1)) \X Int
    <3> HIDE DEF N, step
    <3>1. k - 1 \in 1..(N + 1)
      BY <1>1
    <3>2. f[k - 1] \in Int
      BY <1>10, <3>1
    <3> QED BY <3>2
  <2>2. step[<<k, f[k - 1]>>] = f[k - 1] + Len(pages[k - 1]) + 1
    BY <2>1
  <2> HIDE DEF step, N
  <2> QED BY <1>10, <2>2
<1>5. Equation(f)
  <2>1. f = [n \in 1..(N + 1) |-> f[n]]
    BY <1>10
  <2>2. \A n \in 1..(N + 1) : f[n] = IF n = 1 THEN 0 ELSE f[n - 1] + Len(pages[n - 1]) + 1
    BY <1>1, <1>10, <1>4
  <2> HIDE DEF N
  <2> QED BY <2>1, <2>2
<1> DEFINE g == CHOOSE g : Equation(g)
<1>6. Equation(g)
  <2> HIDE DEF Equation
  <2> QED BY <1>5
<1>7. \A k : PageStart(pages, k) = g[k]
  BY DEF PageStart
<1> HIDE DEF g, N
<1>8. /\ g[1] = 0
      /\ \A k \in 1..N : g[k + 1] = g[k] + Len(pages[k]) + 1
  <2>1. \A n \in 1..(N + 1) : g[n] = IF n = 1 THEN 0 ELSE g[n - 1] + Len(pages[n - 1]) + 1
    BY <1>6
  <2>2. g[1] = 0
    BY <1>1, <2>1
  <2>3. ASSUME NEW k \in 1..N PROVE g[k + 1] = g[k] + Len(pages[k]) + 1
    <3>1. k + 1 \in 1..(N + 1) /\ k + 1 # 1 /\ (k + 1) - 1 = k
      BY <1>1
    <3> QED BY <2>1, <3>1
  <2> QED BY <2>2, <2>3
<1>9. \A k \in 1..(N + 1) : g[k] \in Int
  <2> DEFINE T == {m \in Nat : m + 1 <= N + 1 => g[m + 1] \in Int}
  <2>1. 0 \in T
    BY <1>8
  <2>2. ASSUME NEW m \in Nat, m \in T PROVE m + 1 \in T
    <3> SUFFICES ASSUME (m + 1) + 1 <= N + 1 PROVE g[(m + 1) + 1] \in Int
      OBVIOUS
    <3>1. m + 1 \in 1..N /\ g[m + 1] \in Int
      BY <1>1, <2>2
    <3>2. g[(m + 1) + 1] = g[m + 1] + Len(pages[m + 1]) + 1
      BY <1>8, <3>1
    <3> QED BY <1>1, <3>1, <3>2
  <2>3. ASSUME NEW k \in 1..(N + 1) PROVE g[k] \in Int
    <3>1. k - 1 \in Nat
      BY <1>1
    <3>2. k - 1 \in T
      <4> HIDE DEF T
      <4> QED BY <2>1, <2>2, <3>1, NatSetInduction
    <3>3. (k - 1) + 1 = k /\ k <= N + 1
      BY <1>1
    <3> QED BY <3>2, <3>3
  <2> QED BY <2>3
<1> QED BY <1>7, <1>8, <1>9 DEF N


(* Where pages start does not fall, and every place before the end lies on *)
(* a page or at the break behind it.                                       *)
LEMMA PageStairs ==
  ASSUME NEW pages \in Seq(Text)
  PROVE  /\ \A k, l \in 1..(Len(pages) + 1) : k <= l => PageStart(pages, k) <= PageStart(pages, l)
         /\ \A k \in 1..Len(pages), l \in 1..(Len(pages) + 1) :
              k < l => PageStart(pages, k) + Len(pages[k]) + 1 <= PageStart(pages, l)
         /\ \A k \in 1..(Len(pages) + 1) : PageStart(pages, k) \in Nat
         /\ \A p \in 0..(PageStart(pages, Len(pages) + 1) - 1) :
              \E k \in 1..Len(pages) : /\ PageStart(pages, k) <= p
                                       /\ p <= PageStart(pages, k) + Len(pages[k])
<1> DEFINE N == Len(pages)
           off == [k \in 1..(N + 1) |-> PageStart(pages, k)]
<1>1. N \in Nat /\ \A k \in 1..N : Len(pages[k]) \in Nat
  BY DEF Text
<1>2. /\ \A k \in 1..(N + 1) : off[k] = PageStart(pages, k) /\ off[k] \in Int
      /\ off[1] = 0
      /\ \A k \in 1..N : off[k + 1] = off[k] + Len(pages[k]) + 1
  <2>1. /\ \A k \in 1..(N + 1) : PageStart(pages, k) \in Int
        /\ PageStart(pages, 1) = 0
        /\ \A k \in 1..N : PageStart(pages, k + 1) = PageStart(pages, k) + Len(pages[k]) + 1
    BY PageStartIs
  <2> HIDE DEF N
  <2>2. \A k \in 1..N : k \in 1..(N + 1) /\ k + 1 \in 1..(N + 1)
    BY <1>1
  <2> QED BY <1>1, <2>1, <2>2
<1>3. off \in [1..(N + 1) -> Int] /\ \A i \in 1..N : off[i] <= off[i + 1]
  <2>1. \A k \in 1..N : k \in 1..(N + 1) /\ k + 1 \in 1..(N + 1)
    BY <1>1
  <2>2. off \in [1..(N + 1) -> Int]
    BY <1>2
  <2> HIDE DEF N, off
  <2> QED BY <1>1, <1>2, <2>1, <2>2, SMTT(30)
<1> HIDE DEF off
<1>4. /\ \A i, j \in 1..(N + 1) : i <= j => off[i] <= off[j]
      /\ \A p \in off[1]..(off[N + 1] - 1) : \E i \in 1..N : off[i] <= p /\ p < off[i + 1]
  <2> HIDE DEF N
  <2> QED BY <1>1, <1>3, Staircase
<1> HIDE DEF N
<1>5. \A k \in 1..N, l \in 1..(N + 1) : k < l => off[k] + Len(pages[k]) + 1 <= off[l]
  <2> SUFFICES ASSUME NEW k \in 1..N, NEW l \in 1..(N + 1), k < l
               PROVE  off[k] + Len(pages[k]) + 1 <= off[l]
    OBVIOUS
  <2>1. k + 1 \in 1..(N + 1) /\ k + 1 <= l
    BY <1>1
  <2>2. off[k + 1] <= off[l]
    BY <1>4, <2>1
  <2> QED BY <1>2, <2>2
<1>6. \A k \in 1..(N + 1) : off[k] \in Nat
  <2> SUFFICES ASSUME NEW k \in 1..(N + 1) PROVE off[k] \in Nat
    OBVIOUS
  <2>1. 1 \in 1..(N + 1) /\ 1 <= k
    BY <1>1
  <2>2. off[1] <= off[k]
    BY <1>4, <2>1
  <2> QED BY <1>2, <2>2
<1>7. ASSUME NEW p \in 0..(off[N + 1] - 1)
      PROVE  \E k \in 1..N : off[k] <= p /\ p <= off[k] + Len(pages[k])
  <2>1. PICK k \in 1..N : off[k] <= p /\ p < off[k + 1]
    BY <1>2, <1>4
  <2>2. off[k + 1] = off[k] + Len(pages[k]) + 1 /\ off[k] \in Nat /\ p \in Int
            /\ Len(pages[k]) \in Nat
    BY <1>1, <1>2, <1>6
  <2> QED BY <2>1, <2>2
<1>8. N + 1 \in 1..(N + 1) /\ \A k \in 1..N : k \in 1..(N + 1)
  BY <1>1
<1>9. \A p \in 0..(PageStart(pages, N + 1) - 1) :
        \E k \in 1..N : PageStart(pages, k) <= p /\ p <= PageStart(pages, k) + Len(pages[k])
  BY <1>2, <1>7, <1>8
<1>10. \A k, l \in 1..(N + 1) : k <= l => PageStart(pages, k) <= PageStart(pages, l)
  BY <1>2, <1>4
<1>11. \A k \in 1..N, l \in 1..(N + 1) : k < l =>
           PageStart(pages, k) + Len(pages[k]) + 1 <= PageStart(pages, l)
  BY <1>2, <1>5, <1>8
<1>12. \A k \in 1..(N + 1) : PageStart(pages, k) \in Nat
  BY <1>2, <1>6
<1> QED BY <1>9, <1>10, <1>11, <1>12 DEF N

(* Two texts with a line break between them.                                *)
LEMMA ConcatBreak ==
  ASSUME NEW s \in Text, NEW t \in Text, NEW u, u = s \o <<NL>> \o t
  PROVE  /\ u \in Text
         /\ Len(u) = Len(s) + 1 + Len(t)
         /\ \A i \in 1..Len(s) : u[i] = s[i]
         /\ u[Len(s) + 1] = NL
         /\ \A i \in 1..Len(t) : u[Len(s) + 1 + i] = t[i]
<1> DEFINE v == s \o <<NL>>
<1>1. /\ Len(s) \in Nat /\ Len(t) \in Nat /\ s \in Seq(Characters) /\ t \in Seq(Characters)
  BY DEF Text
<1>2. <<NL>> \in Seq(Characters) /\ Len(<<NL>>) = 1 /\ <<NL>>[1] = NL
  <2>1. NL \in Characters
    BY DEF Characters
  <2> QED BY <2>1
<1>3. /\ v \in Seq(Characters) /\ Len(v) = Len(s) + 1 /\ v[Len(s) + 1] = NL
      /\ \A i \in 1..Len(s) : v[i] = s[i]
  BY <1>1, <1>2
<1> HIDE DEF v
<1>4. u = v \o t
  BY DEF v
<1>5. /\ u \in Seq(Characters) /\ Len(u) = Len(v) + Len(t)
      /\ \A i \in 1..Len(v) : u[i] = v[i]
      /\ \A i \in 1..Len(t) : u[Len(v) + i] = t[i]
  <2>1. v \o t \in Seq(Characters) /\ Len(v \o t) = Len(v) + Len(t) /\ Len(v) \in Nat
    <3>1. v \in Seq(Characters) /\ t \in Seq(Characters)
      BY <1>1, <1>3
    <3>2. Len(v) \in Nat
      BY <1>1, <1>3
    <3>3. v \o t \in Seq(Characters)
      BY <3>1
    <3>4. Len(v \o t) = Len(v) + Len(t)
      BY <3>1
    <3> QED BY <3>2, <3>3, <3>4
  <2>2. ASSUME NEW i \in 1..Len(v) PROVE (v \o t)[i] = v[i]
    BY <1>1, <1>3
  <2>3. ASSUME NEW i \in 1..Len(t) PROVE (v \o t)[Len(v) + i] = t[i]
    BY <1>1, <1>3, <2>1
  <2> QED BY <1>4, <2>1, <2>2, <2>3
<1>6. u[Len(s) + 1] = NL
  <2>1. Len(s) + 1 \in 1..Len(v)
    BY <1>1, <1>3
  <2> QED BY <1>3, <1>5, <2>1
<1>7. ASSUME NEW i \in 1..Len(s) PROVE u[i] = s[i]
  <2>1. i \in 1..Len(v)
    BY <1>1, <1>3
  <2> QED BY <1>3, <1>5, <2>1
<1>8. Len(u) = Len(s) + 1 + Len(t) /\ \A i \in 1..Len(t) : u[Len(s) + 1 + i] = t[i]
  BY <1>1, <1>3, <1>5
<1>9. u \in Text
  BY <1>5 DEF Text
<1> QED BY <1>6, <1>7, <1>8, <1>9

(* The joined text has every page where it starts, and a break between two.*)
LEMMA JoinedIs ==
  ASSUME NEW pages \in Seq(Text)
  PROVE  /\ Joined(pages) \in Text
         /\ Len(Joined(pages)) = IF pages = <<>> THEN 0 ELSE PageStart(pages, Len(pages) + 1) - 1
         /\ \A k \in 1..Len(pages) : \A i \in 1..Len(pages[k]) :
              Joined(pages)[PageStart(pages, k) + i] = pages[k][i]
         /\ \A k \in 2..Len(pages) : Joined(pages)[PageStart(pages, k)] = NL
<1> DEFINE N == Len(pages)
           S(k) == PageStart(pages, k)
           step == [kv \in (1..N) \X Text |->
                      IF kv[1] = 1 THEN pages[1] ELSE kv[2] \o <<NL>> \o pages[kv[1]]]
           Equation(f) == f = [k \in 0..Len(pages) |->
                                 IF k = 0 THEN <<>>
                                 ELSE IF k = 1 THEN pages[1] ELSE f[k - 1] \o <<NL>> \o pages[k]]
<1>1. N \in Nat /\ \A k \in 1..N : pages[k] \in Text /\ Len(pages[k]) \in Nat
  BY DEF Text
<1>2. step \in [((0 + 1)..N) \X Text -> Text]
  <2> SUFFICES ASSUME NEW kv \in (1..N) \X Text
               PROVE  (IF kv[1] = 1 THEN pages[1] ELSE kv[2] \o <<NL>> \o pages[kv[1]]) \in Text
    BY <1>1
  <2>1. kv[1] \in 1..N /\ kv[2] \in Text /\ pages[kv[1]] \in Text
    BY <1>1
  <2>2. kv[2] \o <<NL>> \o pages[kv[1]] \in Text
    BY <2>1, ConcatBreak
  <2> QED BY <2>1, <2>2
<1>3. PICK f : Solution(f, 0, N, Text, <<>>, step)
  <2>1. 0 \in Int /\ N \in Int /\ 0 <= N /\ <<>> \in Text
    BY <1>1 DEF Text
  <2> HIDE DEF step, N
  <2> QED BY <1>2, <2>1, RecursionExists
<1>4. /\ f \in [0..N -> Text] /\ f[0] = <<>>
      /\ \A k \in 1..N : f[k] = step[<<k, f[k - 1]>>]
  <2> HIDE DEF step, N
  <2> QED BY <1>3 DEF Solution
<1>5. ASSUME NEW k \in 1..N
      PROVE  f[k] = IF k = 1 THEN pages[1] ELSE f[k - 1] \o <<NL>> \o pages[k]
  <2>1. k - 1 \in 0..N
    BY <1>1
  <2>2. f[k - 1] \in Text
    BY <1>4, <2>1
  <2>3. step[<<k, f[k - 1]>>] = IF k = 1 THEN pages[1] ELSE f[k - 1] \o <<NL>> \o pages[k]
    BY <2>2
  <2> HIDE DEF step, N
  <2> QED BY <1>4, <2>3
<1>6. Equation(f)
  <2>1. f = [k \in 0..N |-> f[k]]
    BY <1>4
  <2>2. ASSUME NEW k \in 0..N
        PROVE  f[k] = IF k = 0 THEN <<>>
                      ELSE IF k = 1 THEN pages[1] ELSE f[k - 1] \o <<NL>> \o pages[k]
    <3> HIDE DEF N
    <3>1. CASE k = 0
      BY <1>4, <3>1
    <3>2. CASE k # 0
      <4>1. k \in 1..N
        BY <1>1, <3>2
      <4> QED BY <1>5, <3>2, <4>1
    <3> QED BY <3>1, <3>2
  <2>3. f = [k \in 0..N |-> IF k = 0 THEN <<>>
                      ELSE IF k = 1 THEN pages[1] ELSE f[k - 1] \o <<NL>> \o pages[k]]
    <3> HIDE DEF N
    <3> QED BY <2>1, <2>2
  <2> QED BY <2>3
<1> DEFINE g == CHOOSE g : Equation(g)
<1>7. Equation(g)
  <2> HIDE DEF Equation
  <2> QED BY <1>6
<1>8. Joined(pages) = g[N]
  BY DEF Joined
<1> HIDE DEF g, N, step
<1>9. g[0] = <<>> /\ \A k \in 1..N :
          g[k] = IF k = 1 THEN pages[1] ELSE g[k - 1] \o <<NL>> \o pages[k]
  <2>1. \A k \in 0..N : g[k] = IF k = 0 THEN <<>>
                       ELSE IF k = 1 THEN pages[1] ELSE g[k - 1] \o <<NL>> \o pages[k]
    BY <1>7 DEF N
  <2>2. 0 \in 0..N /\ \A k \in 1..N : k \in 0..N /\ k # 0
    BY <1>1
  <2> QED BY <2>1, <2>2
<1> HIDE DEF Equation
<1>10. /\ \A k \in 1..(N + 1) : S(k) \in Nat
       /\ S(1) = 0
       /\ \A k \in 1..N : S(k + 1) = S(k) + Len(pages[k]) + 1
       /\ \A k \in 1..N, l \in 1..(N + 1) : k < l => S(k) + Len(pages[k]) + 1 <= S(l)
  BY PageStartIs, PageStairs DEF N
<1> HIDE DEF S
<1> DEFINE Good(k) == /\ g[k] \in Text
                      /\ Len(g[k]) = S(k + 1) - 1
                      /\ \A j \in 1..k : \A i \in 1..Len(pages[j]) : g[k][S(j) + i] = pages[j][i]
                      /\ \A j \in 2..k : g[k][S(j)] = NL
           T == {m \in Nat : m + 1 <= N => Good(m + 1)}
<1>11. 0 \in T
  <2> SUFFICES ASSUME 1 <= N PROVE Good(1)
    OBVIOUS
  <2>1. 1 \in 1..N /\ g[1] = pages[1]
    BY <1>1, <1>9
  <2>2. S(1 + 1) = S(1) + Len(pages[1]) + 1 /\ S(1) = 0 /\ Len(pages[1]) \in Nat
            /\ pages[1] \in Text
    BY <1>1, <1>10, <2>1
  <2> QED BY <2>1, <2>2
<1>12. ASSUME NEW m \in Nat, m \in T PROVE m + 1 \in T
  <2> SUFFICES ASSUME (m + 1) + 1 <= N PROVE Good((m + 1) + 1)
    OBVIOUS
  <2> DEFINE k == m + 1
  <2>1. Good(k) /\ k \in 1..N /\ k + 1 \in 1..N
    BY <1>1, <1>12
  <2> HIDE DEF k, Good
  <2> SUFFICES Good(k + 1)
    BY DEF k
  <2>2. g[k + 1] = g[k] \o <<NL>> \o pages[k + 1]
    <3>1. k + 1 # 1 /\ (k + 1) - 1 = k
      BY <2>1
    <3> QED BY <1>9, <2>1, <3>1
  <2> DEFINE s == g[k]  t == pages[k + 1]  u == g[k + 1]
  <2>3. s \in Text /\ t \in Text /\ Len(s) = S(k + 1) - 1
    BY <1>1, <2>1 DEF Good
  <2>4. /\ u \in Text
        /\ Len(u) = Len(s) + 1 + Len(t)
        /\ \A i \in 1..Len(s) : u[i] = s[i]
        /\ u[Len(s) + 1] = NL
        /\ \A i \in 1..Len(t) : u[Len(s) + 1 + i] = t[i]
    <3>1. u = s \o <<NL>> \o t
      BY <2>2
    <3> HIDE DEF s, t, u
    <3>2. s \in Text /\ t \in Text
      BY <2>3
    <3>3. u \in Text /\ Len(u) = Len(s) + 1 + Len(t) /\ u[Len(s) + 1] = NL
      BY <3>1, <3>2, ConcatBreak
    <3>4. \A i \in 1..Len(s) : u[i] = s[i]
      BY <3>1, <3>2, ConcatBreak
    <3>5. \A i \in 1..Len(t) : u[Len(s) + 1 + i] = t[i]
      BY <3>1, <3>2, ConcatBreak
    <3> QED BY <3>3, <3>4, <3>5
  <2>5. /\ S(k + 1) \in Nat /\ Len(t) \in Nat /\ k \in Nat
        /\ S((k + 1) + 1) = S(k + 1) + Len(t) + 1
    BY <1>1, <1>10, <2>1
  <2>6. ASSUME NEW j \in 1..(k + 1), NEW i \in 1..Len(pages[j]) PROVE u[S(j) + i] = pages[j][i]
    <3>1. CASE j = k + 1
      <4> HIDE DEF u, s
      <4> QED BY <2>3, <2>4, <2>5, <3>1, SMTT(30)
    <3>2. CASE j # k + 1
      <4>1. j \in 1..k /\ j \in 1..N /\ k + 1 \in 1..(N + 1) /\ j < k + 1
        BY <1>1, <2>1, <3>2
      <4>2. S(j) + Len(pages[j]) + 1 <= S(k + 1) /\ S(j) \in Nat /\ Len(pages[j]) \in Nat
        BY <1>1, <1>10, <4>1
      <4>3. S(j) + i \in 1..Len(s)
        <5>1. i \in Nat /\ 1 <= i /\ i <= Len(pages[j])
          BY <4>2
        <5>2. S(j) + i \in Int /\ 1 <= S(j) + i /\ S(j) + i <= S(k + 1) - 1
          BY <2>5, <4>2, <5>1, SMTT(30)
        <5> HIDE DEF s
        <5> QED BY <2>3, <2>5, <5>2
      <4>4. s[S(j) + i] = pages[j][i]
        BY <2>1, <4>1 DEF Good
      <4> HIDE DEF s, u
      <4> QED BY <2>4, <4>3, <4>4
    <3> QED BY <3>1, <3>2
  <2>7. ASSUME NEW j \in 2..(k + 1) PROVE u[S(j)] = NL
    <3>1. CASE j = k + 1
      <4>1. S(j) = Len(s) + 1
        <5> HIDE DEF s
        <5> QED BY <2>3, <2>5, <3>1
      <4> HIDE DEF s, u
      <4> QED BY <2>4, <4>1
    <3>2. CASE j # k + 1
      <4>1. /\ j \in 2..k /\ j \in 1..N /\ k + 1 \in 1..(N + 1) /\ j < k + 1
            /\ 1 \in 1..N /\ j \in 1..(N + 1) /\ 1 < j
        BY <1>1, <2>1, <3>2
      <4>2. /\ S(j) + Len(pages[j]) + 1 <= S(k + 1) /\ S(j) \in Nat /\ Len(pages[j]) \in Nat
            /\ S(1) + Len(pages[1]) + 1 <= S(j) /\ Len(pages[1]) \in Nat
        BY <1>1, <1>10, <4>1
      <4>3. S(j) \in 1..Len(s)
        <5>1. S(1) = 0
          BY <1>10
        <5>2. S(j) \in Int /\ 1 <= S(j) /\ S(j) <= S(k + 1) - 1
          BY <2>5, <4>2, <5>1, SMTT(30)
        <5> HIDE DEF s
        <5> QED BY <2>3, <2>5, <5>2
      <4>4. s[S(j)] = NL
        BY <2>1, <4>1 DEF Good
      <4> HIDE DEF s, u
      <4> QED BY <2>4, <4>3, <4>4
    <3> QED BY <3>1, <3>2
  <2>8. Len(u) = S((k + 1) + 1) - 1
    <3> HIDE DEF u, s, t
    <3> QED BY <2>3, <2>4, <2>5
  <2> QED BY <2>4, <2>6, <2>7, <2>8 DEF Good
<1>13. ASSUME NEW k \in 1..N PROVE Good(k)
  <2> HIDE DEF T
  <2>1. k - 1 \in Nat /\ (k - 1) + 1 = k /\ k <= N
    BY <1>1
  <2>2. k - 1 \in T
    BY <1>11, <1>12, <2>1, NatSetInduction
  <2> HIDE DEF Good
  <2>3. (k - 1) + 1 <= N => Good((k - 1) + 1)
    BY <2>2 DEF T
  <2> QED BY <2>1, <2>3
<1>14. CASE N = 0
  <2>1. pages = <<>> /\ Joined(pages) = <<>> /\ Len(<<>>) = 0 /\ <<>> \in Text
    BY <1>8, <1>9, <1>14 DEF N, Text
  <2>2. Len(pages) = 0
    BY <1>14 DEF N
  <2> QED BY <2>1, <2>2
<1>15. CASE N # 0
  <2>1. N \in 1..N /\ pages # <<>>
    BY <1>1, <1>15 DEF N
  <2>2. Good(N)
    BY <1>13, <2>1
  <2> QED BY <1>8, <2>1, <2>2 DEF N, S
<1> QED BY <1>14, <1>15

(* One character of the joined text, at its place on its page.              *)
LEMMA JoinedAt ==
  ASSUME NEW pages \in Seq(Text), NEW k \in 1..Len(pages), NEW i \in 1..Len(pages[k])
  PROVE  Joined(pages)[PageStart(pages, k) + i] = pages[k][i]
<1> QED BY JoinedIs, Zenon

(* A slice within a text: its length and its characters.                   *)
LEMMA SliceIs ==
  ASSUME NEW t \in Text, NEW a \in Nat, NEW b \in Nat, a <= b, b <= Len(t)
  PROVE  /\ Slice(t, a, b) \in Text
         /\ Len(Slice(t, a, b)) = b - a
         /\ \A i \in 1..(b - a) : Slice(t, a, b)[i] = t[a + i]
<1>1. Len(t) \in Nat /\ t \in Seq(Characters)
  BY DEF Text
<1>2. Min({b, Len(t)}) = b
  <2>1. b \in Int /\ Len(t) \in Int
    BY <1>1
  <2> QED BY <2>1, MinMaxOfTwo
<1>3. Slice(t, a, b) = SubSeq(t, a + 1, b)
  BY <1>2 DEF Slice
<1>4. /\ SubSeq(t, a + 1, b) \in Seq(Characters)
      /\ Len(SubSeq(t, a + 1, b)) = b - a
      /\ \A i \in 1..(b - a) : SubSeq(t, a + 1, b)[i] = t[a + i]
  BY <1>1
<1> QED BY <1>3, <1>4 DEF Text

(* A slice of a text is a text.                                             *)
LEMMA SliceTyped ==
  ASSUME NEW t \in Text, NEW a \in Nat, NEW b \in Nat, a <= b, b <= Len(t)
  PROVE  Slice(t, a, b) \in Text
<1> QED BY SliceIs

(* The slice s of t, by its length and its characters.                      *)
IsSlice(s, t, a, b) ==
  s \in Text /\ Len(s) = b - a /\ \A i \in 1..(b - a) : s[i] = t[a + i]

(* What Slice returns is the slice.                                         *)
LEMMA SlicesAre ==
  ASSUME NEW t \in Text, NEW a \in Nat, NEW b \in Nat, a <= b, b <= Len(t),
         NEW s, s = Slice(t, a, b)
  PROVE  IsSlice(s, t, a, b)
<1>1. /\ Slice(t, a, b) \in Text
      /\ Len(Slice(t, a, b)) = b - a
      /\ \A i \in 1..(b - a) : Slice(t, a, b)[i] = t[a + i]
  BY SliceIs
<1> QED BY <1>1, Zenon DEF IsSlice

(* Two texts of one length with the same characters are one text.          *)

(* Two texts of one length with the same characters are one text.           *)
LEMMA SameText ==
  ASSUME NEW s \in Text, NEW t \in Text, Len(s) = Len(t), \A i \in 1..Len(s) : s[i] = t[i]
  PROVE  s = t
BY DEF Text

(* A text that is what a slice finds has its place in the text searched.   *)
LEMMA SliceFound ==
  ASSUME NEW t \in Text, NEW s \in Text, NEW a \in Nat, Slice(t, a, a + Len(s)) = s, s # <<>>
  PROVE  a + Len(s) <= Len(t) /\ \A i \in 1..Len(s) : s[i] = t[a + i]
<1>1. Len(t) \in Nat /\ Len(s) \in Nat /\ Len(s) # 0 /\ t \in Seq(Characters)
  BY DEF Text
<1>2. Min({a + Len(s), Len(t)}) = IF a + Len(s) <= Len(t) THEN a + Len(s) ELSE Len(t)
  <2>1. a + Len(s) \in Int /\ Len(t) \in Int
    BY <1>1
  <2> QED BY <2>1, MinMaxOfTwo
<1> DEFINE m == Min({a + Len(s), Len(t)})
<1>3. s = SubSeq(t, a + 1, m)
  BY DEF Slice
<1> HIDE DEF m
<1>4. m \in Nat /\ m <= Len(t) /\ m <= a + Len(s)
  BY <1>1, <1>2 DEF m
<1>5. Len(SubSeq(t, a + 1, m)) = IF a + 1 <= m THEN m - a ELSE 0
  BY <1>1, <1>4
<1>6. m = a + Len(s)
  BY <1>1, <1>3, <1>4, <1>5
<1>7. a + Len(s) <= Len(t)
  BY <1>4, <1>6
<1>8. \A i \in 1..Len(s) : Slice(t, a, a + Len(s))[i] = t[a + i]
  <2> DEFINE b == a + Len(s)
  <2>1. b \in Nat /\ a <= b /\ b <= Len(t) /\ b - a = Len(s)
    BY <1>1, <1>7
  <2> HIDE DEF b
  <2>2. \A i \in 1..(b - a) : Slice(t, a, b)[i] = t[a + i]
    BY <2>1, SliceIs
  <2> QED BY <2>1, <2>2 DEF b
<1> QED BY <1>1, <1>7, <1>8

(* What a span says: a page, an interval on it, and the page's text.       *)
SpanSet == [page : Nat, from : Nat, to : Nat, hash : Text]

(* The part of an interval that lies on page k, field by field.             *)
LEMMA OverlapIs ==
  ASSUME NEW pages \in Seq(Text), NEW k \in 1..Len(pages), NEW a \in Int, NEW b \in Int
  PROVE  LET s == Overlap(pages, k, a, b)
         IN  /\ s.page = k /\ s.hash = pages[k] /\ s.from \in Nat /\ s.to \in Int
             /\ s.from = (IF a >= PageStart(pages, k) THEN a ELSE PageStart(pages, k))
                           - PageStart(pages, k)
             /\ s.to = (IF b <= PageStart(pages, k) + Len(pages[k]) THEN b
                        ELSE PageStart(pages, k) + Len(pages[k])) - PageStart(pages, k)
             /\ NonEmpty(s) => s \in SpanSet
             /\ NonEmpty(s) <=> s.from < s.to
<1> DEFINE p == pages[k]  S == PageStart(pages, k)  m == Max({a, S})  n == Min({b, S + Len(p)})
<1>1. p \in Text /\ Len(p) \in Nat /\ k \in Nat
  BY DEF Text
<1>2. S \in Nat
  <2>1. k \in 1..(Len(pages) + 1)
    OBVIOUS
  <2> QED BY <2>1, PageStairs
<1> HIDE DEF p, S
<1>3. m = IF a >= S THEN a ELSE S
  <2>1. S \in Int
    BY <1>2
  <2> QED BY <2>1, MinMaxOfTwo
<1>4. n = IF b <= S + Len(p) THEN b ELSE S + Len(p)
  <2>1. S + Len(p) \in Int
    BY <1>1, <1>2
  <2> QED BY <2>1, MinMaxOfTwo
<1> HIDE DEF m, n
<1>5. Overlap(pages, k, a, b) = [page |-> k, from |-> m - S, to |-> n - S, hash |-> p]
  BY DEF Overlap, SpanOnPage, p, S, m, n
<1> DEFINE s == Overlap(pages, k, a, b)
<1>6. s.page = k /\ s.hash = p /\ s.from = m - S /\ s.to = n - S
  BY <1>5
<1>7. m - S \in Nat /\ n - S \in Int
  BY <1>1, <1>2, <1>3, <1>4
<1>8. NonEmpty(s) <=> m - S < n - S
  BY <1>6 DEF NonEmpty
<1>9. NonEmpty(s) => s \in SpanSet
  <2> SUFFICES ASSUME NonEmpty(s) PROVE s \in SpanSet
    OBVIOUS
  <2>1. n - S \in Nat
    BY <1>7, <1>8
  <2> QED BY <1>1, <1>5, <1>7, <2>1 DEF SpanSet
<1> HIDE DEF s
<1> QED BY <1>3, <1>4, <1>6, <1>7, <1>8, <1>9 DEF s, S, p

(* The spans of an interval are its non-empty overlaps with the pages, in  *)
(* the order of the pages.                                                 *)
AreSpans(spans, pages, a, b) ==
  /\ spans \in Seq(SpanSet)
  /\ \A n \in 1..Len(spans) : /\ spans[n].page \in 1..Len(pages)
                               /\ spans[n] = Overlap(pages, spans[n].page, a, b)
                               /\ NonEmpty(spans[n])
  /\ \A k \in 1..Len(pages) : NonEmpty(Overlap(pages, k, a, b)) =>
       \E n \in 1..Len(spans) : spans[n] = Overlap(pages, k, a, b)
  /\ \A m, n \in 1..Len(spans) : m < n => spans[m].page < spans[n].page

(* The spans of an interval are its overlaps with the pages, those that are *)
(* not empty.                                                               *)
LEMMA SpansAre ==
  ASSUME NEW pages \in Seq(Text), NEW a \in Int, NEW b \in Int
  PROVE  AreSpans(Spans(pages, a, b), pages, a, b)
<1> DEFINE over == [k \in DOMAIN pages |-> Overlap(pages, k, a, b)]
           K == {k \in DOMAIN pages : NonEmpty(over[k])}
           spans == Picked(over, K)
<1>1. Spans(pages, a, b) = spans
  BY DEF Spans
<1>2. DOMAIN pages = 1..Len(pages) /\ Len(pages) \in Nat
  OBVIOUS
<1>3. K \subseteq 1..Len(pages) /\ \A k \in K : over[k] = Overlap(pages, k, a, b)
          /\ NonEmpty(over[k])
  BY <1>2
<1>4. \A k \in K : over[k] \in SpanSet /\ over[k].page = k
  BY <1>3, OverlapIs
<1>5. \A k \in 1..Len(pages) : NonEmpty(Overlap(pages, k, a, b)) =>
          k \in K /\ over[k] = Overlap(pages, k, a, b)
  BY <1>2
<1> HIDE DEF K, over
<1>6. K \in SUBSET Int /\ IsFiniteSet(K)
  <2>1. IsFiniteSet(1..Len(pages))
    BY <1>2, FS_Interval
  <2>2. IsFiniteSet(K)
    BY <1>3, <2>1, FS_Subset
  <2> QED BY <1>3, <2>2
<1> DEFINE N == Cardinality(K)  q == Ascending(K)
<1>7. spans \in Seq(SpanSet)
  BY <1>4, <1>6, PickedIsSeq
<1>8. /\ Len(spans) = N /\ N \in Nat
      /\ spans = [n \in 1..N |-> over[q[n]]]
  BY <1>6, PickedEnumerates, AscendingEnumerates
<1>9. /\ q \in [1..N -> K]
      /\ \A m, n \in 1..N : m < n => q[m] < q[n]
      /\ \A k \in K : \E n \in 1..N : q[n] = k
  BY <1>6, AscendingEnumerates
<1> HIDE DEF N, q, spans
<1>10. \A n \in 1..N : spans[n] = over[q[n]] /\ spans[n].page = q[n] /\ q[n] \in K
  BY <1>4, <1>8, <1>9
<1>11. ASSUME NEW n \in 1..N
       PROVE  /\ spans[n].page \in 1..Len(pages)
              /\ spans[n] = Overlap(pages, spans[n].page, a, b)
              /\ NonEmpty(spans[n])
  BY <1>3, <1>10
<1>12. ASSUME NEW k \in 1..Len(pages), NonEmpty(Overlap(pages, k, a, b))
       PROVE  \E n \in 1..N : spans[n] = Overlap(pages, k, a, b)
  BY <1>5, <1>9, <1>10, <1>12
<1>13. \A m, n \in 1..N : m < n => spans[m].page < spans[n].page
  BY <1>9, <1>10
<1>14. AreSpans(spans, pages, a, b)
  BY <1>7, <1>8, <1>11, <1>12, <1>13 DEF AreSpans
<1> QED BY <1>1, <1>14

(* The spans of an interval are spans.                                      *)
LEMMA SpansTyped ==
  ASSUME NEW pages \in Seq(Text), NEW a \in Int, NEW b \in Int
  PROVE  Spans(pages, a, b) \in Seq(SpanSet)
<1> QED BY SpansAre DEF AreSpans

(* Each span of an interval is its overlap with one page.                   *)
LEMMA SpanIs ==
  ASSUME NEW pages \in Seq(Text), NEW a \in Int, NEW b \in Int,
         NEW n \in 1..Len(Spans(pages, a, b)), NEW s, s = Spans(pages, a, b)[n]
  PROVE  s.page \in 1..Len(pages) /\ s = Overlap(pages, s.page, a, b) /\ NonEmpty(s)
<1> QED BY SpansAre DEF AreSpans

(* A page that the interval meets has its span.                             *)
LEMMA SpanThere ==
  ASSUME NEW pages \in Seq(Text), NEW a \in Int, NEW b \in Int,
         NEW k \in 1..Len(pages), NonEmpty(Overlap(pages, k, a, b))
  PROVE  \E n \in 1..Len(Spans(pages, a, b)) : Spans(pages, a, b)[n] = Overlap(pages, k, a, b)
<1> QED BY SpansAre DEF AreSpans

(* A character of a page is inside the spans of an interval exactly when   *)
(* its place in the joined text is inside the interval.                    *)
OnSpan(span, k, x) == span.page = k /\ span.from <= x /\ x < span.to

(* A place of a page is in a span of an interval exactly when the interval  *)
(* holds it.                                                                *)
LEMMA SpansHold ==
  ASSUME NEW pages \in Seq(Text), NEW a \in Int, NEW b \in Int,
         NEW k \in 1..Len(pages), NEW x \in 0..(Len(pages[k]) - 1)
  PROVE  (\E n \in 1..Len(Spans(pages, a, b)) : OnSpan(Spans(pages, a, b)[n], k, x))
           <=> (a <= PageStart(pages, k) + x /\ PageStart(pages, k) + x < b)
<1> DEFINE spans == Spans(pages, a, b)  S == PageStart(pages, k)  s == Overlap(pages, k, a, b)
<1>1. S \in Nat /\ Len(pages[k]) \in Nat /\ x \in Nat
  <2>1. k \in 1..(Len(pages) + 1) /\ pages[k] \in Text
    OBVIOUS
  <2>2. Len(pages[k]) \in Nat
    BY <2>1 DEF Text
  <2> QED BY <2>1, <2>2, PageStairs
<1>2. /\ s.from \in Nat /\ s.to \in Int /\ s.page = k
      /\ s.from = (IF a >= S THEN a ELSE S) - S
      /\ s.to = (IF b <= S + Len(pages[k]) THEN b ELSE S + Len(pages[k])) - S
      /\ NonEmpty(s) <=> s.from < s.to
  <2>1. s.from \in Nat /\ s.to \in Int /\ s.page = k /\ (NonEmpty(s) <=> s.from < s.to)
    BY OverlapIs
  <2>2. s.from = (IF a >= S THEN a ELSE S) - S
    BY OverlapIs
  <2>3. s.to = (IF b <= S + Len(pages[k]) THEN b ELSE S + Len(pages[k])) - S
    BY OverlapIs
  <2> QED BY <2>1, <2>2, <2>3
<1>3. /\ \A n \in 1..Len(spans) : spans[n] = Overlap(pages, spans[n].page, a, b)
      /\ NonEmpty(s) => \E n \in 1..Len(spans) : spans[n] = s
  <2>1. AreSpans(spans, pages, a, b)
    BY SpansAre
  <2> HIDE DEF spans
  <2> QED BY <2>1 DEF AreSpans
<1> HIDE DEF spans, S, s
<1>4. ASSUME NEW n \in 1..Len(spans), OnSpan(spans[n], k, x) PROVE a <= S + x /\ S + x < b
  <2>1. spans[n] = s /\ s.from <= x /\ x < s.to
    BY <1>3, <1>4 DEF OnSpan, s
  <2> DEFINE f == s.from  t == s.to  L == Len(pages[k])
  <2>2. /\ f \in Nat /\ t \in Int /\ L \in Nat /\ f <= x /\ x < t
        /\ f = (IF a >= S THEN a ELSE S) - S /\ t = (IF b <= S + L THEN b ELSE S + L) - S
    BY <1>1, <1>2, <2>1
  <2> HIDE DEF f, t, L
  <2> QED BY <1>1, <2>2
<1>5. ASSUME a <= S + x, S + x < b PROVE \E n \in 1..Len(spans) : OnSpan(spans[n], k, x)
  <2>1. x < Len(pages[k])
    BY <1>1
  <2>2. s.from <= x /\ x < s.to /\ s.from < s.to
    BY <1>1, <1>2, <1>5, <2>1
  <2> QED BY <1>2, <1>3, <2>2 DEF OnSpan
<1> QED BY <1>4, <1>5 DEF spans, S

(* What Locate returns is a place of the text with those spans.            *)
LEMMA LocateIs ==
  ASSUME NEW pages \in Seq(Text), NEW t \in Text, NEW spans \in Seq(SpanSet),
         Locate(pages, t, spans) # None
  PROVE  /\ Locate(pages, t, spans) \in Nat
         /\ Slice(Joined(pages), Locate(pages, t, spans), Locate(pages, t, spans) + Len(t)) = t
         /\ Spans(pages, Locate(pages, t, spans), Locate(pages, t, spans) + Len(t)) = spans
         /\ spans # <<>>
<1> DEFINE anchor == PageStart(pages, spans[1].page) + spans[1].from
           places == PlacesBefore(anchor, pages, t, spans)
<1>1. spans # <<>> /\ spans[1].page \in DOMAIN pages /\ places # {}
          /\ Locate(pages, t, spans) = Max(places)
  BY DEF Locate, LastPlace
<1>2. anchor \in Int /\ Len(t) \in Nat
  <2>1. spans[1] \in SpanSet
    BY <1>1
  <2>2. spans[1].from \in Int /\ spans[1].page \in 1..(Len(pages) + 1)
    BY <1>1, <2>1 DEF SpanSet
  <2>3. PageStart(pages, spans[1].page) \in Int
    BY <2>2, PageStartIs
  <2>4. Len(t) \in Nat
    BY DEF Text
  <2> QED BY <2>2, <2>3, <2>4
<1> HIDE DEF anchor
<1>3. \A p \in places : /\ p \in Int /\ p <= anchor /\ p >= 0
                        /\ Slice(Joined(pages), p, p + Len(t)) = t
                        /\ Spans(pages, p, p + Len(t)) = spans
  BY <1>2 DEF PlacesBefore, Leads
<1> HIDE DEF places
<1>4. places \in SUBSET Int
  BY <1>3
<1>5. Max(places) \in places
  BY <1>1, <1>2, <1>3, <1>4, MaxIs
<1> QED BY <1>1, <1>3, <1>5

(* A place that is on no page is a line break between two pages.           *)
LEMMA OffPages ==
  ASSUME NEW pages \in Seq(Text), NEW p \in Nat, p < Len(Joined(pages)),
         \A k \in 1..Len(pages) :
           ~(PageStart(pages, k) <= p /\ p < PageStart(pages, k) + Len(pages[k]))
  PROVE  Joined(pages)[p + 1] = NL
<1> DEFINE N == Len(pages)  S(k) == PageStart(pages, k)
<1>1. N \in Nat /\ \A k \in 1..N : Len(pages[k]) \in Nat /\ k \in 1..(N + 1)
  BY DEF Text
<1>2. N # 0
  <2>1. CASE N = 0
    <3>1. pages = <<>>
      BY <2>1
    <3>2. Len(Joined(pages)) = 0
      BY <3>1, JoinedIs
    <3> QED BY <3>2
  <2> QED BY <2>1
<1>3. Len(Joined(pages)) = S(N + 1) - 1 /\ S(N + 1) \in Nat
  <2>1. pages # <<>> /\ N + 1 \in 1..(N + 1)
    BY <1>1, <1>2
  <2>2. Len(Joined(pages)) = IF pages = <<>> THEN 0 ELSE S(N + 1) - 1
    BY JoinedIs
  <2> QED BY <2>1, <2>2, PageStairs
<1>4. /\ \A q \in 0..(S(N + 1) - 1) : \E k \in 1..N : S(k) <= q /\ q <= S(k) + Len(pages[k])
      /\ \A k \in 1..(N + 1) : S(k) \in Nat
  BY PageStairs
<1>5. \A k \in 1..N : S(k + 1) = S(k) + Len(pages[k]) + 1
  BY PageStartIs
<1>6. \A k \in 2..N : Joined(pages)[S(k)] = NL
  BY JoinedIs
<1> HIDE DEF N, S
<1>7. p \in 0..(S(N + 1) - 1)
  BY <1>3
<1>8. PICK k \in 1..N : S(k) <= p /\ p <= S(k) + Len(pages[k])
  BY <1>4, <1>7
<1>9. S(k) \in Nat /\ Len(pages[k]) \in Nat
  BY <1>1, <1>4
<1>10. p = S(k) + Len(pages[k])
  <2>1. ~(S(k) <= p /\ p < S(k) + Len(pages[k]))
    BY DEF N, S
  <2> QED BY <1>8, <1>9, <2>1
<1>11. p + 1 = S(k + 1)
  BY <1>5, <1>9, <1>10
<1>12. k # N
  BY <1>3, <1>11
<1>13. k + 1 \in 2..N
  BY <1>1, <1>12
<1> QED BY <1>6, <1>11, <1>13

(* An interval of the joined text that meets a page is located by its text *)
(* and its spans: before the first span it has nothing but line breaks.    *)
LEMMA LocateFinds ==
  ASSUME NEW pages \in Seq(Text), NEW a \in Nat, NEW b \in Nat, a <= b, b <= Len(Joined(pages)),
         NEW t, t = Slice(Joined(pages), a, b),
         NEW spans, spans = Spans(pages, a, b), spans # <<>>
  PROVE  Locate(pages, t, spans) # None
<1> DEFINE J == Joined(pages)
           k == spans[1].page
           S == PageStart(pages, k)
           anchor == S + spans[1].from
           places == PlacesBefore(anchor, pages, t, spans)
<1>1. J \in Text /\ Len(J) \in Nat
  <2>1. J \in Text
    BY JoinedIs
  <2> QED BY <2>1 DEF Text
<1>2. t \in Text /\ Len(t) = b - a /\ \A i \in 1..(b - a) : t[i] = J[a + i]
  BY <1>1, SliceIs
<1>3. /\ spans \in Seq(SpanSet)
      /\ \A n \in 1..Len(spans) : spans[n].page \in 1..Len(pages)
                                   /\ spans[n] = Overlap(pages, spans[n].page, a, b)
                                   /\ NonEmpty(spans[n])
      /\ \A l \in 1..Len(pages) : NonEmpty(Overlap(pages, l, a, b)) =>
           \E n \in 1..Len(spans) : spans[n] = Overlap(pages, l, a, b)
      /\ \A m, n \in 1..Len(spans) : m < n => spans[m].page < spans[n].page
  <2>1. AreSpans(spans, pages, a, b)
    BY SpansAre
  <2> QED BY <2>1 DEF AreSpans
<1>4. 1 \in 1..Len(spans)
  BY <1>3
<1>5. /\ k \in 1..Len(pages) /\ spans[1] = Overlap(pages, k, a, b)
      /\ spans[1].from < spans[1].to /\ spans[1].from \in Nat /\ spans[1].to \in Int
  <2>1. k \in 1..Len(pages) /\ spans[1] = Overlap(pages, k, a, b) /\ NonEmpty(spans[1])
    BY <1>3, <1>4
  <2>2. spans[1].from \in Nat /\ spans[1].to \in Int
    BY <2>1, OverlapIs
  <2> QED BY <2>1, <2>2 DEF NonEmpty
<1>6. S \in Nat /\ Len(pages[k]) \in Nat
  <2>1. k \in 1..(Len(pages) + 1) /\ pages[k] \in Text
    BY <1>5
  <2>2. Len(pages[k]) \in Nat
    BY <2>1 DEF Text
  <2> QED BY <2>1, <2>2, PageStairs
<1>7. /\ spans[1].from = (IF a >= S THEN a ELSE S) - S
      /\ spans[1].to = (IF b <= S + Len(pages[k]) THEN b ELSE S + Len(pages[k])) - S
  <2>1. spans[1].from = (IF a >= S THEN a ELSE S) - S
    BY <1>5, OverlapIs
  <2>2. spans[1].to = (IF b <= S + Len(pages[k]) THEN b ELSE S + Len(pages[k])) - S
    BY <1>5, OverlapIs, SMTT(30)
  <2> QED BY <2>1, <2>2
<1>8. Locate(pages, t, spans) = LastPlace(places)
  <2>1. k \in DOMAIN pages
    BY <1>5
  <2> QED BY <2>1 DEF Locate
<1> DEFINE F == spans[1].from  E == spans[1].to
<1> HIDE DEF k, S
<1>14. anchor = S + F /\ F < E /\ F \in Nat /\ E \in Int
  BY <1>5
<1>15. /\ F = (IF a >= S THEN a ELSE S) - S
       /\ E = (IF b <= S + Len(pages[k]) THEN b ELSE S + Len(pages[k])) - S
  BY <1>7
<1> HIDE DEF anchor, F, E
<1>16. anchor \in Nat /\ a <= anchor /\ anchor < b /\ S <= anchor /\ anchor < S + Len(pages[k])
  BY <1>6, <1>14, <1>15
<1>9. ASSUME NEW p \in Nat, a <= p, p < anchor,
             NEW l \in 1..Len(pages)
      PROVE  ~(PageStart(pages, l) <= p /\ p < PageStart(pages, l) + Len(pages[l]))
  <2> SUFFICES ASSUME PageStart(pages, l) <= p, p < PageStart(pages, l) + Len(pages[l])
               PROVE  FALSE
    OBVIOUS
  <2> DEFINE L == PageStart(pages, l)
  <2>1. L \in Nat /\ Len(pages[l]) \in Nat
    <3>1. l \in 1..(Len(pages) + 1) /\ pages[l] \in Text
      OBVIOUS
    <3>2. Len(pages[l]) \in Nat
      BY <3>1 DEF Text
    <3> QED BY <3>1, <3>2, PageStairs
  <2> DEFINE x == p - L
  <2>2. x \in 0..(Len(pages[l]) - 1) /\ a <= L + x /\ L + x < b
    <3> HIDE DEF L
    <3> QED BY <1>9, <1>16, <2>1, SMTT(30) DEF L
  <2>3. PICK n \in 1..Len(spans) : OnSpan(spans[n], l, x)
    <3> HIDE DEF x, L
    <3>1. a <= PageStart(pages, l) + x /\ PageStart(pages, l) + x < b
      BY <2>2 DEF L
    <3> QED BY <2>2, <3>1, SpansHold
  <2>4. spans[n].page = l
    BY <2>3 DEF OnSpan
  <2>5. CASE n = 1
    <3>1. l = k /\ F <= x
      BY <2>3, <2>4, <2>5 DEF OnSpan, k, F
    <3>2. L = S
      BY <3>1 DEF S
    <3> HIDE DEF L
    <3> QED BY <1>6, <1>9, <1>14, <2>1, <3>1, <3>2, SMTT(30)
  <2>6. CASE n # 1
    <3>1. k < l /\ k \in 1..Len(pages) /\ l \in 1..(Len(pages) + 1)
      BY <1>3, <1>4, <1>5, <2>4, <2>6 DEF k
    <3>2. S + Len(pages[k]) + 1 <= L
      BY <3>1, PageStairs DEF S
    <3> HIDE DEF L
    <3> QED BY <1>6, <1>9, <1>16, <2>1, <2>2, <3>2, SMTT(30)
  <2> QED BY <2>5, <2>6
<1>10. /\ anchor \in Nat /\ a <= anchor /\ anchor < b
       /\ \A i \in 1..(anchor - a) : t[i] = NL
  <2>1. anchor \in Nat /\ a <= anchor /\ anchor < b
    BY <1>16
  <2>2. ASSUME NEW i \in 1..(anchor - a) PROVE t[i] = NL
    <3> DEFINE p == a + i - 1
    <3>1. p \in Nat /\ a <= p /\ p < anchor /\ i \in 1..(b - a) /\ p + 1 = a + i /\ p < Len(J)
      BY <1>1, <2>1
    <3> HIDE DEF p, anchor
    <3>2. J[p + 1] = NL
      BY <1>9, <3>1, OffPages
    <3> QED BY <1>2, <3>1, <3>2
  <2> QED BY <2>1, <2>2
<1>11. a \in places
  <2>1. anchor - a \in Leads(t) /\ a = anchor - (anchor - a)
    BY <1>2, <1>10 DEF Leads
  <2>2. a + Len(t) = b
    BY <1>2
  <2> HIDE DEF anchor
  <2> QED BY <2>1, <2>2 DEF PlacesBefore
<1>12. \A p \in places : p \in Int /\ p <= anchor
  BY <1>10 DEF PlacesBefore, Leads
<1> HIDE DEF places
<1>13. Max(places) \in Int
  <2>1. places \in SUBSET Int /\ places # {}
    BY <1>11, <1>12
  <2>2. anchor \in Int /\ \A p \in places : p <= anchor
    BY <1>10, <1>12
  <2>3. Max(places) \in places
    BY <2>1, <2>2, MaxIs
  <2> QED BY <1>12, <2>3
<1> QED BY <1>8, <1>11, <1>13, NoneAssumption DEF LastPlace

(* The windows of a text.                                                  *)

(* Every number lies between two multiples of the step.                    *)
LEMMA StepBelow ==
  \A n \in Nat : \E k \in Nat : /\ ChunkStep * k \in Nat /\ k <= ChunkStep * k
                                /\ ChunkStep * k <= n /\ n < ChunkStep * k + ChunkStep
<1> DEFINE Below(n) == \E k \in Nat : /\ ChunkStep * k \in Nat /\ k <= ChunkStep * k
                                      /\ ChunkStep * k <= n /\ n < ChunkStep * k + ChunkStep
           T == {n \in Nat : Below(n)}
<1>1. ChunkStep \in Nat /\ ChunkStep >= 1
  BY ChunkAssumption
<1>2. 0 \in T
  <2>1. ChunkStep * 0 = 0
    BY <1>1
  <2> QED BY <1>1, <2>1
<1>3. ASSUME NEW n \in Nat, n \in T PROVE n + 1 \in T
  <2>1. PICK k \in Nat : /\ ChunkStep * k \in Nat /\ k <= ChunkStep * k
                         /\ ChunkStep * k <= n /\ n < ChunkStep * k + ChunkStep
    BY <1>3
  <2>2. CASE n + 1 < ChunkStep * k + ChunkStep
    BY <1>1, <2>1, <2>2
  <2>3. CASE ~(n + 1 < ChunkStep * k + ChunkStep)
    <3>1. ChunkStep * (k + 1) = ChunkStep * k + ChunkStep
      BY <1>1, <2>1
    <3>2. /\ ChunkStep * (k + 1) \in Nat /\ k + 1 <= ChunkStep * (k + 1)
          /\ ChunkStep * (k + 1) <= n + 1 /\ n + 1 < ChunkStep * (k + 1) + ChunkStep
      BY <1>1, <2>1, <2>3, <3>1
    <3> QED BY <2>1, <3>2
  <2> QED BY <2>2, <2>3
<1> HIDE DEF T
<1>4. \A n \in Nat : n \in T
  BY <1>2, <1>3, NatSetInduction
<1> QED BY <1>4 DEF T

(* A text longer than the shortest window is covered by windows that       *)
(* overlap.                                                                *)
LEMMA WindowsCover ==
  ASSUME Overlapping, NEW n \in Nat, MinChunkLen < n, NEW p \in Nat, p < n
  PROVE  \E o \in Windows(n) : o <= p /\ p < WindowEnd(n, o)
<1>1. /\ ChunkStep \in Nat /\ ChunkStep >= 1 /\ ChunkSize \in Nat /\ MinChunkLen \in Nat
      /\ MinChunkLen <= ChunkStep /\ ChunkStep + MinChunkLen <= ChunkSize
  BY ChunkAssumption DEF Overlapping
<1>2. PICK k \in Nat : /\ ChunkStep * k \in Nat /\ k <= ChunkStep * k
                       /\ ChunkStep * k <= p /\ p < ChunkStep * k + ChunkStep
  BY StepBelow
<1> DEFINE o == ChunkStep * k
<1>3. o \in Offsets(n)
  <2>1. k \in 0..n /\ o \in 0..(n - 1)
    BY <1>2
  <2> QED BY <2>1 DEF Offsets
<1>4. CASE WindowEnd(n, o) - o > MinChunkLen
  <2>1. o \in Windows(n)
    BY <1>3, <1>4 DEF Windows
  <2>2. p < WindowEnd(n, o)
    BY <1>1, <1>2 DEF WindowEnd
  <2> QED BY <1>2, <2>1, <2>2
<1>5. CASE ~(WindowEnd(n, o) - o > MinChunkLen)
  <2>1. o \in Nat /\ WindowEnd(n, o) = n /\ n - o <= MinChunkLen
    <3> HIDE DEF o
    <3>1. o \in Nat
      BY <1>2 DEF o
    <3> QED BY <1>1, <1>5, <3>1 DEF WindowEnd
  <2>2. k # 0
    <3>1. k = 0 => o = 0
      BY <1>1
    <3> HIDE DEF o
    <3> QED BY <1>1, <2>1, <3>1
  <2> DEFINE q == ChunkStep * (k - 1)
  <2>3. q = o - ChunkStep
    BY <1>1, <1>2
  <2>4. k - 1 \in Nat /\ k <= o /\ o <= p
    BY <1>2, <2>2
  <2>5. q \in Nat
    <3>1. k - 1 \in Nat
      BY <2>4
    <3> QED BY <1>1, <3>1
  <2> HIDE DEF o, q
  <2>6. k - 1 \in 0..n /\ q \in 0..(n - 1)
    BY <1>1, <2>1, <2>3, <2>4, <2>5
  <2>7. q \in Offsets(n)
    BY <2>6 DEF Offsets, q
  <2>8. WindowEnd(n, q) = n
    BY <1>1, <2>1, <2>3, <2>5 DEF WindowEnd
  <2>9. q \in Windows(n)
    BY <1>1, <2>1, <2>3, <2>4, <2>7, <2>8 DEF Windows
  <2>10. q <= p /\ p < WindowEnd(n, q)
    BY <1>1, <2>1, <2>3, <2>4, <2>8
  <2> QED BY <2>9, <2>10
<1> QED BY <1>4, <1>5

(* A window starts in the text, is not empty and ends in the text.          *)
LEMMA WindowIs ==
  ASSUME NEW n \in Nat, NEW o \in Windows(n)
  PROVE  /\ o \in Nat /\ o < n
         /\ WindowEnd(n, o) \in Nat /\ o < WindowEnd(n, o) /\ WindowEnd(n, o) <= n
         /\ MinChunkLen < n
<1>1. ChunkSize \in Nat /\ ChunkSize >= 1 /\ MinChunkLen \in Nat
  BY ChunkAssumption
<1>2. o \in 0..(n - 1) /\ WindowEnd(n, o) - o > MinChunkLen
  BY DEF Windows, Offsets
<1> QED BY <1>1, <1>2 DEF WindowEnd

(* The reference list that is left out is a tail.                          *)
LEMMA WithoutReferencesIs ==
  ASSUME NEW t \in Text
  PROVE  /\ WithoutReferences(t) \in Text
         /\ Len(WithoutReferences(t)) <= Len(t)
         /\ \A i \in 1..Len(WithoutReferences(t)) : WithoutReferences(t)[i] = t[i]
<1>1. Len(t) \in Nat /\ t \in Seq(Characters)
  BY DEF Text
<1>2. CASE Matches(t) = {}
  <2>1. WithoutReferences(t) = t
    BY <1>2 DEF WithoutReferences
  <2> QED BY <1>1, <2>1
<1>3. CASE Matches(t) # {}
  <2> DEFINE m == Max(Matches(t))
  <2>1. Matches(t) \subseteq 1..Len(t)
    BY DEF Matches
  <2>2. m \in Matches(t)
    <3>1. Matches(t) \in SUBSET Int /\ Len(t) \in Int /\ \A y \in Matches(t) : y <= Len(t)
      BY <1>1, <2>1
    <3> QED BY <1>3, <3>1, MaxIs
  <2>3. m \in 1..Len(t) /\ WithoutReferences(t) = SubSeq(t, 1, m - 1)
    BY <1>3, <2>1, <2>2 DEF WithoutReferences
  <2> HIDE DEF m
  <2>4. SubSeq(t, 1, m - 1) \in Seq(Characters)
    BY <1>1, <2>3
  <2>5. Len(SubSeq(t, 1, m - 1)) = m - 1
    BY <1>1, <2>3
  <2>6. \A i \in 1..(m - 1) : SubSeq(t, 1, m - 1)[i] = t[i]
    BY <1>1, <2>3
  <2> QED BY <1>1, <2>3, <2>4, <2>5, <2>6 DEF Text
<1> QED BY <1>2, <1>3

(* The chunks of a document.                                               *)

(* A document whose pages are texts.                                        *)
IsDocument(doc) == doc.pages \in Seq(Text)

(* The text of a document that is cut into windows.                         *)
Indexed(doc) == WithoutReferences(Joined(doc.pages))

(* A chunk has all its fields, and stands at a place of the joined text    *)
(* with its text and its spans.                                            *)
IsChunk(c) ==
  /\ c = [id |-> c.id, file |-> c.file, hash |-> c.hash, paper |-> c.paper, spans |-> c.spans,
          text |-> c.text, previous |-> c.previous, next |-> c.next]
  /\ c.id = [file |-> c.id.file, hash |-> c.id.hash, base |-> c.id.base, cut |-> c.id.cut,
             spans |-> c.id.spans, text |-> c.id.text]
  /\ c.text \in Text
  /\ c.spans \in Seq(SpanSet)

(* The chunk c is the interval a..b of the joined pages, with its spans.    *)
StandsAt(pages, c, a, b) ==
  /\ c.text = Slice(Joined(pages), a, b)
  /\ c.spans = Spans(pages, a, b)

(* The i-th window of a document.                                           *)
WindowOf(doc, i) == Ascending(Windows(Len(Indexed(doc))))[i]

(* The chunks of a document stand for its windows, one to one.             *)
LEMMA AdaptedIs ==
  ASSUME NEW doc, IsDocument(doc), Adapted(doc) # None, Adapted(doc) # <<>>
  PROVE  /\ Len(Adapted(doc)) \in Nat /\ DOMAIN Adapted(doc) = 1..Len(Adapted(doc))
         /\ Adapted(doc) = [i \in 1..Len(Adapted(doc)) |-> Adapted(doc)[i]]
         /\ MinChunkLen < Len(Indexed(doc))
         /\ Len(Indexed(doc)) <= Len(Joined(doc.pages))
         /\ \A i \in 1..Len(Adapted(doc)) :
              /\ Adapted(doc)[i].file = doc.file
              /\ Adapted(doc)[i].hash = doc.hash
              /\ Adapted(doc)[i].paper = doc.paper
              /\ Adapted(doc)[i].spans # <<>>
              /\ IsChunk(Adapted(doc)[i])
              /\ Adapted(doc)[i].id =
                   [file |-> doc.file, hash |-> doc.hash, base |-> <<>>, cut |-> <<>>,
                    spans |-> Adapted(doc)[i].spans, text |-> Adapted(doc)[i].text]
              /\ WindowOf(doc, i) \in Windows(Len(Indexed(doc)))
              /\ StandsAt(doc.pages, Adapted(doc)[i], WindowOf(doc, i),
                          WindowEnd(Len(Indexed(doc)), WindowOf(doc, i)))
         /\ \A o \in Windows(Len(Indexed(doc))) : \E i \in 1..Len(Adapted(doc)) :
              WindowOf(doc, i) = o
         /\ Len(Adapted(doc)) = Cardinality(Windows(Len(Indexed(doc))))
<1> DEFINE text == Indexed(doc)
           n == Len(text)
           W == Windows(n)
           offsets == Ascending(W)
           drafts == Drafts(doc, text, offsets)
           J == Joined(doc.pages)
<1>1. J \in Text /\ Len(J) \in Nat
  <2>1. J \in Text
    BY JoinedIs DEF IsDocument
  <2> QED BY <2>1 DEF Text
<1> HIDE DEF J
<1>2. /\ text \in Text /\ n \in Nat /\ n <= Len(J)
      /\ \A i \in 1..n : text[i] = J[i]
  <2>1. text = WithoutReferences(J)
    BY DEF Indexed, J
  <2>2. text \in Text /\ n <= Len(J) /\ \A i \in 1..n : text[i] = J[i]
    BY <1>1, <2>1, WithoutReferencesIs
  <2> QED BY <2>2 DEF Text
<1>3. Adapted(doc) = AllOnPages(drafts)
  BY DEF Adapted, WindowsOf, Indexed, J
<1> HIDE DEF text
<1>4. /\ W \in SUBSET Int /\ IsFiniteSet(W)
      /\ \A o \in W : /\ o \in Nat /\ o < n /\ WindowEnd(n, o) \in Nat
                      /\ o < WindowEnd(n, o) /\ WindowEnd(n, o) <= n /\ MinChunkLen < n
  <2>1. W \subseteq 0..(n - 1)
    BY DEF Windows, Offsets
  <2>2. IsFiniteSet(0..(n - 1))
    BY <1>2, FS_Interval
  <2>3. \A o \in W : /\ o \in Nat /\ o < n /\ WindowEnd(n, o) \in Nat
                      /\ o < WindowEnd(n, o) /\ WindowEnd(n, o) <= n /\ MinChunkLen < n
    BY <1>2, WindowIs
  <2> QED BY <2>1, <2>2, <2>3, FS_Subset
<1>17. doc.pages \in Seq(Text)
  BY DEF IsDocument
<1>18. \A i : offsets[i] = WindowOf(doc, i)
  BY DEF WindowOf, text
<1> HIDE DEF n, W
<1> DEFINE N == Cardinality(W)
<1>5. /\ N \in Nat
      /\ offsets \in [1..N -> W]
      /\ \A o \in W : \E k \in 1..N : offsets[k] = o
  BY <1>4, AscendingEnumerates
<1> HIDE DEF offsets, N
<1> DEFINE D(i) == Draft(doc, Spans(doc.pages, offsets[i], WindowEnd(n, offsets[i])),
                         Slice(text, offsets[i], WindowEnd(n, offsets[i])))
<1>6. drafts = [i \in 1..N |-> D(i)]
  BY <1>5 DEF Drafts, n
<1>7. ASSUME NEW o \in W
      PROVE  Slice(text, o, WindowEnd(n, o)) = Slice(J, o, WindowEnd(n, o))
  <2> DEFINE e == WindowEnd(n, o)
  <2>1. o \in Nat /\ e \in Nat /\ o <= e /\ e <= n /\ e <= Len(J) /\ n = Len(text)
    BY <1>1, <1>2, <1>4 DEF n
  <2> HIDE DEF e
  <2>2. /\ Slice(text, o, e) \in Text /\ Len(Slice(text, o, e)) = e - o
        /\ \A i \in 1..(e - o) : Slice(text, o, e)[i] = text[o + i]
    BY <1>2, <2>1, SliceIs
  <2>3. /\ Slice(J, o, e) \in Text /\ Len(Slice(J, o, e)) = e - o
        /\ \A i \in 1..(e - o) : Slice(J, o, e)[i] = J[o + i]
    BY <1>1, <2>1, SliceIs
  <2>4. \A i \in 1..(e - o) : text[o + i] = J[o + i]
    BY <1>2, <2>1
  <2>5. Slice(text, o, e) = Slice(J, o, e)
    <3> DEFINE s == Slice(text, o, e)  t == Slice(J, o, e)
    <3>1. s \in Text /\ t \in Text /\ Len(s) = Len(t) /\ \A i \in 1..Len(s) : s[i] = t[i]
      BY <2>2, <2>3, <2>4
    <3> HIDE DEF s, t
    <3> QED BY <3>1, SameText DEF s, t
  <2> QED BY <2>5 DEF e
<1> DEFINE Is(d, o) == /\ d.file = doc.file /\ d.hash = doc.hash /\ d.paper = doc.paper
                       /\ StandsAt(doc.pages, d, o, WindowEnd(n, o))
<1>8. ASSUME NEW i \in 1..N PROVE Is(D(i), offsets[i]) /\ offsets[i] \in W
  <2>1. offsets[i] \in W
    BY <1>5
  <2> QED BY <1>7, <2>1 DEF Draft, StandsAt, J
<1>19. ASSUME NEW i \in 1..N
       PROVE  /\ D(i).text \in Text /\ D(i).spans \in Seq(SpanSet)
              /\ D(i).id = [file |-> doc.file, hash |-> doc.hash, base |-> <<>>, cut |-> <<>>,
                            spans |-> D(i).spans, text |-> D(i).text]
  <2> DEFINE o == offsets[i]  e == WindowEnd(n, o)
  <2>1. o \in Nat /\ e \in Nat /\ o <= e /\ e <= n /\ n = Len(text)
    <3>1. o \in W
      BY <1>5
    <3> HIDE DEF o
    <3>2. o \in Nat /\ e \in Nat /\ o < e /\ e <= n
      BY <1>4, <3>1
    <3> HIDE DEF e
    <3> QED BY <3>2 DEF n
  <2>2. D(i).text = Slice(text, o, e) /\ D(i).spans = Spans(doc.pages, o, e)
    BY DEF Draft
  <2>3. D(i).id = [file |-> doc.file, hash |-> doc.hash, base |-> <<>>, cut |-> <<>>,
                   spans |-> D(i).spans, text |-> D(i).text]
    BY DEF Draft
  <2> HIDE DEF o, e, D
  <2>4. Slice(text, o, e) \in Text
    BY <1>2, <2>1, SliceIs
  <2>5. Spans(doc.pages, o, e) \in Seq(SpanSet)
    BY <1>17, <2>1, SpansTyped
  <2> QED BY <2>2, <2>3, <2>4, <2>5
<1> DEFINE made == AllOnPages(drafts)
<1>9. /\ \A i \in DOMAIN drafts : drafts[i].spans # <<>>
      /\ made = Chained(drafts)
  BY <1>3 DEF AllOnPages
<1>10. ASSUME NEW i \in 1..N
       PROVE  /\ made[i].file = D(i).file /\ made[i].hash = D(i).hash /\ made[i].paper = D(i).paper
              /\ made[i].spans = D(i).spans /\ made[i].text = D(i).text /\ D(i).spans # <<>>
              /\ made[i].id = D(i).id
              /\ made[i] = [id |-> made[i].id, file |-> made[i].file, hash |-> made[i].hash,
                            paper |-> made[i].paper, spans |-> made[i].spans,
                            text |-> made[i].text, previous |-> made[i].previous,
                            next |-> made[i].next]
  <2> DEFINE d == drafts[i]
  <2>1. d = D(i) /\ i \in DOMAIN drafts
    BY <1>6
  <2> HIDE DEF drafts
  <2>2. D(i) = [id |-> D(i).id, file |-> D(i).file, hash |-> D(i).hash, paper |-> D(i).paper,
                spans |-> D(i).spans, text |-> D(i).text, previous |-> None, next |-> None]
    BY DEF Draft
  <2>3. \E p, x : made[i] = [drafts[i] EXCEPT !.previous = p, !.next = x]
    <3>1. i \in DOMAIN drafts
      BY <2>1
    <3>2. made[i] = [drafts[i] EXCEPT
                       !.previous = IF i = 1 THEN None ELSE drafts[i - 1].id,
                       !.next = IF i = Len(drafts) THEN None ELSE drafts[i + 1].id]
      <4> HIDE DEF made
      <4> QED BY <1>9, <3>1 DEF Chained
    <3> HIDE DEF made
    <3> QED BY <3>2
  <2>4. PICK p, x : made[i] = [d EXCEPT !.previous = p, !.next = x]
    BY <2>3
  <2> HIDE DEF d, D
  <2>5. d.spans # <<>>
    BY <1>9, <2>1 DEF d
  <2> HIDE DEF made
  <2> QED BY <2>1, <2>2, <2>4, <2>5
<1>11. DOMAIN made = 1..N /\ Len(made) = N /\ made = [i \in 1..N |-> made[i]]
  <2>1. DOMAIN drafts = 1..N
    BY <1>6
  <2> HIDE DEF drafts
  <2>2. DOMAIN made = 1..N
    BY <1>9, <2>1 DEF Chained
  <2>3. made = [i \in 1..N |-> made[i]]
    BY <1>9, <2>1 DEF Chained
  <2> HIDE DEF made
  <2> QED BY <1>5, <2>2, <2>3
<1>12. ASSUME NEW i \in 1..N
       PROVE  /\ made[i].spans # <<>> /\ Is(made[i], WindowOf(doc, i)) /\ WindowOf(doc, i) \in W
              /\ made[i].id = [file |-> doc.file, hash |-> doc.hash, base |-> <<>>, cut |-> <<>>,
                               spans |-> made[i].spans, text |-> made[i].text]
              /\ IsChunk(made[i])
  <2>1. Is(D(i), offsets[i]) /\ offsets[i] \in W
    BY <1>8
  <2> HIDE DEF D, made
  <2>2. made[i].spans # <<>> /\ Is(made[i], offsets[i])
    BY <1>10, <2>1 DEF StandsAt
  <2>3. made[i].id = [file |-> doc.file, hash |-> doc.hash, base |-> <<>>, cut |-> <<>>,
                      spans |-> made[i].spans, text |-> made[i].text]
    BY <1>10, <1>19
  <2>4. IsChunk(made[i])
    <3>1. made[i].text \in Text /\ made[i].spans \in Seq(SpanSet)
      BY <1>10, <1>19
    <3>2. made[i].id = [file |-> made[i].id.file, hash |-> made[i].id.hash,
                        base |-> made[i].id.base, cut |-> made[i].id.cut,
                        spans |-> made[i].id.spans, text |-> made[i].id.text]
      BY <2>3
    <3> QED BY <1>10, <3>1, <3>2 DEF IsChunk
  <2> QED BY <1>18, <2>1, <2>2, <2>3, <2>4
<1>13. ASSUME NEW o \in W PROVE \E i \in 1..N : WindowOf(doc, i) = o
  BY <1>5, <1>18
<1>14. N # 0
  <2> SUFFICES ASSUME N = 0 PROVE FALSE
    OBVIOUS
  <2>1. made = <<>>
    <3>1. DOMAIN drafts = {} /\ drafts = <<>>
      BY <1>6
    <3> HIDE DEF drafts
    <3> QED BY <1>9, <3>1 DEF Chained
  <2> QED BY <1>3, <2>1
<1>15. MinChunkLen < n
  <2>1. 1 \in 1..N
    BY <1>5, <1>14
  <2>2. offsets[1] \in W
    BY <1>5, <2>1
  <2> QED BY <1>4, <2>2
<1> HIDE DEF made, drafts
<1>16. Adapted(doc) = made
  BY <1>3 DEF made
<1> QED BY <1>2, <1>5, <1>11, <1>12, <1>13, <1>15, <1>16 DEF n, W, text, J, N

(* The cuts of a chunk and the units they make.                            *)

(* The lists of cuts that a splitter may return.                            *)
CutSet == Seq(Nat \X Nat)

(* Contiguous cuts cover the text they cut.                                *)
LEMMA CutsCover ==
  ASSUME NEW cuts \in CutSet, NEW n \in Nat, Contiguous(cuts, n)
  PROVE  /\ \A i \in 1..Len(cuts) : /\ cuts[i][1] \in Nat /\ cuts[i][2] \in Nat
                                    /\ cuts[i][1] < cuts[i][2] /\ cuts[i][2] <= n
         /\ \A p \in 0..(n - 1) : \E i \in 1..Len(cuts) : cuts[i][1] <= p /\ p < cuts[i][2]
<1> DEFINE M == Len(cuts)
           off == [i \in 1..(M + 1) |-> IF i <= M THEN cuts[i][1] ELSE n]
<1>1. /\ M \in Nat /\ M >= 1
      /\ \A i \in 1..M : cuts[i][1] \in Nat /\ cuts[i][2] \in Nat
  <2>1. cuts # <<>> /\ cuts \in Seq(Nat \X Nat)
    BY DEF Contiguous, CutSet
  <2>2. \A i \in 1..M : cuts[i] \in Nat \X Nat
    BY <2>1
  <2> QED BY <2>1, <2>2
<1>2. /\ cuts[1][1] = 0 /\ cuts[M][2] = n
      /\ \A i \in 1..M : cuts[i][1] < cuts[i][2]
      /\ \A i \in 1..(M - 1) : cuts[i][2] = cuts[i + 1][1]
  <2>1. DOMAIN cuts = 1..M
    BY DEF CutSet
  <2> HIDE DEF M
  <2> QED BY <2>1 DEF Contiguous, M
<1> HIDE DEF M
<1>3. off \in [1..(M + 1) -> Int]
  BY <1>1
<1>4. ASSUME NEW i \in 1..M PROVE off[i] = cuts[i][1] /\ off[i + 1] = cuts[i][2]
  <2>1. i \in 1..(M + 1) /\ i + 1 \in 1..(M + 1) /\ i <= M
    BY <1>1
  <2>2. off[i] = cuts[i][1]
    BY <2>1
  <2>3. CASE i = M
    <3>1. ~(i + 1 <= M)
      BY <1>1, <2>3
    <3> QED BY <1>2, <2>1, <2>2, <2>3, <3>1
  <2>4. CASE i # M
    <3>1. i + 1 <= M /\ i \in 1..(M - 1)
      BY <1>1, <2>4
    <3> QED BY <1>2, <2>1, <2>2, <3>1
  <2> QED BY <2>3, <2>4
<1>5. off[1] = 0 /\ off[M + 1] = n
  <2>1. 1 \in 1..(M + 1) /\ M + 1 \in 1..(M + 1) /\ 1 <= M /\ ~(M + 1 <= M)
    BY <1>1
  <2> QED BY <1>2, <2>1
<1> HIDE DEF off
<1>6. \A i \in 1..M : off[i] <= off[i + 1]
  BY <1>1, <1>2, <1>4
<1>7. /\ \A i, j \in 1..(M + 1) : i <= j => off[i] <= off[j]
      /\ \A p \in off[1]..(off[M + 1] - 1) : \E i \in 1..M : off[i] <= p /\ p < off[i + 1]
  BY <1>1, <1>3, <1>6, Staircase
<1>8. ASSUME NEW p \in 0..(n - 1) PROVE \E i \in 1..M : cuts[i][1] <= p /\ p < cuts[i][2]
  <2>1. PICK i \in 1..M : off[i] <= p /\ p < off[i + 1]
    BY <1>5, <1>7
  <2> QED BY <1>4, <2>1
<1>9. ASSUME NEW i \in 1..M PROVE cuts[i][2] <= n
  <2>1. i + 1 \in 1..(M + 1) /\ M + 1 \in 1..(M + 1) /\ i + 1 <= M + 1
    BY <1>1
  <2>2. off[i + 1] <= off[M + 1]
    BY <1>7, <2>1
  <2> QED BY <1>4, <1>5, <2>2
<1> QED BY <1>1, <1>2, <1>8, <1>9 DEF M

(* A slice of a slice.                                                     *)
LEMMA SliceOfSlice ==
  ASSUME NEW t \in Text, NEW a \in Nat, NEW b \in Nat, a <= b, b <= Len(t),
         NEW x \in Nat, NEW y \in Nat, x <= y, a + y <= b
  PROVE  Slice(Slice(t, a, b), x, y) = Slice(t, a + x, a + y)
<1> DEFINE s == Slice(t, a, b)  u == Slice(s, x, y)  v == Slice(t, a + x, a + y)
<1>1. s \in Text /\ Len(s) = b - a /\ \A i \in 1..(b - a) : s[i] = t[a + i]
  BY SliceIs
<1>2. Len(t) \in Nat
  BY DEF Text
<1> HIDE DEF s
<1>3. u \in Text /\ Len(u) = y - x /\ \A i \in 1..(y - x) : u[i] = s[x + i]
  <2>1. y <= Len(s)
    BY <1>1
  <2> QED BY <1>1, <2>1, SliceIs
<1>4. v \in Text /\ Len(v) = y - x /\ \A i \in 1..(y - x) : v[i] = t[a + x + i]
  <2> DEFINE p == a + x  q == a + y
  <2>1. p \in Nat /\ q \in Nat /\ p <= q /\ q <= Len(t) /\ q - p = y - x
    BY <1>2
  <2> HIDE DEF p, q
  <2>2. /\ Slice(t, p, q) \in Text /\ Len(Slice(t, p, q)) = q - p
        /\ \A i \in 1..(q - p) : Slice(t, p, q)[i] = t[p + i]
    BY <2>1, SliceIs
  <2> QED BY <2>1, <2>2 DEF p, q
<1>5. ASSUME NEW i \in 1..(y - x) PROVE u[i] = v[i]
  <2>1. x + i \in 1..(b - a) /\ a + (x + i) = a + x + i
    BY <1>2
  <2> QED BY <1>1, <1>3, <1>4, <2>1
<1> HIDE DEF u, v
<1>6. u = v
  BY <1>3, <1>4, <1>5, SameText
<1> QED BY <1>6 DEF u, v, s

(* An interval that has a span is not empty.                                *)
LEMMA SpansShort ==
  ASSUME NEW pages \in Seq(Text), NEW a \in Int, NEW b \in Int, Spans(pages, a, b) # <<>>
  PROVE  a < b
<1> DEFINE s == Spans(pages, a, b)[1]  k == s.page
<1>1. Spans(pages, a, b) \in Seq(SpanSet) /\ 1 \in 1..Len(Spans(pages, a, b))
  <2>1. Spans(pages, a, b) \in Seq(SpanSet)
    BY SpansTyped
  <2> HIDE DEF s
  <2> QED BY <2>1
<1>2. k \in 1..Len(pages) /\ s = Overlap(pages, k, a, b) /\ NonEmpty(s)
  BY <1>1, SpanIs
<1> HIDE DEF s
<1>3. PageStart(pages, k) \in Nat /\ Len(pages[k]) \in Nat
  <2>1. k \in 1..(Len(pages) + 1) /\ pages[k] \in Text
    BY <1>2
  <2>2. Len(pages[k]) \in Nat
    BY <2>1 DEF Text
  <2> QED BY <2>1, <2>2, PageStairs
<1> DEFINE S == PageStart(pages, k)  L == Len(pages[k])  f == s.from  t == s.to
<1>4. f < t /\ f \in Nat /\ t \in Int /\ S \in Nat /\ L \in Nat
  BY <1>2, <1>3, OverlapIs DEF NonEmpty
<1>5. f = (IF a >= S THEN a ELSE S) - S
  BY <1>2, OverlapIs
<1>6. t = (IF b <= S + L THEN b ELSE S + L) - S
  BY <1>2, OverlapIs
<1> HIDE DEF S, L, f, t, k
<1>7. a - S <= f /\ t <= b - S
  BY <1>4, <1>5, <1>6
<1> QED BY <1>4, <1>7

(* A chunk that is located stands where it is located.                     *)
LEMMA PlacedAt ==
  ASSUME NEW pages \in Seq(Text), NEW c, IsChunk(c),
         Locate(pages, c.text, c.spans) # None,
         NEW a, a = Locate(pages, c.text, c.spans)
  PROVE  /\ a \in Nat /\ Len(c.text) \in Nat /\ Len(c.text) > 0 /\ c.spans # <<>>
         /\ a + Len(c.text) <= Len(Joined(pages))
         /\ StandsAt(pages, c, a, a + Len(c.text))
<1> DEFINE t == c.text  sp == c.spans
<1>1. t \in Text /\ sp \in Seq(SpanSet)
  BY DEF IsChunk
<1>2. Len(t) \in Nat
  BY <1>1 DEF Text
<1> HIDE DEF t, sp
<1>3. a \in Nat /\ sp # <<>> /\ Slice(Joined(pages), a, a + Len(t)) = t
          /\ Spans(pages, a, a + Len(t)) = sp
  <2>1. a = Locate(pages, t, sp) /\ a # None
    BY DEF t, sp
  <2> QED BY <1>1, <2>1, LocateIs
<1>4. Len(t) > 0
  <2> DEFINE b == a + Len(t)
  <2>1. b \in Int /\ a \in Int /\ Spans(pages, a, b) # <<>>
    BY <1>2, <1>3
  <2> HIDE DEF b
  <2>2. a < b
    BY <2>1, SpansShort
  <2> QED BY <1>2, <1>3, <2>2 DEF b
<1>5. a + Len(t) <= Len(Joined(pages))
  <2>1. t # <<>> /\ Joined(pages) \in Text
    BY <1>4, JoinedIs
  <2> QED BY <1>1, <1>3, <2>1, SliceFound
<1> QED BY <1>2, <1>3, <1>4, <1>5 DEF StandsAt, t, sp

(* A chunk that is cut again keeps its source, and its identifier tells the *)
(* cut.                                                                     *)
LEMMA RecutIs ==
  ASSUME NEW c, IsChunk(c), NEW cut, NEW spans \in Seq(SpanSet), NEW piece \in Text,
         NEW u, u = Recut(c, cut, spans, piece)
  PROVE  /\ IsChunk(u) /\ u.text = piece /\ u.spans = spans
         /\ u.file = c.file /\ u.hash = c.hash /\ u.paper = c.paper
         /\ u.id = [file |-> c.id.file, hash |-> c.id.hash, base |-> <<c.spans, c.text>>,
                    cut |-> cut, spans |-> spans, text |-> piece]
<1> DEFINE id == c.id  file == c.file  sum == c.hash  paper == c.paper  cs == c.spans
           ct == c.text  p == c.previous  x == c.next
           i1 == id.file  i2 == id.hash  i3 == id.base  i4 == id.cut  i5 == id.spans  i6 == id.text
<1>1. c = [id |-> id, file |-> file, hash |-> sum, paper |-> paper, spans |-> cs,
           text |-> ct, previous |-> p, next |-> x]
  BY DEF IsChunk
<1>2. id = [file |-> i1, hash |-> i2, base |-> i3, cut |-> i4, spans |-> i5, text |-> i6]
  BY DEF IsChunk
<1>3. u = [c EXCEPT !.id.base = <<cs, ct>>, !.id.cut = cut,
                    !.id.spans = spans, !.id.text = piece,
                    !.spans = spans, !.text = piece]
  BY DEF Recut
<1> HIDE DEF id, file, sum, paper, cs, ct, p, x, i1, i2, i3, i4, i5, i6
<1> DEFINE w == [file |-> i1, hash |-> i2, base |-> <<cs, ct>>, cut |-> cut,
                 spans |-> spans, text |-> piece]
<1>4. u = [id |-> w, file |-> file, hash |-> sum, paper |-> paper, spans |-> spans,
           text |-> piece, previous |-> p, next |-> x]
  <2> DEFINE e1 == [c EXCEPT !.id.base = <<cs, ct>>]
             e2 == [e1 EXCEPT !.id.cut = cut]
             e3 == [e2 EXCEPT !.id.spans = spans]
             e4 == [e3 EXCEPT !.id.text = piece]
             v1 == [file |-> i1, hash |-> i2, base |-> <<cs, ct>>, cut |-> i4,
                    spans |-> i5, text |-> i6]
             v2 == [file |-> i1, hash |-> i2, base |-> <<cs, ct>>, cut |-> cut,
                    spans |-> i5, text |-> i6]
             v3 == [file |-> i1, hash |-> i2, base |-> <<cs, ct>>, cut |-> cut,
                    spans |-> spans, text |-> i6]
  <2>1. u = [e4 EXCEPT !.spans = spans, !.text = piece]
    BY <1>3
  <2>2. e1 = [c EXCEPT !.id = v1]
    BY <1>1, <1>2, SMTT(30)
  <2>3. e1 = [id |-> v1, file |-> file, hash |-> sum, paper |-> paper, spans |-> cs,
              text |-> ct, previous |-> p, next |-> x]
    <3> HIDE DEF v1, e1
    <3> QED BY <1>1, <2>2
  <2> HIDE DEF e1
  <2>4. e2 = [e1 EXCEPT !.id = v2]
    <3>1. [v1 EXCEPT !.cut = cut] = v2
      OBVIOUS
    <3>2. e1.id = v1
      BY <2>3
    <3> HIDE DEF v2, v1
    <3> QED BY <3>1, <3>2
  <2>5. e2 = [id |-> v2, file |-> file, hash |-> sum, paper |-> paper, spans |-> cs,
              text |-> ct, previous |-> p, next |-> x]
    <3> HIDE DEF v1, v2, e2
    <3> QED BY <2>3, <2>4
  <2> HIDE DEF e2
  <2>6. e3 = [e2 EXCEPT !.id = v3]
    <3>1. [v2 EXCEPT !.spans = spans] = v3
      OBVIOUS
    <3>2. e2.id = v2
      BY <2>5
    <3> HIDE DEF v3, v2
    <3> QED BY <3>1, <3>2
  <2>7. e3 = [id |-> v3, file |-> file, hash |-> sum, paper |-> paper, spans |-> cs,
              text |-> ct, previous |-> p, next |-> x]
    <3> HIDE DEF v2, v3, e3
    <3> QED BY <2>5, <2>6
  <2> HIDE DEF e3
  <2>8. e4 = [e3 EXCEPT !.id = w]
    <3>1. [v3 EXCEPT !.text = piece] = w
      OBVIOUS
    <3>2. e3.id = v3
      BY <2>7
    <3> HIDE DEF w, v3
    <3> QED BY <3>1, <3>2
  <2>9. e4 = [id |-> w, file |-> file, hash |-> sum, paper |-> paper, spans |-> cs,
              text |-> ct, previous |-> p, next |-> x]
    <3> HIDE DEF v3, w, e4
    <3> QED BY <2>7, <2>8
  <2> HIDE DEF e4, w
  <2> QED BY <2>1, <2>9
<1>5. /\ u.id = w /\ u.file = file /\ u.hash = sum /\ u.paper = paper /\ u.spans = spans
      /\ u.text = piece /\ u.previous = p /\ u.next = x
  BY <1>4
<1>6. IsChunk(u)
  <2>1. u.id = [file |-> u.id.file, hash |-> u.id.hash, base |-> u.id.base, cut |-> u.id.cut,
             spans |-> u.id.spans, text |-> u.id.text]
    BY <1>5
  <2>2. u = [id |-> u.id, file |-> u.file, hash |-> u.hash, paper |-> u.paper, spans |-> u.spans,
          text |-> u.text, previous |-> u.previous, next |-> u.next]
    <3> HIDE DEF w
    <3> QED BY <1>4, <1>5
  <2> QED BY <1>5, <2>1, <2>2 DEF IsChunk
<1> QED BY <1>5, <1>6 DEF id, file, sum, paper, cs, ct, i1, i2

(* What a cut of a chunk that is located at a becomes.                     *)
IsUnit(doc, c, a, cut, u) ==
  /\ IsChunk(u) /\ u.file = c.file /\ u.hash = c.hash /\ u.paper = c.paper
  /\ StandsAt(doc.pages, u, a + cut[1], a + cut[2])
  /\ u.id = [file |-> c.id.file, hash |-> c.id.hash, base |-> <<c.spans, c.text>>,
             cut |-> cut, spans |-> u.spans, text |-> u.text]

(* A unit of a chunk stands in the document, at the cut.                    *)
LEMMA UnitIs ==
  ASSUME NEW doc, IsDocument(doc), NEW c, IsChunk(c),
         Locate(doc.pages, c.text, c.spans) # None,
         NEW a, a = Locate(doc.pages, c.text, c.spans),
         NEW cut, cut[1] \in Nat, cut[2] \in Nat, cut[1] < cut[2], cut[2] <= Len(c.text),
         NEW u, u = Unit(doc, c, cut)
  PROVE  IsUnit(doc, c, a, cut, u)
<1> DEFINE P == doc.pages  J == Joined(P)  x == cut[1]  y == cut[2]
           spans == Spans(P, a + x, a + y)
           piece == Slice(c.text, x, y)
<1>1. P \in Seq(Text) /\ J \in Text
  <2>1. P \in Seq(Text)
    BY DEF IsDocument
  <2> QED BY <2>1, JoinedIs
<1> HIDE DEF J
<1>2. /\ a \in Nat /\ Len(c.text) \in Nat
      /\ a + Len(c.text) <= Len(J)
      /\ c.text = Slice(J, a, a + Len(c.text))
  <2> HIDE DEF P
  <2>1. a = Locate(P, c.text, c.spans) /\ Locate(P, c.text, c.spans) # None
    BY DEF P
  <2>2. a \in Nat /\ Len(c.text) \in Nat /\ a + Len(c.text) <= Len(J)
    BY <1>1, <2>1, PlacedAt DEF J
  <2>3. StandsAt(P, c, a, a + Len(c.text))
    BY <1>1, <2>1, PlacedAt
  <2> QED BY <2>2, <2>3 DEF StandsAt, J
<1>3. u = Recut(c, cut, spans, piece)
  BY DEF Unit, UnitAt
<1>4. c.text \in Text
  BY DEF IsChunk
<1> HIDE DEF x, y, P
<1>5. /\ x \in Nat /\ y \in Nat /\ x < y /\ y <= Len(c.text)
      /\ a + x \in Int /\ a + y \in Int
  BY <1>2 DEF x, y
<1>6. spans \in Seq(SpanSet)
  BY <1>1, <1>5, SpansTyped
<1>7. piece \in Text
  BY <1>4, <1>5, SliceTyped
<1>8. piece = Slice(J, a + x, a + y)
  <2> DEFINE n == Len(c.text)  b == a + n
  <2>1. b \in Nat /\ a <= b /\ b <= Len(J) /\ x <= y /\ a + y <= b
    BY <1>2, <1>5, SMTT(30)
  <2>2. c.text = Slice(J, a, b)
    BY <1>2
  <2> HIDE DEF b
  <2> QED BY <1>1, <1>2, <1>5, <2>1, <2>2, SliceOfSlice, SMTT(30)
<1> HIDE DEF spans, piece
<1>9. /\ IsChunk(u) /\ u.text = piece /\ u.spans = spans
      /\ u.file = c.file /\ u.hash = c.hash /\ u.paper = c.paper
      /\ u.id = [file |-> c.id.file, hash |-> c.id.hash, base |-> <<c.spans, c.text>>,
                 cut |-> cut, spans |-> spans, text |-> piece]
  BY <1>3, <1>6, <1>7, RecutIs
<1>10. StandsAt(P, u, a + x, a + y)
  BY <1>8, <1>9 DEF StandsAt, spans, J
<1> QED BY <1>9, <1>10 DEF P, x, y, IsUnit

(* The units of a chunk that the builder accepts: each stands on the       *)
(* pages inside the chunk, and together they hold every character of the   *)
(* pages that the chunk holds.                                             *)
AreUnits(doc, c, a, U) ==
  /\ Len(U) \in Nat /\ DOMAIN U = 1..Len(U)
  /\ U = [i \in 1..Len(U) |-> U[i]]
  /\ \A i \in 1..Len(U) :
       /\ IsChunk(U[i]) /\ U[i].spans # <<>>
       /\ U[i].file = c.file /\ U[i].hash = c.hash /\ U[i].paper = c.paper
       /\ \E x, y \in Nat : /\ x < y /\ y <= Len(c.text)
                            /\ StandsAt(doc.pages, U[i], a + x, a + y)
  /\ \A k \in 1..Len(doc.pages) : \A z \in 0..(Len(doc.pages[k]) - 1) :
       a <= PageStart(doc.pages, k) + z /\ PageStart(doc.pages, k) + z < a + Len(c.text) =>
         \E i \in 1..Len(U) : \E n \in 1..Len(U[i].spans) : OnSpan(U[i].spans[n], k, z)

(* The units of a chunk that was split stand in the document and cover the  *)
(* chunk.                                                                   *)
LEMMA UnitsAre ==
  ASSUME NEW doc, IsDocument(doc), NEW c, IsChunk(c), NEW cuts \in CutSet,
         Splittable(doc, c, cuts),
         NEW a, a = Locate(doc.pages, c.text, c.spans),
         NEW U, U = UnitsOf(doc, c, cuts)
  PROVE  AreUnits(doc, c, a, U)
<1> DEFINE P == doc.pages  L == Len(c.text)
           units == [i \in DOMAIN cuts |-> Unit(doc, c, cuts[i])]
           K == {i \in DOMAIN cuts : units[i].spans # <<>>}
<1>1. P \in Seq(Text) /\ Locate(P, c.text, c.spans) # None /\ Contiguous(cuts, L)
  BY DEF IsDocument, Splittable
<1>2. /\ a \in Nat /\ L \in Nat /\ L > 0 /\ c.spans # <<>>
      /\ StandsAt(P, c, a, a + L)
  <2>1. a = Locate(P, c.text, c.spans)
    OBVIOUS
  <2> HIDE DEF P
  <2>2. a \in Nat /\ L \in Nat /\ L > 0 /\ c.spans # <<>>
    BY <1>1, <2>1, PlacedAt
  <2>3. StandsAt(P, c, a, a + L)
    BY <1>1, <2>1, PlacedAt
  <2> QED BY <2>2, <2>3
<1>3. CASE cuts = <<<<0, L>>>>
  <2>1. U = <<c>>
    BY <1>3 DEF UnitsOf
  <2>2. Len(U) = 1 /\ DOMAIN U = 1..1 /\ U[1] = c /\ U = [i \in 1..Len(U) |-> U[i]]
    BY <2>1
  <2>3. ASSUME NEW i \in 1..Len(U)
        PROVE  /\ IsChunk(U[i]) /\ U[i].spans # <<>>
               /\ U[i].file = c.file /\ U[i].hash = c.hash /\ U[i].paper = c.paper
               /\ \E x, y \in Nat : /\ x < y /\ y <= Len(c.text)
                                    /\ StandsAt(doc.pages, U[i], a + x, a + y)
    <3>1. U[i] = c
      BY <2>2
    <3>2. 0 \in Nat /\ 0 < L /\ L <= L /\ StandsAt(P, c, a + 0, a + L)
      BY <1>2
    <3> QED BY <1>2, <3>1, <3>2
  <2>4. ASSUME NEW k \in 1..Len(P), NEW z \in 0..(Len(P[k]) - 1),
               a <= PageStart(P, k) + z, PageStart(P, k) + z < a + L
        PROVE  \E i \in 1..Len(U) : \E n \in 1..Len(U[i].spans) : OnSpan(U[i].spans[n], k, z)
    <3> DEFINE b == a + L
    <3>1. c.spans = Spans(P, a, b) /\ b \in Int
      BY <1>2 DEF StandsAt
    <3> HIDE DEF b, P
    <3>2. a <= PageStart(P, k) + z /\ PageStart(P, k) + z < b
      BY <2>4 DEF b
    <3>3. \E n \in 1..Len(Spans(P, a, b)) : OnSpan(Spans(P, a, b)[n], k, z)
      BY <1>1, <1>2, <3>1, <3>2, SpansHold, SMTT(30)
    <3>4. 1 \in 1..Len(U) /\ U[1].spans = Spans(P, a, b)
      BY <2>2, <3>1
    <3> QED BY <3>3, <3>4
  <2> QED BY <2>2, <2>3, <2>4 DEF AreUnits
<1>4. CASE cuts # <<<<0, L>>>>
  <2>1. U = Picked(units, K)
    BY <1>4 DEF UnitsOf
  <2>2. DOMAIN cuts = 1..Len(cuts) /\ Len(cuts) \in Nat
    BY DEF CutSet
  <2>3. K \in SUBSET Int /\ IsFiniteSet(K)
    <3>1. IsFiniteSet(1..Len(cuts))
      BY <2>2, FS_Interval
    <3>2. K \subseteq 1..Len(cuts)
      BY <2>2
    <3> HIDE DEF K
    <3>3. IsFiniteSet(K)
      BY <3>1, <3>2, FS_Subset
    <3>4. K \in SUBSET Int
      BY <3>2
    <3> QED BY <3>3, <3>4
  <2>4. ASSUME NEW i \in DOMAIN cuts
        PROVE  /\ cuts[i][1] \in Nat /\ cuts[i][2] \in Nat /\ cuts[i][1] < cuts[i][2]
               /\ cuts[i][2] <= L
    BY <1>1, <1>2, <2>2, CutsCover
  <2>5. ASSUME NEW i \in DOMAIN cuts
        PROVE  /\ IsChunk(units[i])
               /\ units[i].file = c.file /\ units[i].hash = c.hash /\ units[i].paper = c.paper
               /\ StandsAt(P, units[i], a + cuts[i][1], a + cuts[i][2])
    <3> DEFINE cut == cuts[i]
    <3>1. units[i] = Unit(doc, c, cut)
      OBVIOUS
    <3>2. cut[1] \in Nat /\ cut[2] \in Nat /\ cut[1] < cut[2] /\ cut[2] <= L
      BY <2>4
    <3>3. Locate(doc.pages, c.text, c.spans) # None
      BY <1>1
    <3> HIDE DEF cut, units, P, L, K
    <3>6. cut[2] <= Len(c.text)
      BY <3>2 DEF L
    <3> DEFINE u == units[i]
    <3>7. u = Unit(doc, c, cut)
      BY <3>1
    <3> HIDE DEF u
    <3>4. IsUnit(doc, c, a, cut, u)
      BY <3>2, <3>3, <3>6, <3>7, UnitIs
    <3>5. /\ IsChunk(u) /\ u.file = c.file /\ u.hash = c.hash /\ u.paper = c.paper
          /\ StandsAt(doc.pages, u, a + cut[1], a + cut[2])
      BY <3>4, Zenon DEF IsUnit
    <3> QED BY <3>5 DEF cut, P, u
  <2>6. ASSUME NEW n \in DOMAIN U
        PROVE  \E i \in DOMAIN cuts : U[n] = units[i] /\ units[i].spans # <<>>
    <3>1. Ascending(K)[n] \in K /\ U[n] = units[Ascending(K)[n]]
      <4> HIDE DEF K, units
      <4>1. n \in DOMAIN Picked(units, K)
        BY <2>1, Zenon
      <4>2. Picked(units, K)[n] = units[Ascending(K)[n]] /\ Ascending(K)[n] \in K
        BY <2>3, <4>1, PickedFrom
      <4> QED BY <2>1, <4>2, Zenon
    <3> QED BY <3>1
  <2>7. ASSUME NEW i \in DOMAIN cuts, units[i].spans # <<>>
        PROVE  \E n \in DOMAIN U : U[n] = units[i]
    <3>1. i \in K
      BY <2>7
    <3> HIDE DEF K, units
    <3>2. PICK n \in DOMAIN Picked(units, K) : Picked(units, K)[n] = units[i]
      BY <2>3, <3>1, PickedHas
    <3> QED BY <2>1, <3>2
  <2>8. Len(U) \in Nat /\ DOMAIN U = 1..Len(U) /\ U = [i \in 1..Len(U) |-> U[i]]
    <3>1. Cardinality(K) \in Nat
      BY <2>3, FS_CardinalityType
    <3> HIDE DEF K, units
    <3> QED BY <2>1, <2>3, <3>1, PickedEnumerates
  <2> HIDE DEF units, K
  <2>9. ASSUME NEW n \in 1..Len(U)
        PROVE  /\ IsChunk(U[n]) /\ U[n].spans # <<>>
               /\ U[n].file = c.file /\ U[n].hash = c.hash /\ U[n].paper = c.paper
               /\ \E x, y \in Nat : /\ x < y /\ y <= Len(c.text)
                                    /\ StandsAt(doc.pages, U[n], a + x, a + y)
    <3>1. PICK i \in DOMAIN cuts : U[n] = units[i] /\ units[i].spans # <<>>
      BY <2>6, <2>8
    <3> QED BY <2>4, <2>5, <3>1
  <2>10. ASSUME NEW k \in 1..Len(P), NEW z \in 0..(Len(P[k]) - 1),
                a <= PageStart(P, k) + z, PageStart(P, k) + z < a + L
         PROVE  \E i \in 1..Len(U) : \E n \in 1..Len(U[i].spans) : OnSpan(U[i].spans[n], k, z)
    <3>1. PageStart(P, k) \in Nat /\ z \in Nat
      <4>1. k \in 1..(Len(P) + 1)
        OBVIOUS
      <4>2. PageStart(P, k) \in Nat
        BY <1>1, <4>1, PageStairs
      <4> QED BY <4>2
    <3> DEFINE p == PageStart(P, k) + z - a
    <3>2. p \in 0..(L - 1)
      BY <1>2, <2>10, <3>1, SMTT(30)
    <3>3. PICK i \in 1..Len(cuts) : cuts[i][1] <= p /\ p < cuts[i][2]
      <4> HIDE DEF p, P
      <4> QED BY <1>1, <1>2, <3>2, CutsCover
    <3>4. i \in DOMAIN cuts /\ cuts[i][1] \in Nat /\ cuts[i][2] \in Nat
      BY <2>2, <2>4
    <3> DEFINE c1 == cuts[i][1]  c2 == cuts[i][2]  lo == a + c1  hi == a + c2
    <3>10. c1 \in Nat /\ c2 \in Nat /\ c1 <= p /\ p < c2
      BY <3>3, <3>4
    <3> DEFINE S == PageStart(P, k)
    <3>11. S \in Nat /\ p = S + z - a
      BY <3>1
    <3> HIDE DEF c1, c2, S, p
    <3>12. a + c1 <= S + z /\ S + z < a + c2
      <4>1. a \in Int /\ S \in Int /\ z \in Int /\ c1 \in Int /\ c2 \in Int
        BY <1>2, <3>1, <3>10, <3>11
      <4>2. c1 <= S + z - a /\ S + z - a < c2
        BY <3>10, <3>11
      <4> QED BY <4>1, <4>2, SMTT(30)
    <3>5. /\ lo \in Int /\ hi \in Int
          /\ lo <= PageStart(P, k) + z /\ PageStart(P, k) + z < hi
      BY <1>2, <3>10, <3>12, SMTT(30) DEF S
    <3>6. units[i].spans = Spans(P, lo, hi)
      BY <2>5, <3>4 DEF StandsAt, c1, c2
    <3> HIDE DEF lo, hi, P
    <3>7. PICK n \in 1..Len(Spans(P, lo, hi)) : OnSpan(Spans(P, lo, hi)[n], k, z)
      BY <1>1, <3>5, SpansHold
    <3>8. units[i].spans # <<>>
      BY <3>6, <3>7
    <3>9. PICK m \in DOMAIN U : U[m] = units[i]
      BY <2>7, <3>4, <3>8
    <3> QED BY <2>8, <3>6, <3>7, <3>9
  <2> QED BY <2>8, <2>9, <2>10 DEF AreUnits
<1> QED BY <1>3, <1>4

(* A chunk that can be split has at least one unit.                         *)
LEMMA UnitsNotEmpty ==
  ASSUME NEW doc, IsDocument(doc), NEW c, IsChunk(c), NEW cuts \in CutSet,
         Splittable(doc, c, cuts)
  PROVE  Len(UnitsOf(doc, c, cuts)) >= 1
<1> DEFINE P == doc.pages  a == Locate(P, c.text, c.spans)  b == a + Len(c.text)
           U == UnitsOf(doc, c, cuts)
<1>1. P \in Seq(Text) /\ Locate(P, c.text, c.spans) # None
  BY DEF IsDocument, Splittable
<1>2. a \in Nat /\ b \in Int /\ c.spans # <<>> /\ c.spans = Spans(P, a, b)
  <2> HIDE DEF P
  <2>1. a \in Nat /\ Len(c.text) \in Nat /\ c.spans # <<>>
    BY <1>1, PlacedAt
  <2>2. StandsAt(P, c, a, a + Len(c.text))
    BY <1>1, PlacedAt
  <2> HIDE DEF a
  <2> QED BY <2>1, <2>2 DEF StandsAt
<1>3. /\ Len(U) \in Nat
      /\ \A k \in 1..Len(P) : \A z \in 0..(Len(P[k]) - 1) :
           a <= PageStart(P, k) + z /\ PageStart(P, k) + z < b =>
                \E i \in 1..Len(U) : \E n \in 1..Len(U[i].spans) : OnSpan(U[i].spans[n], k, z)
  <2>1. AreUnits(doc, c, a, U)
    <3> HIDE DEF a, U, P
    <3> QED BY UnitsAre DEF a, U, P
  <2> QED BY <2>1 DEF AreUnits
<1> HIDE DEF a, b, P, U
<1> DEFINE s == Spans(P, a, b)[1]  k == s.page  z == s.from
<1>4. /\ k \in 1..Len(P) /\ s = Overlap(P, k, a, b) /\ NonEmpty(s)
      /\ 1 \in 1..Len(Spans(P, a, b))
  <2>1. Spans(P, a, b) \in Seq(SpanSet) /\ Spans(P, a, b) # <<>>
    BY <1>1, <1>2, SpansTyped
  <2>2. 1 \in 1..Len(Spans(P, a, b))
    BY <2>1
  <2> HIDE DEF s
  <2>3. k \in 1..Len(P) /\ s = Overlap(P, k, a, b) /\ NonEmpty(s)
    BY <1>1, <1>2, <2>2, SpanIs DEF s
  <2> QED BY <2>2, <2>3
<1>5. z \in Nat /\ s.to \in Int /\ z < s.to
  <2> HIDE DEF s
  <2> QED BY <1>1, <1>2, <1>4, OverlapIs DEF NonEmpty
<1>6. OnSpan(s, k, z)
  BY <1>5 DEF OnSpan
<1>7. z \in 0..(Len(P[k]) - 1)
  <2>1. s.to = (IF b <= PageStart(P, k) + Len(P[k]) THEN b ELSE PageStart(P, k) + Len(P[k]))
                 - PageStart(P, k)
    <3> HIDE DEF s
    <3> QED BY <1>1, <1>2, <1>4, OverlapIs
  <2>2. PageStart(P, k) \in Nat /\ Len(P[k]) \in Nat
    <3>1. k \in 1..(Len(P) + 1) /\ P[k] \in Text
      BY <1>1, <1>4
    <3>2. Len(P[k]) \in Nat
      BY <3>1 DEF Text
    <3> QED BY <1>1, <3>1, <3>2, PageStairs
  <2> HIDE DEF s, k
  <2> QED BY <1>2, <1>5, <2>1, <2>2
<1>8. a <= PageStart(P, k) + z /\ PageStart(P, k) + z < b
  <2>1. \E n \in 1..Len(Spans(P, a, b)) : OnSpan(Spans(P, a, b)[n], k, z)
    BY <1>4, <1>6
  <2> HIDE DEF z, k
  <2> QED BY <1>1, <1>2, <1>4, <1>7, <2>1, SpansHold
<1>9. PICK i \in 1..Len(U) : TRUE
  <2> HIDE DEF z, k
  <2> QED BY <1>3, <1>4, <1>7, <1>8
<1> QED BY <1>3, <1>9 DEF U

(* The chunks of one text at one place, with the same name, are cut into   *)
(* units with the same names.                                              *)
Alike(c, d) == c.id = d.id /\ c.text = d.text /\ c.spans = d.spans

(* Two chunks that differ in nothing but their place in the plan share a    *)
(* unit's identifier.                                                       *)
LEMMA UnitsAlike ==
  ASSUME NEW doc, IsDocument(doc), NEW c, IsChunk(c), NEW d, IsChunk(d), Alike(c, d),
         NEW cuts \in CutSet, Splittable(doc, c, cuts),
         NEW U, U = UnitsOf(doc, c, cuts), NEW V, V = UnitsOf(doc, d, cuts)
  PROVE  \E i \in DOMAIN U, j \in DOMAIN V : U[i].id = V[j].id
<1> DEFINE L == Len(c.text)
           units == [i \in DOMAIN cuts |-> Unit(doc, c, cuts[i])]
           twins == [i \in DOMAIN cuts |-> Unit(doc, d, cuts[i])]
           K == {i \in DOMAIN cuts : units[i].spans # <<>>}
           a == Locate(doc.pages, c.text, c.spans)
<1>1. c.id = d.id /\ c.text = d.text /\ c.spans = d.spans
  BY DEF Alike
<1>2. CASE cuts = <<<<0, L>>>>
  <2>1. U = <<c>> /\ V = <<d>>
    BY <1>1, <1>2 DEF UnitsOf
  <2> QED BY <1>1, <2>1
<1>3. CASE cuts # <<<<0, L>>>>
  <2>1. /\ a # None /\ Contiguous(cuts, L)
        /\ DOMAIN cuts = 1..Len(cuts) /\ Len(cuts) \in Nat
    BY DEF Splittable, CutSet
  <2>2. a \in Nat /\ L \in Nat
    BY <2>1, PlacedAt DEF IsDocument
  <2>3. ASSUME NEW i \in DOMAIN cuts
        PROVE  units[i].id = twins[i].id /\ units[i].spans = twins[i].spans
    <3> DEFINE cut == cuts[i]  u == Unit(doc, c, cut)  v == Unit(doc, d, cut)
    <3>1. cut[1] \in Nat /\ cut[2] \in Nat /\ cut[1] < cut[2] /\ cut[2] <= L
      BY <2>1, <2>2, CutsCover
    <3> HIDE DEF cut, a, L
    <3>2. IsUnit(doc, c, a, cut, u)
      <4> HIDE DEF u
      <4> QED BY <2>1, <3>1, UnitIs DEF u, a, L
    <3>3. IsUnit(doc, d, a, cut, v)
      <4>1. a = Locate(doc.pages, d.text, d.spans) /\ L = Len(d.text)
        BY <1>1 DEF a, L
      <4> HIDE DEF v
      <4> QED BY <2>1, <3>1, <4>1, UnitIs DEF v
    <3>4. u.id = v.id /\ u.spans = v.spans
      <4> HIDE DEF u, v
      <4>1. u.text = v.text /\ u.spans = v.spans
        BY <3>2, <3>3 DEF IsUnit, StandsAt
      <4> QED BY <1>1, <3>2, <3>3, <4>1 DEF IsUnit
    <3> QED BY <3>4 DEF cut
  <2>4. U = Picked(units, K)
    BY <1>3 DEF UnitsOf
  <2>5. V = Picked(twins, K)
    <3>1. V = Picked(twins, {i \in DOMAIN cuts : twins[i].spans # <<>>})
      BY <1>1, <1>3 DEF UnitsOf
    <3>2. K = {i \in DOMAIN cuts : twins[i].spans # <<>>}
      <4> HIDE DEF units, twins
      <4> QED BY <2>3
    <3> QED BY <3>1, <3>2
  <2>6. K \in SUBSET Int /\ IsFiniteSet(K)
    <3>1. K \subseteq 1..Len(cuts)
      <4> HIDE DEF units
      <4> QED BY <2>1
    <3> HIDE DEF K
    <3>0. IsFiniteSet(1..Len(cuts))
      BY <2>1, FS_Interval
    <3>2. IsFiniteSet(K)
      BY <3>0, <3>1, FS_Subset
    <3>3. K \in SUBSET Int
      BY <3>1
    <3> QED BY <3>2, <3>3
  <2>7. \E k \in K : TRUE
    <3>1. Len(U) >= 1 /\ DOMAIN U = 1..Len(U) /\ Len(U) \in Nat
      <4>1. AreUnits(doc, c, a, U)
        <5> HIDE DEF a
        <5> QED BY UnitsAre DEF a
      <4> QED BY <4>1, UnitsNotEmpty DEF AreUnits
    <3>2. 1 \in DOMAIN Picked(units, K)
      BY <2>4, <3>1
    <3> HIDE DEF K, units
    <3>3. Ascending(K)[1] \in K
      BY <2>6, <3>2, PickedFrom
    <3> QED BY <3>3
  <2>8. PICK k \in K : TRUE
    BY <2>7
  <2>9. k \in DOMAIN cuts
    OBVIOUS
  <2> HIDE DEF K, units, twins
  <2>10. \E n \in DOMAIN U : Ascending(K)[n] = k /\ U[n] = units[k]
    BY <2>4, <2>6, PickedHas
  <2>11. \E n \in DOMAIN V : Ascending(K)[n] = k /\ V[n] = twins[k]
    BY <2>5, <2>6, PickedHas
  <2> QED BY <2>3, <2>9, <2>10, <2>11
<1> QED BY <1>2, <1>3

(* A chain keeps everything of its chunks but their neighbours.            *)
Relinked(r, c) ==
  /\ IsChunk(r) /\ r.id = c.id /\ r.file = c.file /\ r.hash = c.hash /\ r.paper = c.paper
  /\ r.spans = c.spans /\ r.text = c.text

(* Linking the units of a document changes their links and nothing else.    *)
LEMMA ChainedIs ==
  ASSUME NEW N \in Nat, NEW q, DOMAIN q = 1..N, \A i \in 1..N : IsChunk(q[i]),
         NEW r, r = Chained(q)
  PROVE  /\ DOMAIN r = 1..N /\ Len(r) = N /\ r = [i \in 1..N |-> r[i]]
         /\ \A i \in 1..N : Relinked(r[i], q[i])
<1>1. DOMAIN r = 1..N /\ r = [i \in 1..N |-> r[i]]
  BY DEF Chained
<1>2. Len(r) = N
  <2> DEFINE s == [i \in 1..N |-> r[i]]
  <2>1. Len(s) = N
    OBVIOUS
  <2> QED BY <1>1, <2>1
<1>3. ASSUME NEW i \in 1..N PROVE Relinked(r[i], q[i])
  <2>1. \E p, x : r[i] = [q[i] EXCEPT !.previous = p, !.next = x]
    BY DEF Chained
  <2>2. PICK p, x : r[i] = [q[i] EXCEPT !.previous = p, !.next = x]
    BY <2>1
  <2> DEFINE c == q[i]  d == r[i]
  <2>3. IsChunk(c) /\ d = [c EXCEPT !.previous = p, !.next = x]
    BY <2>2
  <2> HIDE DEF c, d
  <2>4. d = [id |-> c.id, file |-> c.file, hash |-> c.hash, paper |-> c.paper,
             spans |-> c.spans, text |-> c.text, previous |-> p, next |-> x]
    BY <2>3 DEF IsChunk
  <2>5. /\ d.id = c.id /\ d.file = c.file /\ d.hash = c.hash /\ d.paper = c.paper
        /\ d.spans = c.spans /\ d.text = c.text /\ d.previous = p /\ d.next = x
    BY <2>4
  <2>6. IsChunk(d)
    BY <2>3, <2>4, <2>5 DEF IsChunk
  <2> QED BY <2>5, <2>6 DEF Relinked, c, d
<1> QED BY <1>1, <1>2, <1>3

(* Merging intervals.                                                      *)

(* Three keys, of which the later count where the earlier are equal.       *)
Precedes(k1, k2, k3, r, s) ==
  k1[r] < k1[s] \/ (k1[r] = k1[s] /\ (k2[r] < k2[s] \/ (k2[r] = k2[s] /\ k3[r] < k3[s])))

(* Three integer keys that tell the members of S apart.                     *)
KeysTell(S, k1, k2, k3) ==
  /\ k1 \in [S -> Int] /\ k2 \in [S -> Int] /\ k3 \in [S -> Int]
  /\ \A r, s \in S : k1[r] = k1[s] /\ k2[r] = k2[s] /\ k3[r] = k3[s] => r = s

(* The order by three such keys is strict and total.                        *)
LEMMA ThreeKeysOrder ==
  ASSUME NEW S, NEW k1, NEW k2, NEW k3, KeysTell(S, k1, k2, k3),
         NEW below, below = [s \in S |-> {r \in S : Precedes(k1, k2, k3, r, s)}]
  PROVE  IsStrictOrder(S, below)
<1>1. below \in [S -> SUBSET S]
  OBVIOUS
<1>2. \A r, s \in S : r \in below[s] <=> Precedes(k1, k2, k3, r, s)
  OBVIOUS
<1>3. \A r \in S : k1[r] \in Int /\ k2[r] \in Int /\ k3[r] \in Int
  BY DEF KeysTell
<1>4. ASSUME NEW s \in S PROVE ~(s \in below[s])
  BY <1>2, <1>3 DEF Precedes
<1>5. ASSUME NEW r \in S, NEW s \in S, r \in below[s] PROVE below[r] \subseteq below[s]
  <2> SUFFICES ASSUME NEW t \in below[r] PROVE t \in below[s]
    OBVIOUS
  <2>1. t \in S /\ Precedes(k1, k2, k3, t, r) /\ Precedes(k1, k2, k3, r, s)
    BY <1>1, <1>2, <1>5
  <2>2. Precedes(k1, k2, k3, t, s)
    BY <1>3, <2>1 DEF Precedes
  <2> QED BY <1>2, <2>1, <2>2
<1>6. ASSUME NEW r \in S, NEW s \in S, r # s PROVE r \in below[s] \/ s \in below[r]
  <2>1. k1[r] # k1[s] \/ k2[r] # k2[s] \/ k3[r] # k3[s]
    BY <1>6 DEF KeysTell
  <2>2. Precedes(k1, k2, k3, r, s) \/ Precedes(k1, k2, k3, s, r)
    BY <1>3, <2>1 DEF Precedes
  <2> QED BY <1>2, <2>2
<1> QED BY <1>1, <1>4, <1>5, <1>6 DEF IsStrictOrder

(* Intervals in the order of their beginnings.                             *)
AreRanges(R) == IsFiniteSet(R) /\ R \subseteq Int \X Int

(* The ranges by their beginning: all of them, and no later one begins      *)
(* earlier.                                                                 *)
LEMMA RangesInOrder ==
  ASSUME NEW R, AreRanges(R),
         NEW q, q = ByBeginning(R)
  PROVE  /\ Cardinality(R) \in Nat
         /\ q \in [1..Cardinality(R) -> R]
         /\ \A k, l \in 1..Cardinality(R) : k < l => q[k][1] <= q[l][1]
         /\ \A s \in R : \E k \in 1..Cardinality(R) : q[k] = s
<1> DEFINE N == Cardinality(R)
           Before(r, s) == r[1] < s[1] \/ (r[1] = s[1] /\ r[2] < s[2])
           below == [s \in R |-> {r \in R : Before(r, s)}]
<1> DEFINE lo == [r \in R |-> r[1]]  hi == [r \in R |-> r[2]]  no == [r \in R |-> 0]
<1>10. IsFiniteSet(R)
  BY DEF AreRanges
<1>13. ASSUME NEW r \in R PROVE r[1] \in Int /\ r[2] \in Int /\ \E x, y \in Int : r = <<x, y>>
  <2>1. r \in Int \X Int
    BY DEF AreRanges
  <2> QED BY <2>1
<1>1. lo \in [R -> Int] /\ hi \in [R -> Int] /\ no \in [R -> Int]
  <2>1. \A r \in R : r[1] \in Int /\ r[2] \in Int
    BY <1>13
  <2>2. lo \in [R -> Int]
    BY <2>1
  <2>3. hi \in [R -> Int]
    BY <2>1
  <2>4. no \in [R -> Int]
    OBVIOUS
  <2> QED BY <2>2, <2>3, <2>4
<1>11. ASSUME NEW r \in R, NEW s \in R, lo[r] = lo[s], hi[r] = hi[s], no[r] = no[s] PROVE r = s
  <2>1. r[1] = s[1] /\ r[2] = s[2]
    BY <1>11
  <2>2. PICK x, y \in Int : r = <<x, y>>
    BY <1>13
  <2>3. PICK z, w \in Int : s = <<z, w>>
    BY <1>13
  <2> QED BY <2>1, <2>2, <2>3
<1>14. \A r \in R : lo[r] = r[1] /\ hi[r] = r[2] /\ no[r] = 0
  OBVIOUS
<1> HIDE DEF lo, hi, no
<1>12. ASSUME NEW r \in R, NEW s \in R PROVE Before(r, s) <=> Precedes(lo, hi, no, r, s)
  BY <1>14 DEF Precedes
<1>2. IsStrictOrder(R, below)
  <2>1. below = [s \in R |-> {r \in R : Precedes(lo, hi, no, r, s)}]
    <3> HIDE DEF Before, lo, hi, no
    <3> QED BY <1>12
  <2>2. \A r, s \in R : lo[r] = lo[s] /\ hi[r] = hi[s] /\ no[r] = no[s] => r = s
    BY <1>11
  <2> HIDE DEF below, lo, hi, no
  <2>3. KeysTell(R, lo, hi, no)
    BY <1>1, <2>2 DEF KeysTell
  <2> QED BY <2>1, <2>3, ThreeKeysOrder
<1>3. N \in Nat
  BY <1>10, FS_CardinalityType
<1>4. \A k \in 1..N : \E s \in R : Cardinality(below[s]) = k - 1
  <2> HIDE DEF below
  <2> QED BY <1>2, <1>10, RanksFill
<1>5. q = [k \in 1..N |-> CHOOSE s \in R : Cardinality({r \in R : Before(r, s)}) = k - 1]
  BY DEF ByBeginning, Ordered
<1>6. ASSUME NEW k \in 1..N PROVE q[k] \in R /\ Cardinality(below[q[k]]) = k - 1
  <2> DEFINE Is(s) == Cardinality({r \in R : Before(r, s)}) = k - 1
  <2>1. PICK s \in R : Cardinality(below[s]) = k - 1
    BY <1>4
  <2>2. Is(s)
    BY <2>1
  <2>3. q[k] = CHOOSE u \in R : Is(u)
    BY <1>5
  <2>4. q[k] \in R /\ Is(q[k])
    <3> HIDE DEF Is
    <3> QED BY <2>1, <2>2, <2>3
  <2> QED BY <2>4
<1>7. Ranked(q, R, below) /\ q \in [1..N -> R]
  <2>1. DOMAIN q = 1..N /\ q = [k \in 1..N |-> q[k]]
    BY <1>5
  <2> HIDE DEF below, N
  <2>2. q \in [1..N -> R]
    BY <1>6, <2>1
  <2> QED BY <1>6, <2>1, <2>2 DEF Ranked, N
<1>8. \A s \in R : \E k \in 1..N : q[k] = s
  <2> HIDE DEF below, Before
  <2>1. IsFiniteSet(R) /\ IsStrictOrder(R, below) /\ Ranked(q, R, below)
    BY <1>2, <1>7, <1>10
  <2>2. \A s \in R : \E k \in 1..Cardinality(R) : q[k] = s
    BY <2>1, RanksEnumerate
  <2> QED BY <2>2
<1>9. \A k, l \in 1..N : k < l => q[k] \in below[q[l]]
  <2> HIDE DEF below, Before
  <2> QED BY <1>2, <1>7, <1>10, RanksEnumerate
<1>15. ASSUME NEW k \in 1..N, NEW l \in 1..N, k < l PROVE q[k][1] <= q[l][1]
  <2>1. q[k] \in R /\ q[l] \in R /\ q[k] \in below[q[l]]
    BY <1>6, <1>9, <1>15
  <2>2. Before(q[k], q[l])
    BY <2>1
  <2>3. q[k][1] \in Int /\ q[l][1] \in Int
    BY <1>13, <2>1
  <2> HIDE DEF below
  <2> QED BY <2>2, <2>3
<1> QED BY <1>3, <1>7, <1>8, <1>15

(* Merging one more range leaves a list of ranges.                          *)
LEMMA MergeIs ==
  ASSUME NEW m \in Seq(Int \X Int), NEW r \in Int \X Int
  PROVE  Merge(m, r) \in Seq(Int \X Int)
<1>1. r[1] \in Int /\ r[2] \in Int
  OBVIOUS
<1>2. CASE m = <<>>
  BY <1>2 DEF Merge
<1>3. CASE m # <<>>
  <2>1. Len(m) \in Nat /\ Len(m) # 0
    BY <1>3
  <2> DEFINE last == m[Len(m)]  hi == Max({last[2], r[2]})
  <2>2. last \in Int \X Int
    BY <2>1
  <2>3. last[1] \in Int /\ last[2] \in Int
    BY <2>2
  <2> HIDE DEF last
  <2>4. hi \in Int
    BY <1>1, <2>3, MinMaxOfTwo
  <2> HIDE DEF hi
  <2>5. SubSeq(m, 1, Len(m) - 1) \in Seq(Int \X Int)
    BY <2>1
  <2>6. Append(SubSeq(m, 1, Len(m) - 1), <<last[1], hi>>) \in Seq(Int \X Int)
    BY <2>3, <2>4, <2>5
  <2>7. Append(m, r) \in Seq(Int \X Int)
    OBVIOUS
  <2>8. \/ Merge(m, r) = Append(SubSeq(m, 1, Len(m) - 1), <<last[1], hi>>)
        \/ Merge(m, r) = Append(m, r)
    BY DEF Merge, last, hi, Last, Front
  <2> QED BY <2>6, <2>7, <2>8
<1> QED BY <1>2, <1>3

(* A range that begins inside the last one extends it.                      *)
LEMMA MergeOne ==
  ASSUME NEW F \in Int, NEW h \in Int, NEW r \in Int \X Int, r[1] <= h
  PROVE  Merge(<<<<F, h>>>>, r) = <<<<F, IF h >= r[2] THEN h ELSE r[2]>>>>
<1> DEFINE m == <<<<F, h>>>>  hi == Max({h, r[2]})
<1>1. r[1] \in Int /\ r[2] \in Int
  OBVIOUS
<1>2. m # <<>> /\ Len(m) = 1 /\ m[1] = <<F, h>> /\ m \in Seq(Int \X Int)
  OBVIOUS
<1>3. Last(m) = <<F, h>> /\ Front(m) = <<>>
  <2> HIDE DEF m
  <2>1. SubSeq(m, 1, 0) = <<>>
    BY <1>2
  <2> QED BY <1>2, <2>1 DEF Last, Front
<1>4. hi = IF h >= r[2] THEN h ELSE r[2]
  BY <1>1, MinMaxOfTwo
<1> HIDE DEF m
<1>5. Merge(m, r) = Append(<<>>, <<F, hi>>)
  BY <1>2, <1>3 DEF Merge
<1> HIDE DEF hi
<1>6. Append(<<>>, <<F, hi>>) = <<<<F, hi>>>>
  OBVIOUS
<1> QED BY <1>4, <1>5, <1>6 DEF m

(* What merging a list of intervals means, one after the other.            *)
LEMMA MergedUnfolds ==
  ASSUME NEW R, AreRanges(R), NEW q, q = ByBeginning(R), NEW N, N = Cardinality(R)
  PROVE  \E g : /\ g[0] = <<>>
                /\ \A n \in 1..N : g[n] = Merge(g[n - 1], q[n])
                /\ Merged(R) = g[N]
<1> DEFINE V == Seq(Int \X Int)
           step == [nv \in (1..N) \X V |-> Merge(nv[2], q[nv[1]])]
           Equation(f) == f = [n \in 0..N |-> IF n = 0 THEN <<>> ELSE Merge(f[n - 1], q[n])]
<1>1. /\ N \in Nat /\ q \in [1..N -> R] /\ DOMAIN q = 1..N
      /\ \A n \in 1..N : q[n] \in Int \X Int
  <2>1. N \in Nat /\ q \in [1..N -> R]
    BY RangesInOrder
  <2>2. \A r \in R : r \in Int \X Int
    BY DEF AreRanges
  <2> QED BY <2>1, <2>2
<1>2. step \in [((0 + 1)..N) \X V -> V]
  <2> SUFFICES ASSUME NEW nv \in (1..N) \X V PROVE Merge(nv[2], q[nv[1]]) \in V
    BY <1>1
  <2>1. nv[1] \in 1..N /\ nv[2] \in V /\ q[nv[1]] \in Int \X Int
    BY <1>1
  <2> QED BY <2>1, MergeIs
<1>3. PICK f : Solution(f, 0, N, V, <<>>, step)
  <2>1. 0 \in Int /\ N \in Int /\ 0 <= N /\ <<>> \in V
    BY <1>1
  <2> HIDE DEF step, V
  <2> QED BY <1>2, <2>1, RecursionExists
<1>4. /\ f \in [0..N -> V] /\ f[0] = <<>>
      /\ \A n \in 1..N : f[n] = step[<<n, f[n - 1]>>]
  <2> HIDE DEF step, V
  <2> QED BY <1>3 DEF Solution
<1>5. ASSUME NEW n \in 1..N PROVE f[n] = Merge(f[n - 1], q[n])
  <2>1. n - 1 \in 0..N
    BY <1>1
  <2>2. f[n - 1] \in V
    BY <1>4, <2>1
  <2>3. step[<<n, f[n - 1]>>] = Merge(f[n - 1], q[n])
    BY <2>2
  <2> HIDE DEF step, V
  <2> QED BY <1>4, <2>3
<1>6. Equation(f)
  <2>1. f = [n \in 0..N |-> f[n]]
    BY <1>4
  <2>2. ASSUME NEW n \in 0..N
        PROVE  f[n] = IF n = 0 THEN <<>> ELSE Merge(f[n - 1], q[n])
    <3>1. CASE n = 0
      BY <1>4, <3>1
    <3>2. CASE n # 0
      <4>1. n \in 1..N
        BY <1>1, <3>2
      <4> QED BY <1>5, <3>2, <4>1
    <3> QED BY <3>1, <3>2
  <2>3. f = [n \in 0..N |-> IF n = 0 THEN <<>> ELSE Merge(f[n - 1], q[n])]
    BY <2>1, <2>2
  <2> QED BY <2>3
<1> DEFINE g == CHOOSE g : Equation(g)
<1>7. Equation(g)
  <2> HIDE DEF Equation
  <2> QED BY <1>6
<1>8. Merged(R) = g[N]
  <2>1. Len(q) = N
    <3>1. q = [n \in 1..N |-> q[n]]
      BY <1>1
    <3> QED BY <1>1, <3>1
  <2> DEFINE E2(h) == h = [n \in 0..Len(q) |-> IF n = 0 THEN <<>> ELSE Merge(h[n - 1], q[n])]
  <2>2. Merged(R) = (CHOOSE h : E2(h))[Len(q)]
    BY DEF Merged
  <2> QED BY <2>1, <2>2
<1> HIDE DEF g
<1>9. g[0] = <<>> /\ \A n \in 1..N : g[n] = Merge(g[n - 1], q[n])
  <2>1. \A n \in 0..N : g[n] = IF n = 0 THEN <<>> ELSE Merge(g[n - 1], q[n])
    BY <1>7
  <2>2. 0 \in 0..N /\ \A n \in 1..N : n \in 0..N /\ n # 0
    BY <1>1
  <2> QED BY <2>1, <2>2
<1> QED BY <1>8, <1>9

(* Intervals inside an interval that together cover it merge into it.      *)
Tile(R, F, T) ==
  /\ AreRanges(R)
  /\ \A r \in R : F <= r[1] /\ r[1] < r[2] /\ r[2] <= T
  /\ \A p \in F..(T - 1) : \E r \in R : r[1] <= p /\ p < r[2]

(* Ranges that cover F..T without a gap merge into one range.               *)
LEMMA MergedIs ==
  ASSUME NEW R, NEW F \in Int, NEW T \in Int, F < T, Tile(R, F, T)
  PROVE  Merged(R) = <<<<F, T>>>>
<1> DEFINE N == Cardinality(R)  q == ByBeginning(R)
<1>1. AreRanges(R)
  BY DEF Tile
<1>2. PICK g : /\ g[0] = <<>>
               /\ \A n \in 1..N : g[n] = Merge(g[n - 1], q[n])
               /\ Merged(R) = g[N]
  BY <1>1, MergedUnfolds
<1>3. /\ N \in Nat /\ q \in [1..N -> R]
      /\ \A k, l \in 1..N : k < l => q[k][1] <= q[l][1]
      /\ \A s \in R : \E k \in 1..N : q[k] = s
  BY <1>1, RangesInOrder
<1> HIDE DEF N, q
<1> DEFINE lo == [n \in 1..N |-> q[n][1]]  hi == [n \in 1..N |-> q[n][2]]
<1>4. ASSUME NEW n \in 1..N
      PROVE  /\ q[n] \in Int \X Int /\ q[n][1] \in Int /\ q[n][2] \in Int
             /\ F <= q[n][1] /\ q[n][1] < q[n][2] /\ q[n][2] <= T
  <2>1. q[n] \in R
    BY <1>3
  <2>2. q[n] \in Int \X Int
    BY <1>1, <2>1 DEF AreRanges
  <2>3. F <= q[n][1] /\ q[n][1] < q[n][2] /\ q[n][2] <= T
    BY <2>1 DEF Tile
  <2> QED BY <2>2, <2>3
<1>5. \A n \in 1..N : /\ lo[n] = q[n][1] /\ hi[n] = q[n][2]
                      /\ lo[n] \in Int /\ hi[n] \in Int
                      /\ F <= lo[n] /\ lo[n] < hi[n] /\ hi[n] <= T
  BY <1>4
<1>6. \A k, l \in 1..N : k < l => lo[k] <= lo[l]
  BY <1>3
<1>7. ASSUME NEW p \in F..(T - 1) PROVE \E n \in 1..N : lo[n] <= p /\ p < hi[n]
  <2>1. PICK r \in R : r[1] <= p /\ p < r[2]
    BY DEF Tile
  <2>2. PICK n \in 1..N : q[n] = r
    BY <1>3
  <2> QED BY <2>1, <2>2
<1> HIDE DEF lo, hi
<1>8. 1 \in 1..N /\ lo[1] = F
  <2>1. F \in F..(T - 1)
    OBVIOUS
  <2>2. PICK n \in 1..N : lo[n] <= F /\ F < hi[n]
    BY <1>7, <2>1
  <2>3. 1 \in 1..N /\ (n = 1 \/ 1 < n)
    BY <1>3
  <2>4. lo[1] <= lo[n]
    BY <1>5, <1>6, <2>3
  <2> QED BY <1>5, <2>2, <2>3, <2>4
<1> DEFINE Good(n) == \E h \in Int : /\ g[n] = <<<<F, h>>>> /\ F < h /\ h <= T
                                     /\ \A m \in 1..n : hi[m] <= h
           S == {m \in Nat : m + 1 <= N => Good(m + 1)}
<1>9. 0 \in S
  <2>1. g[1] = Merge(<<>>, q[1])
    <3>1. 1 - 1 = 0
      OBVIOUS
    <3> QED BY <1>2, <1>8, <3>1
  <2>2. Merge(<<>>, q[1]) = <<q[1]>>
    BY DEF Merge
  <2>3. q[1] = <<F, hi[1]>>
    <3>1. q[1] \in Int \X Int /\ q[1][1] = F /\ q[1][2] = hi[1]
      BY <1>4, <1>5, <1>8
    <3> QED BY <3>1
  <2>4. hi[1] \in Int /\ F < hi[1] /\ hi[1] <= T
    BY <1>5, <1>8
  <2>5. g[1] = <<<<F, hi[1]>>>>
    BY <2>1, <2>2, <2>3
  <2>6. \A m \in 1..1 : hi[m] <= hi[1]
    BY <2>4
  <2>7. Good(1)
    BY <2>4, <2>5, <2>6
  <2> QED BY <2>7
<1>10. ASSUME NEW m \in Nat, m \in S PROVE m + 1 \in S
  <2> SUFFICES ASSUME (m + 1) + 1 <= N PROVE Good((m + 1) + 1)
    OBVIOUS
  <2> DEFINE n == m + 1
  <2>1. Good(n) /\ n \in 1..N /\ n + 1 \in 1..N /\ (n + 1) - 1 = n
    BY <1>3, <1>10, SMTT(30)
  <2> HIDE DEF n
  <2> SUFFICES Good(n + 1)
    BY DEF n
  <2>2. PICK h \in Int : /\ g[n] = <<<<F, h>>>> /\ F < h /\ h <= T
                         /\ \A l \in 1..n : hi[l] <= h
    BY <2>1
  <2> HIDE DEF Good
  <2>3. lo[n + 1] <= h
    <3> SUFFICES ASSUME ~(lo[n + 1] <= h) PROVE FALSE
      OBVIOUS
    <3>1. lo[n + 1] \in Int /\ lo[n + 1] < T
      BY <1>5, <2>1
    <3>2. h \in F..(T - 1)
      BY <2>2, <3>1
    <3>3. PICK k \in 1..N : lo[k] <= h /\ h < hi[k]
      BY <1>7, <3>2
    <3>4. CASE k \in 1..n
      <4>1. hi[k] <= h /\ hi[k] \in Int
        BY <1>5, <2>2, <3>4
      <4> QED BY <3>3, <4>1
    <3>5. CASE ~(k \in 1..n)
      <4>1. k = n + 1 \/ n + 1 < k
        BY <1>3, <2>1, <3>5
      <4>2. lo[n + 1] <= lo[k] /\ lo[k] \in Int
        BY <1>5, <1>6, <2>1, <4>1
      <4> QED BY <3>1, <3>3, <4>2
    <3> QED BY <3>4, <3>5
  <2>4. g[n + 1] = Merge(<<<<F, h>>>>, q[n + 1])
    BY <1>2, <2>1, <2>2
  <2> DEFINE e == hi[n + 1]  new == IF h >= e THEN h ELSE e
  <2>5. /\ q[n + 1] \in Int \X Int /\ q[n + 1][1] <= h /\ e = q[n + 1][2]
        /\ e \in Int /\ e <= T
    BY <1>4, <1>5, <2>1, <2>3
  <2> HIDE DEF e
  <2>6. g[n + 1] = <<<<F, new>>>>
    BY <2>4, <2>5, MergeOne
  <2>7. new \in Int /\ F < new /\ new <= T /\ h <= new /\ e <= new
    BY <2>2, <2>5
  <2> HIDE DEF new
  <2>8. ASSUME NEW l \in 1..(n + 1) PROVE hi[l] <= new
    <3>1. CASE l = n + 1
      BY <2>7, <3>1 DEF e
    <3>2. CASE l # n + 1
      <4>1. l \in 1..n /\ l \in 1..N
        BY <1>3, <2>1, <3>2
      <4>2. hi[l] <= h /\ hi[l] \in Int
        BY <1>5, <2>2, <4>1
      <4> QED BY <2>7, <4>2
    <3> QED BY <3>1, <3>2
  <2> QED BY <2>6, <2>7, <2>8 DEF Good
<1>11. Good(N)
  <2>1. N - 1 \in Nat /\ (N - 1) + 1 = N
    BY <1>3, <1>8
  <2> HIDE DEF S, Good
  <2>2. N - 1 \in S
    BY <1>9, <1>10, <2>1, NatSetInduction
  <2>3. (N - 1) + 1 <= N => Good((N - 1) + 1)
    BY <2>2 DEF S
  <2> QED BY <1>3, <2>1, <2>3
<1>12. PICK h \in Int : /\ g[N] = <<<<F, h>>>> /\ F < h /\ h <= T
                        /\ \A l \in 1..N : hi[l] <= h
  BY <1>11
<1>13. h = T
  <2>1. T - 1 \in F..(T - 1)
    OBVIOUS
  <2>2. PICK n \in 1..N : lo[n] <= T - 1 /\ T - 1 < hi[n]
    BY <1>7, <2>1
  <2>3. hi[n] <= h /\ hi[n] \in Int
    BY <1>5, <1>12
  <2> QED BY <1>12, <2>2, <2>3
<1> QED BY <1>2, <1>12, <1>13

(* A place on a page is found again in chunks that hold all of it.         *)
EvidenceIs(plan, file, k, text, from, to) ==
  MapEvidence(plan, file, [page |-> k, from |-> from, to |-> to, hash |-> text])
    = {c \in plan : c.file = file /\ Touches(c, k, from, to)}

(* When chunks cover an interval of a page between them, the mapping of the *)
(* interval is them.                                                        *)
LEMMA EvidenceMapped ==
  ASSUME NEW plan, IsFiniteSet(plan), NEW file, NEW k \in Nat, NEW text \in Text,
         NEW from \in Nat, NEW to \in Nat, from < to,
         \A c \in plan : c.spans \in Seq(SpanSet),
         \A c \in plan : \A n \in 1..Len(c.spans) : NonEmpty(c.spans[n]),
         \A c \in plan : c.file = file =>
           \A n \in 1..Len(c.spans) : c.spans[n].page = k => c.spans[n].hash = text,
         \A x \in from..(to - 1) : \E c \in plan :
           c.file = file /\ \E n \in 1..Len(c.spans) : OnSpan(c.spans[n], k, x)
  PROVE  EvidenceIs(plan, file, k, text, from, to)
<1> DEFINE place == [page |-> k, from |-> from, to |-> to, hash |-> text]
           On(c) == SpansOn(c, file, place)
           spans == UNION {On(c) : c \in plan}
           Meets(s) == s.hash = place.hash /\ Clipped(s, place)[1] < Clipped(s, place)[2]
           R == {Clipped(s, place) : s \in {s \in spans : Meets(s)}}
<1>1. place.page = k /\ place.from = from /\ place.to = to /\ place.hash = text
  OBVIOUS
<1> HIDE DEF place
<1>2. ASSUME NEW c \in plan
      PROVE  /\ DOMAIN c.spans = 1..Len(c.spans) /\ Len(c.spans) \in Nat
             /\ \A n \in 1..Len(c.spans) : c.spans[n] \in SpanSet
  <2>1. c.spans \in Seq(SpanSet)
    OBVIOUS
  <2> QED BY <2>1
<1>3. ASSUME NEW c \in plan, NEW s \in On(c)
      PROVE  /\ c.file = file /\ s.page = k /\ s.hash = text
             /\ s.from \in Nat /\ s.to \in Nat
  <2>1. s \in ToSet(c.spans) /\ c.file = file /\ s.page = k
    BY <1>1 DEF SpansOn
  <2>2. PICK n \in DOMAIN c.spans : s = c.spans[n]
    BY <2>1 DEF ToSet
  <2>3. n \in 1..Len(c.spans) /\ s \in SpanSet
    BY <1>2, <2>2
  <2>4. s.hash = text
    BY <2>1, <2>2, <2>3
  <2> QED BY <2>1, <2>3, <2>4 DEF SpanSet
<1>4. \A s \in spans : s.page = k /\ s.hash = text /\ s.from \in Nat /\ s.to \in Nat
  <2> HIDE DEF On
  <2> QED BY <1>3
<1>5. ASSUME NEW c \in plan, NEW n \in 1..Len(c.spans), c.file = file, c.spans[n].page = k
      PROVE  c.spans[n] \in spans
  <2>1. c.spans[n] \in ToSet(c.spans)
    BY <1>2 DEF ToSet
  <2>2. c.spans[n] \in On(c)
    BY <1>1, <1>5, <2>1 DEF SpansOn
  <2> HIDE DEF On
  <2> QED BY <2>2
<1>6. IsFiniteSet(spans)
  <2>1. ASSUME NEW c \in plan PROVE IsFiniteSet(On(c))
    <3>1. IsFiniteSet(1..Len(c.spans))
      BY <1>2, FS_Interval
    <3> DEFINE D == 1..Len(c.spans)  I == {c.spans[n] : n \in D}
    <3>2. IsFiniteSet(I)
      <4> HIDE DEF D
      <4> DEFINE h == [n \in D |-> c.spans[n]]
      <4>1. h \in Surjection(D, I)
        BY DEF Surjection
      <4> HIDE DEF h, I
      <4> QED BY <3>1, <4>1, FS_Surjection DEF D
    <3>3. On(c) \subseteq I
      BY <1>2 DEF SpansOn, ToSet
    <3> QED BY <3>2, <3>3, FS_Subset
  <2> DEFINE SS == {On(c) : c \in plan}
  <2>2. IsFiniteSet(SS)
    <3> DEFINE h == [c \in plan |-> On(c)]
    <3>1. h \in Surjection(plan, SS)
      BY DEF Surjection
    <3> HIDE DEF h, SS
    <3> QED BY <3>1, FS_Surjection
  <2>3. \A s \in SS : IsFiniteSet(s)
    BY <2>1
  <2>4. spans = UNION SS
    OBVIOUS
  <2> HIDE DEF SS, spans
  <2> QED BY <2>2, <2>3, <2>4, FS_UNION
<1> HIDE DEF spans
<1> DEFINE C(s) == Clipped(s, place)
<1>7. ASSUME NEW s \in spans
      PROVE  /\ C(s)[1] = (IF s.from >= from THEN s.from ELSE from)
             /\ C(s)[2] = (IF s.to <= to THEN s.to ELSE to)
             /\ C(s) = <<C(s)[1], C(s)[2]>>
             /\ C(s)[1] \in Nat /\ C(s)[2] \in Nat
             /\ Meets(s) <=> C(s)[1] < C(s)[2]
  <2>1. s.from \in Int /\ s.to \in Int /\ s.from \in Nat /\ s.to \in Nat /\ s.hash = place.hash
    BY <1>1, <1>4
  <2>2. Max({s.from, from}) = IF s.from >= from THEN s.from ELSE from
    <3> DEFINE sf == s.from
    <3>1. sf \in Int /\ from \in Int
      BY <2>1
    <3> HIDE DEF sf, R, Meets, C, On
    <3>2. Max({sf, from}) = IF sf >= from THEN sf ELSE from
      BY <3>1, MinMaxOfTwo
    <3> QED BY <3>2 DEF sf
  <2>3. Min({s.to, to}) = IF s.to <= to THEN s.to ELSE to
    <3> DEFINE st == s.to
    <3>1. st \in Int /\ to \in Int
      BY <2>1
    <3> HIDE DEF st, R, Meets, C, On
    <3>2. Min({st, to}) = IF st <= to THEN st ELSE to
      BY <3>1, MinMaxOfTwo
    <3> QED BY <3>2 DEF st
  <2>4. C(s) = <<Max({s.from, from}), Min({s.to, to})>>
    BY <1>1 DEF Clipped
  <2>5. C(s)[1] = Max({s.from, from}) /\ C(s)[2] = Min({s.to, to})
    BY <2>4
  <2>6. Meets(s) <=> C(s)[1] < C(s)[2]
    BY <2>1
  <2> HIDE DEF C, Meets
  <2> QED BY <2>1, <2>2, <2>3, <2>4, <2>5, <2>6
<1>8. R = {C(s) : s \in {s \in spans : Meets(s)}}
  OBVIOUS
<1> HIDE DEF C, R
<1>9. Tile(R, from, to)
  <2>1. IsFiniteSet(R)
    <3> DEFINE M == {s \in spans : Meets(s)}  h == [s \in M |-> C(s)]
    <3>1. IsFiniteSet(M)
      <4> HIDE DEF Meets
      <4> QED BY <1>6, FS_Subset
    <3>2. h \in Surjection(M, R)
      <4> HIDE DEF Meets
      <4> QED BY <1>8 DEF Surjection
    <3> HIDE DEF M, h
    <3> QED BY <3>1, <3>2, FS_Surjection
  <2>2. ASSUME NEW r \in R
        PROVE  r \in Int \X Int /\ from <= r[1] /\ r[1] < r[2] /\ r[2] <= to
    <3>1. PICK s \in spans : Meets(s) /\ r = C(s)
      <4> HIDE DEF Meets
      <4> QED BY <1>8
    <3> HIDE DEF Meets
    <3>2. /\ r[1] = (IF s.from >= from THEN s.from ELSE from)
          /\ r[2] = (IF s.to <= to THEN s.to ELSE to)
          /\ r[1] \in Nat /\ r[2] \in Nat /\ r[1] < r[2]
          /\ s.from \in Nat /\ s.to \in Nat
      BY <1>4, <1>7, <3>1
    <3>3. r = <<r[1], r[2]>>
      BY <1>7, <3>1
    <3>4. r \in Int \X Int
      BY <3>2, <3>3
    <3> QED BY <3>2, <3>4
  <2>3. ASSUME NEW p \in from..(to - 1) PROVE \E r \in R : r[1] <= p /\ p < r[2]
    <3>1. PICK c \in plan : /\ c.file = file
                              /\ \E n \in 1..Len(c.spans) : OnSpan(c.spans[n], k, p)
      OBVIOUS
    <3>2. PICK n \in 1..Len(c.spans) : OnSpan(c.spans[n], k, p)
      BY <3>1
    <3> DEFINE s == c.spans[n]
    <3>3. s.page = k /\ s.from <= p /\ p < s.to
      BY <3>2 DEF OnSpan
    <3>4. s \in spans
      BY <1>5, <3>1, <3>3
    <3> HIDE DEF s, Meets
    <3>5. s.from \in Nat /\ s.to \in Nat /\ p \in Int /\ from <= p /\ p < to
      BY <1>4, <3>4
    <3>6. C(s)[1] <= p /\ p < C(s)[2] /\ C(s)[1] \in Nat /\ C(s)[2] \in Nat
      BY <1>7, <3>3, <3>4, <3>5
    <3>7. Meets(s)
      BY <1>7, <3>4, <3>5, <3>6
    <3> QED BY <1>8, <3>4, <3>6, <3>7
  <2> QED BY <2>1, <2>2, <2>3 DEF Tile, AreRanges
<1>10. Merged(R) = <<<<from, to>>>>
  BY <1>9, MergedIs
<1>11. Len(Merged(R)) = 1 /\ Merged(R)[1] = <<place.from, place.to>>
  BY <1>1, <1>10
<1>12. ~(spans # {} /\ \A s \in spans : s.hash # place.hash)
  BY <1>1, <1>4
<1>13. spans = UNION {SpansOn(c, file, place) : c \in plan}
  BY DEF spans
<1>14. R = {Clipped(s, place) : s \in {s \in spans : Meets(s)}}
  BY DEF R, C
<1>15. MapEvidence(plan, file, place) =
         {c \in plan : \E s \in SpansOn(c, file, place) : Meets(s)}
  <2> DEFINE X == {c \in plan : \E s \in SpansOn(c, file, place) : Meets(s)}
  <2>1. MapEvidence(plan, file, place) =
          IF \/ spans # {} /\ \A s \in spans : s.hash # place.hash
             \/ Len(Merged(R)) # 1
             \/ Merged(R)[1] # <<place.from, place.to>>
          THEN None
          ELSE X
    BY <1>13, <1>14, Zenon DEF MapEvidence
  <2> QED BY <1>11, <1>12, <2>1
<1>16. ASSUME NEW c \in plan
       PROVE  (\E s \in SpansOn(c, file, place) : Meets(s))
                <=> (c.file = file /\ Touches(c, k, from, to))
  <2>1. ASSUME NEW s \in SpansOn(c, file, place), Meets(s)
        PROVE  c.file = file /\ Touches(c, k, from, to)
    <3>1. s \in ToSet(c.spans) /\ c.file = file /\ s.page = k
      BY <1>1 DEF SpansOn
    <3>2. s \in spans
      BY <1>13
    <3>3. s.from \in Nat /\ s.to \in Nat
      BY <1>4, <3>2
    <3>4. C(s)[1] < C(s)[2]
      BY <1>7, <2>1, <3>2
    <3>5. s.from < to /\ from < s.to
      BY <1>7, <3>2, <3>3, <3>4
    <3> QED BY <3>1, <3>5 DEF Touches
  <2>2. ASSUME c.file = file, Touches(c, k, from, to)
        PROVE  \E s \in SpansOn(c, file, place) : Meets(s)
    <3>1. PICK s \in ToSet(c.spans) : s.page = k /\ s.from < to /\ from < s.to
      BY <2>2 DEF Touches
    <3>2. s \in SpansOn(c, file, place)
      BY <1>1, <2>2, <3>1 DEF SpansOn
    <3>3. s \in spans
      BY <1>13, <3>2
    <3>4. s.from \in Nat /\ s.to \in Nat
      BY <1>4, <3>3
    <3>5. s.from < s.to
      <4>1. PICK n \in DOMAIN c.spans : s = c.spans[n]
        BY <3>1 DEF ToSet
      <4> QED BY <1>2, <4>1 DEF NonEmpty
    <3>6. C(s)[1] < C(s)[2]
      BY <1>7, <3>1, <3>3, <3>4, <3>5
    <3>7. Meets(s)
      BY <1>7, <3>3, <3>6
    <3> QED BY <3>2, <3>7
  <2> QED BY <2>1, <2>2
<1> HIDE DEF Meets
<1> QED BY <1>15, <1>16 DEF place, EvidenceIs

(***************************************************************************)
(* The operators of PdfIngest: sorted lists, documents that are split, and *)
(* what a corpus of notes declares                                         *)
(***************************************************************************)

(* Sequences put together: every element of every part stands, in order,   *)
(* where its part begins.                                                  *)
Flattens(r, seqs, off) ==
  /\ off \in [1..(Len(seqs) + 1) -> Nat]
  /\ off[1] = 0
  /\ \A k \in 1..Len(seqs) : off[k + 1] = off[k] + Len(seqs[k])
  /\ Len(r) = off[Len(seqs) + 1]
  /\ \A k \in 1..Len(seqs) : \A i \in 1..Len(seqs[k]) : r[off[k] + i] = seqs[k][i]

(* The concatenation of two sequences, member by member.                    *)
LEMMA ConcatIs ==
  ASSUME NEW R, NEW s \in Seq(R), NEW t \in Seq(R), NEW u, u = s \o t
  PROVE  /\ u \in Seq(R)
         /\ Len(u) = Len(s) + Len(t)
         /\ \A i \in 1..Len(s) : u[i] = s[i]
         /\ \A i \in 1..Len(t) : u[Len(s) + i] = t[i]
OBVIOUS

(* A flattened list of sequences has each of them, at an offset of its own. *)
LEMMA FlattenIs ==
  ASSUME NEW R, NEW seqs \in Seq(Seq(R)), NEW r, r = FlattenSeq(seqs)
  PROVE  r \in Seq(R) /\ \E off : Flattens(r, seqs, off)
<1> DEFINE N == Len(seqs)
           V == Seq(R)
           step == [kv \in (2..N) \X V |-> kv[2] \o seqs[kv[1]]]
           Equation(f) == f = [i \in 1..N |-> IF i = 1 THEN seqs[i] ELSE f[i - 1] \o seqs[i]]
<1>1. N \in Nat /\ \A k \in 1..N : seqs[k] \in V /\ Len(seqs[k]) \in Nat
  OBVIOUS
<1>2. CASE N = 0
  <2>1. seqs = <<>> /\ r = <<>>
    BY <1>2 DEF FlattenSeq
  <2> DEFINE none == [k \in 1..1 |-> 0]
  <2>2. none \in [1..1 -> Nat] /\ none[1] = 0
    OBVIOUS
  <2> HIDE DEF none
  <2>3. Len(seqs) = 0 /\ Len(r) = 0 /\ 0 + 1 = 1 /\ 1..0 = {}
    BY <2>1
  <2>4. Flattens(r, seqs, none)
    <3>1. /\ none \in [1..(Len(seqs) + 1) -> Nat]
          /\ Len(r) = none[Len(seqs) + 1]
      BY <2>2, <2>3
    <3>2. \A k \in 1..Len(seqs) : FALSE
      BY <2>3
    <3>3. \A k \in 1..Len(seqs) : none[k + 1] = none[k] + Len(seqs[k])
      BY <3>2
    <3>4. \A k \in 1..Len(seqs) : \A i \in 1..Len(seqs[k]) : r[none[k] + i] = seqs[k][i]
      BY <3>2
    <3> QED BY <2>2, <3>1, <3>3, <3>4 DEF Flattens
  <2>5. r \in Seq(R)
    <3>1. <<>> \in Seq(R)
      OBVIOUS
    <3> QED BY <2>1, <3>1
  <2> HIDE DEF Equation, step, N, V
  <2> QED BY <2>4, <2>5
<1>3. CASE N # 0
  <2>1. N >= 1
    BY <1>1, <1>3
  <2>2. step \in [((1 + 1)..N) \X V -> V]
    <3> SUFFICES ASSUME NEW kv \in (2..N) \X V PROVE kv[2] \o seqs[kv[1]] \in V
      OBVIOUS
    <3>1. kv[2] \in V /\ kv[1] \in 1..N
      BY <1>1
    <3>2. seqs[kv[1]] \in V
      BY <1>1, <3>1
    <3> QED BY <3>1, <3>2, ConcatIs
  <2>3. PICK f : Solution(f, 1, N, V, seqs[1], step)
    <3>1. 1 \in Int /\ N \in Int /\ 1 <= N /\ seqs[1] \in V
      BY <1>1, <2>1
    <3> HIDE DEF step, N, V
    <3> QED BY <2>2, <3>1, RecursionExists
  <2>4. /\ f \in [1..N -> V] /\ f[1] = seqs[1]
        /\ \A k \in 2..N : f[k] = step[<<k, f[k - 1]>>]
    <3> HIDE DEF step, N, V
    <3> QED BY <2>3 DEF Solution
  <2>5. ASSUME NEW k \in 2..N PROVE f[k] = f[k - 1] \o seqs[k]
    <3>1. <<k, f[k - 1]>> \in (2..N) \X V
      <4> HIDE DEF N, V, step
      <4>1. k - 1 \in 1..N
        BY <1>1
      <4> QED BY <2>4, <4>1
    <3>2. step[<<k, f[k - 1]>>] = f[k - 1] \o seqs[k]
      <4> HIDE DEF N, V
      <4> QED BY <3>1
    <3> HIDE DEF step, N, V
    <3> QED BY <2>4, <3>2
  <2>6. Equation(f)
    <3>1. f = [i \in 1..N |-> f[i]]
      BY <2>4
    <3>2. ASSUME NEW i \in 1..N
          PROVE  f[i] = IF i = 1 THEN seqs[i] ELSE f[i - 1] \o seqs[i]
      <4> HIDE DEF N, step, V
      <4>1. CASE i = 1
        BY <2>4, <4>1
      <4>2. CASE i # 1
        <5>1. i \in 2..N
          BY <1>1, <4>2
        <5> QED BY <2>5, <4>2, <5>1
      <4> QED BY <4>1, <4>2
    <3> HIDE DEF N
    <3> QED BY <3>1, <3>2
  <2> DEFINE g == CHOOSE g : Equation(g)
  <2>7. Equation(g)
    <3> HIDE DEF Equation
    <3> QED BY <2>6
  <2>8. r = g[N]
    BY <1>3 DEF FlattenSeq
  <2> HIDE DEF g, N, step
  <2>9. g[1] = seqs[1] /\ \A k \in 2..N : g[k] = g[k - 1] \o seqs[k]
    <3>1. \A i \in 1..N : g[i] = IF i = 1 THEN seqs[i] ELSE g[i - 1] \o seqs[i]
      BY <2>7
    <3>2. 1 \in 1..N /\ \A k \in 2..N : k \in 1..N /\ k # 1
      BY <1>1, <2>1
    <3> QED BY <3>1, <3>2
  <2> HIDE DEF Equation
  <2> DEFINE off == [k \in 1..(N + 1) |-> IF k = 1 THEN 0 ELSE Len(g[k - 1])]
             Good(k) == /\ g[k] \in V
                        /\ Len(g[k]) \in Nat
                        /\ Len(g[k]) = off[k] + Len(seqs[k])
                        /\ \A l \in 1..k : off[l] \in Nat /\ off[l] + Len(seqs[l]) <= Len(g[k])
                        /\ \A l \in 1..k : \A i \in 1..Len(seqs[l]) : g[k][off[l] + i] = seqs[l][i]
             T == {m \in Nat : m + 1 <= N => Good(m + 1)}
  <2>10. off[1] = 0 /\ \A k \in 1..N : off[k + 1] = Len(g[k])
    BY <1>1, <2>1
  <2> HIDE DEF off, V
  <2>11. 0 \in T
    <3>1. Good(1)
      <4>1. 1 \in 1..N /\ g[1] = seqs[1] /\ g[1] \in V /\ Len(g[1]) \in Nat
        BY <1>1, <2>1, <2>9
      <4> QED BY <2>10, <4>1
    <3> QED BY <3>1
  <2>12. ASSUME NEW m \in Nat, m \in T PROVE m + 1 \in T
    <3> SUFFICES ASSUME (m + 1) + 1 <= N PROVE Good((m + 1) + 1)
      OBVIOUS
    <3> DEFINE k == m + 1
    <3>1. Good(k) /\ k \in 1..N /\ k + 1 \in 1..N /\ k + 1 \in 2..N
      BY <1>1, <2>12
    <3> HIDE DEF k, Good
    <3> SUFFICES Good(k + 1)
      BY DEF k
    <3> DEFINE s == g[k]  t == seqs[k + 1]  u == g[k + 1]
    <3>2. u = s \o t
      <4>1. (k + 1) - 1 = k
        BY <3>1
      <4> QED BY <2>9, <3>1, <4>1
    <3>3. s \in V /\ t \in V /\ Len(s) \in Nat /\ Len(t) \in Nat
      BY <1>1, <3>1 DEF Good
    <3>4. off[k + 1] = Len(s)
      BY <2>10, <3>1
    <3>5. /\ u \in V /\ Len(u) = Len(s) + Len(t)
          /\ \A i \in 1..Len(s) : u[i] = s[i]
          /\ \A i \in 1..Len(t) : u[Len(s) + i] = t[i]
      <4> HIDE DEF s, t, u
      <4>1. s \in Seq(R) /\ t \in Seq(R)
        BY <3>3 DEF V
      <4>2. u \in V /\ Len(u) = Len(s) + Len(t)
        BY <3>2, <4>1, ConcatIs DEF V
      <4>3. \A i \in 1..Len(s) : u[i] = s[i]
        BY <3>2, <4>1, ConcatIs
      <4>4. \A i \in 1..Len(t) : u[Len(s) + i] = t[i]
        BY <3>2, <4>1, ConcatIs
      <4> QED BY <4>2, <4>3, <4>4
    <3>6. ASSUME NEW l \in 1..(k + 1)
          PROVE  /\ off[l] \in Nat /\ off[l] + Len(seqs[l]) <= Len(u)
                 /\ \A i \in 1..Len(seqs[l]) : u[off[l] + i] = seqs[l][i]
      <4>1. CASE l = k + 1
        <5>1. off[l] = Len(s) /\ Len(seqs[l]) = Len(t) /\ seqs[l] = t
          BY <3>4, <4>1
        <5> HIDE DEF s, u, t
        <5> QED BY <3>3, <3>5, <5>1
      <4>2. CASE l # k + 1
        <5>1. l \in 1..k /\ l \in 1..N
          BY <1>1, <3>1, <4>2
        <5>2. /\ off[l] \in Nat /\ off[l] + Len(seqs[l]) <= Len(s) /\ Len(seqs[l]) \in Nat
              /\ \A i \in 1..Len(seqs[l]) : s[off[l] + i] = seqs[l][i]
          BY <1>1, <3>1, <5>1 DEF Good
        <5> HIDE DEF s, u, t
        <5>3. ASSUME NEW i \in 1..Len(seqs[l]) PROVE u[off[l] + i] = seqs[l][i]
          <6>1. off[l] + i \in 1..Len(s)
            BY <3>3, <5>2
          <6> QED BY <3>5, <5>2, <6>1
        <5> QED BY <3>3, <3>5, <5>2, <5>3
      <4> QED BY <4>1, <4>2
    <3>7. Len(u) \in Nat /\ Len(u) = off[k + 1] + Len(seqs[k + 1])
      <4> HIDE DEF s, u
      <4> QED BY <3>3, <3>4, <3>5
    <3> QED BY <3>5, <3>6, <3>7 DEF Good
  <2>13. ASSUME NEW k \in 1..N PROVE Good(k)
    <3> HIDE DEF T, Good
    <3>1. k - 1 \in Nat /\ (k - 1) + 1 = k /\ k <= N
      BY <1>1
    <3>2. k - 1 \in T
      BY <2>11, <2>12, <3>1, NatSetInduction
    <3>3. (k - 1) + 1 <= N => Good((k - 1) + 1)
      BY <3>2 DEF T
    <3> QED BY <3>1, <3>3
  <2>14. Good(N) /\ N \in 1..N
    BY <1>1, <2>1, <2>13
  <2>15. Flattens(r, seqs, off)
    <3>1. off[N + 1] = Len(r) /\ Len(r) \in Nat
      BY <2>8, <2>10, <2>14
    <3>2. \A k \in 1..N : off[k] \in Nat
      BY <2>14
    <3>3. off = [k \in 1..(N + 1) |-> off[k]]
      BY DEF off
    <3>4. \A k \in 1..(N + 1) : off[k] \in Nat
      <4> HIDE DEF Good
      <4> QED BY <1>1, <3>1, <3>2
    <3>5. off \in [1..(N + 1) -> Nat]
      BY <3>3, <3>4
    <3>6. \A k \in 1..N : off[k + 1] = off[k] + Len(seqs[k])
      BY <2>10, <2>13
    <3>7. \A k \in 1..N : \A i \in 1..Len(seqs[k]) : r[off[k] + i] = seqs[k][i]
      BY <2>8, <2>14
    <3> HIDE DEF Good
    <3> QED BY <2>10, <3>1, <3>5, <3>6, <3>7 DEF Flattens, N
  <2> QED BY <2>8, <2>14, <2>15 DEF V
<1> QED BY <1>2, <1>3

(* Where an element of the whole stands, and where it comes from.          *)
LEMMA FlattenHas ==
  ASSUME NEW R, NEW seqs \in Seq(Seq(R)), NEW r, NEW off, Flattens(r, seqs, off)
  PROVE  /\ \A k \in 1..Len(seqs) : \A i \in 1..Len(seqs[k]) : off[k] + i \in 1..Len(r)
         /\ \A p \in 1..Len(r) : \E k \in 1..Len(seqs) : \E i \in 1..Len(seqs[k]) :
              p = off[k] + i /\ r[p] = seqs[k][i]
         /\ \A k, l \in 1..Len(seqs) : \A i \in 1..Len(seqs[k]), j \in 1..Len(seqs[l]) :
              k < l => off[k] + i < off[l] + j
<1> DEFINE N == Len(seqs)
<1>1. /\ N \in Nat /\ \A k \in 1..N : Len(seqs[k]) \in Nat
      /\ off \in [1..(N + 1) -> Nat] /\ off[1] = 0 /\ Len(r) = off[N + 1]
      /\ \A k \in 1..N : off[k + 1] = off[k] + Len(seqs[k])
      /\ \A k \in 1..N : \A i \in 1..Len(seqs[k]) : r[off[k] + i] = seqs[k][i]
  BY DEF Flattens
<1> HIDE DEF N
<1>2. /\ \A i, j \in 1..(N + 1) : i <= j => off[i] <= off[j]
      /\ \A p \in off[1]..(off[N + 1] - 1) : \E i \in 1..N : off[i] <= p /\ p < off[i + 1]
  <2>1. \A i \in 1..N : off[i] <= off[i + 1]
    <3> TAKE i \in 1..N
    <3>1. i \in 1..(N + 1)
      BY <1>1
    <3>2. off[i] \in Nat /\ off[i + 1] = off[i] + Len(seqs[i]) /\ Len(seqs[i]) \in Nat
      BY <1>1, <3>1
    <3> QED BY <3>2
  <2>2. off \in [1..(N + 1) -> Int]
    BY <1>1
  <2> QED BY <1>1, <2>1, <2>2, Staircase
<1>3. ASSUME NEW k \in 1..N, NEW i \in 1..Len(seqs[k])
      PROVE  /\ off[k] \in Nat /\ off[k + 1] \in Nat /\ off[k] + i \in Nat
             /\ 1 <= off[k] + i /\ off[k] + i <= off[k + 1]
  <2>1. k \in 1..(N + 1) /\ k + 1 \in 1..(N + 1)
    BY <1>1
  <2> QED BY <1>1, <2>1, SMTT(30)
<1>4. ASSUME NEW k \in 1..N, NEW i \in 1..Len(seqs[k]) PROVE off[k] + i \in 1..Len(r)
  <2>1. k + 1 \in 1..(N + 1) /\ N + 1 \in 1..(N + 1) /\ k + 1 <= N + 1
    BY <1>1
  <2>2. off[k + 1] <= off[N + 1] /\ off[N + 1] \in Nat
    BY <1>1, <1>2, <2>1
  <2> QED BY <1>1, <1>3, <2>2, SMTT(30)
<1>5. ASSUME NEW p \in 1..Len(r)
      PROVE  \E k \in 1..N : \E i \in 1..Len(seqs[k]) : p = off[k] + i /\ r[p] = seqs[k][i]
  <2>1. N + 1 \in 1..(N + 1)
    BY <1>1
  <2>2. p - 1 \in off[1]..(off[N + 1] - 1)
    BY <1>1, <2>1
  <2>3. PICK k \in 1..N : off[k] <= p - 1 /\ p - 1 < off[k + 1]
    BY <1>2, <2>2
  <2>4. k \in 1..(N + 1)
    BY <1>1
  <2>5. off[k] \in Nat /\ off[k + 1] = off[k] + Len(seqs[k]) /\ Len(seqs[k]) \in Nat
    BY <1>1, <2>4
  <2> DEFINE i == p - off[k]
  <2>6. i \in 1..Len(seqs[k]) /\ p = off[k] + i
    BY <2>3, <2>5
  <2> HIDE DEF i
  <2> QED BY <1>1, <2>6
<1>6. ASSUME NEW k \in 1..N, NEW l \in 1..N, NEW i \in 1..Len(seqs[k]),
             NEW j \in 1..Len(seqs[l]), k < l
      PROVE  off[k] + i < off[l] + j
  <2>1. k + 1 \in 1..(N + 1) /\ l \in 1..(N + 1) /\ k + 1 <= l
    BY <1>1, <1>6
  <2>2. off[k + 1] <= off[l] /\ off[l] \in Nat
    BY <1>1, <1>2, <2>1
  <2>3. off[k] + i <= off[k + 1] /\ off[k] + i \in Nat /\ off[k + 1] \in Nat
    BY <1>3
  <2>4. j \in Nat /\ 1 <= j
    BY <1>1
  <2> QED BY <2>2, <2>3, <2>4
<1> QED BY <1>4, <1>5, <1>6 DEF N


(* The orders the builder sorts in rearrange what they sort.               *)
TextBefore(doc, c, d) == Locate(doc.pages, c.text, c.spans) < Locate(doc.pages, d.text, d.spans)

(* The places of q in the order of the text.                                *)
TextPlaces(doc, q) ==
  Ordered(DOMAIN q, LAMBDA i, j :
    TextBefore(doc, q[i], q[j]) \/ (~TextBefore(doc, q[j], q[i]) /\ i < j))

(* Sorting the chunks of a document by their place leaves a rearrangement.  *)
LEMMA TextOrderRearranges ==
  ASSUME NEW doc, NEW q, NEW N \in Nat, DOMAIN q = 1..N,
         \A i \in 1..N : Locate(doc.pages, q[i].text, q[i].spans) \in Int
  PROVE  Rearranges(InTextOrder(doc, q), q)
<1> DEFINE key == [i \in 1..N |-> Locate(doc.pages, q[i].text, q[i].spans)]
           Before(i, j) == TextBefore(doc, q[i], q[j]) \/ (~TextBefore(doc, q[j], q[i]) /\ i < j)
           ahead == [i \in 1..N |-> {j \in 1..N : key[j] < key[i] \/ (~(key[i] < key[j]) /\ j < i)}]
           order == TextPlaces(doc, q)
<1>1. InTextOrder(doc, q) = [k \in DOMAIN order |-> q[order[k]]]
  BY DEF InTextOrder, Sorted, TextPlaces, TextBefore
<1>2. IsFiniteSet(1..N) /\ Cardinality(1..N) = N
  <2>1. 1 \in Int /\ N \in Int
    OBVIOUS
  <2> QED BY <2>1, FS_Interval
<1>3. IsStrictOrder(1..N, ahead)
  <2>1. key \in [1..N -> Int]
    OBVIOUS
  <2> HIDE DEF key
  <2> QED BY <2>1, KeysOrder
<1>4. order = [k \in 1..N |-> CHOOSE s \in 1..N : Cardinality({r \in 1..N : Before(r, s)}) = k - 1]
  BY <1>2 DEF Ordered, TextPlaces
<1> HIDE DEF order
<1>6. order = [k \in 1..N |-> order[k]]
  <2> DEFINE Value(k) == CHOOSE s \in 1..N : Cardinality({r \in 1..N : Before(r, s)}) = k - 1
  <2>1. order = [k \in 1..N |-> Value(k)]
    BY <1>4
  <2> HIDE DEF Value
  <2> QED BY <2>1
<1>5. OrderedPlaces(order, N, ahead)
  <2>1. DOMAIN order = 1..N
    BY <1>4
  <2>2. ASSUME NEW k \in 1..N PROVE order[k] \in 1..N /\ Cardinality(ahead[order[k]]) = k - 1
    <3> DEFINE Is(s) == Cardinality({r \in 1..N : Before(r, s)}) = k - 1
    <3>1. PICK s \in 1..N : Cardinality(ahead[s]) = k - 1
      <4> DEFINE S == 1..N
      <4>1. IsFiniteSet(S) /\ IsStrictOrder(S, ahead) /\ k \in 1..Cardinality(S)
        BY <1>2, <1>3
      <4> HIDE DEF ahead, S
      <4>2. \E s \in S : Cardinality(ahead[s]) = k - 1
        BY <4>1, RanksFill
      <4> QED BY <4>2 DEF S
    <3>2. \A u \in 1..N : ahead[u] = {r \in 1..N : Before(r, u)}
      BY DEF TextBefore
    <3> HIDE DEF ahead
    <3>3. Is(s)
      BY <3>1, <3>2
    <3>4. order[k] = CHOOSE u \in 1..N : Is(u)
      BY <1>4
    <3>5. order[k] \in 1..N /\ Is(order[k])
      <4> HIDE DEF Is
      <4> QED BY <3>1, <3>3, <3>4
    <3> QED BY <3>2, <3>5
  <2> QED BY <1>6, <2>1, <2>2 DEF OrderedPlaces
<1> HIDE DEF ahead
<1> QED BY <1>1, <1>3, <1>5, RanksRearrange

(* The order of the inventory: by the paper, a missing one first.           *)
RecordBefore(r, s) == Rank(r.paper) < Rank(s.paper)

(* The places of q in that order.                                           *)
RecordPlaces(q) ==
  Ordered(DOMAIN q, LAMBDA i, j : RecordBefore(q[i], q[j]) \/ (~RecordBefore(q[j], q[i]) /\ i < j))

(* Sorting the inventory leaves a rearrangement.                            *)
LEMMA InventoryOrderRearranges ==
  ASSUME NEW N \in Nat, DOMAIN inventory = 1..N,
         \A i \in 1..N : Rank(inventory[i].paper) \in Int
  PROVE  Rearranges(InventoryInOrder, inventory)
<1> DEFINE q == inventory
           key == [i \in 1..N |-> Rank(q[i].paper)]
           Before(i, j) == RecordBefore(q[i], q[j]) \/ (~RecordBefore(q[j], q[i]) /\ i < j)
           ahead == [i \in 1..N |-> {j \in 1..N : key[j] < key[i] \/ (~(key[i] < key[j]) /\ j < i)}]
           order == RecordPlaces(q)
<1>1. InventoryInOrder = [k \in DOMAIN order |-> q[order[k]]]
  BY DEF InventoryInOrder, Sorted, RecordPlaces, RecordBefore
<1>2. IsFiniteSet(1..N) /\ Cardinality(1..N) = N
  <2>1. 1 \in Int /\ N \in Int
    OBVIOUS
  <2> QED BY <2>1, FS_Interval
<1>3. IsStrictOrder(1..N, ahead)
  <2>1. key \in [1..N -> Int]
    OBVIOUS
  <2> HIDE DEF key
  <2> QED BY <2>1, KeysOrder
<1>4. order = [k \in 1..N |-> CHOOSE s \in 1..N : Cardinality({r \in 1..N : Before(r, s)}) = k - 1]
  BY <1>2 DEF Ordered, RecordPlaces
<1> HIDE DEF order
<1>6. order = [k \in 1..N |-> order[k]]
  <2> DEFINE Value(k) == CHOOSE s \in 1..N : Cardinality({r \in 1..N : Before(r, s)}) = k - 1
  <2>1. order = [k \in 1..N |-> Value(k)]
    BY <1>4
  <2> HIDE DEF Value
  <2> QED BY <2>1
<1>5. OrderedPlaces(order, N, ahead)
  <2>1. DOMAIN order = 1..N
    BY <1>4
  <2>2. ASSUME NEW k \in 1..N PROVE order[k] \in 1..N /\ Cardinality(ahead[order[k]]) = k - 1
    <3> DEFINE Is(s) == Cardinality({r \in 1..N : Before(r, s)}) = k - 1
    <3>1. PICK s \in 1..N : Cardinality(ahead[s]) = k - 1
      <4> DEFINE S == 1..N
      <4>1. IsFiniteSet(S) /\ IsStrictOrder(S, ahead) /\ k \in 1..Cardinality(S)
        BY <1>2, <1>3
      <4> HIDE DEF ahead, S
      <4>2. \E s \in S : Cardinality(ahead[s]) = k - 1
        BY <4>1, RanksFill
      <4> QED BY <4>2 DEF S
    <3>2. \A u \in 1..N : ahead[u] = {r \in 1..N : Before(r, u)}
      BY DEF RecordBefore
    <3> HIDE DEF ahead
    <3>3. Is(s)
      BY <3>1, <3>2
    <3>4. order[k] = CHOOSE u \in 1..N : Is(u)
      BY <1>4
    <3>5. order[k] \in 1..N /\ Is(order[k])
      <4> HIDE DEF Is
      <4> QED BY <3>1, <3>3, <3>4
    <3> QED BY <3>2, <3>5
  <2> QED BY <1>6, <2>1, <2>2 DEF OrderedPlaces
<1> HIDE DEF ahead
<1> QED BY <1>1, <1>3, <1>5, RanksRearrange

(* The order of the documents: by paper, then by file.                      *)
DocumentBefore(d, e) == d.paper < e.paper \/ (d.paper = e.paper /\ d.file < e.file)

(* The places of q in that order.                                           *)
DocumentPlaces(q) ==
  Ordered(DOMAIN q, LAMBDA i, j :
            DocumentBefore(q[i], q[j]) \/ (~DocumentBefore(q[j], q[i]) /\ i < j))

(* Sorting the documents leaves a rearrangement.                            *)
LEMMA DocumentOrderRearranges ==
  ASSUME NEW N \in Nat, DOMAIN documents = 1..N,
         \A i \in 1..N : documents[i].paper \in Int /\ documents[i].file \in Int
  PROVE  Rearranges(DocumentsInOrder, documents)
<1> DEFINE q == documents
           k1 == [i \in 1..N |-> q[i].paper]
           k2 == [i \in 1..N |-> q[i].file]
           k3 == [i \in 1..N |-> i]
           Before(i, j) == DocumentBefore(q[i], q[j]) \/ (~DocumentBefore(q[j], q[i]) /\ i < j)
           ahead == [s \in 1..N |-> {r \in 1..N : Precedes(k1, k2, k3, r, s)}]
           order == DocumentPlaces(q)
<1>1. DocumentsInOrder = [k \in DOMAIN order |-> q[order[k]]]
  BY DEF DocumentsInOrder, Sorted, DocumentPlaces, DocumentBefore
<1>2. IsFiniteSet(1..N) /\ Cardinality(1..N) = N
  <2>1. 1 \in Int /\ N \in Int
    OBVIOUS
  <2> QED BY <2>1, FS_Interval
<1>3. IsStrictOrder(1..N, ahead)
  <2> DEFINE S == 1..N
  <2>1. k1 \in [S -> Int] /\ k2 \in [S -> Int] /\ k3 \in [S -> Int]
    OBVIOUS
  <2>2. \A r, s \in S : k1[r] = k1[s] /\ k2[r] = k2[s] /\ k3[r] = k3[s] => r = s
    OBVIOUS
  <2>3. ahead = [s \in S |-> {r \in S : Precedes(k1, k2, k3, r, s)}]
    OBVIOUS
  <2> HIDE DEF k1, k2, k3, S, ahead
  <2>5. KeysTell(S, k1, k2, k3)
    BY <2>1, <2>2 DEF KeysTell
  <2>4. IsStrictOrder(S, ahead)
    BY <2>3, <2>5, ThreeKeysOrder
  <2> QED BY <2>4 DEF S
<1>4. order = [k \in 1..N |-> CHOOSE s \in 1..N : Cardinality({r \in 1..N : Before(r, s)}) = k - 1]
  BY <1>2 DEF Ordered, DocumentPlaces
<1> HIDE DEF order
<1>6. order = [k \in 1..N |-> order[k]]
  <2> DEFINE Value(k) == CHOOSE s \in 1..N : Cardinality({r \in 1..N : Before(r, s)}) = k - 1
  <2>1. order = [k \in 1..N |-> Value(k)]
    BY <1>4
  <2> HIDE DEF Value
  <2> QED BY <2>1
<1>5. OrderedPlaces(order, N, ahead)
  <2>1. DOMAIN order = 1..N
    BY <1>4
  <2>2. ASSUME NEW k \in 1..N PROVE order[k] \in 1..N /\ Cardinality(ahead[order[k]]) = k - 1
    <3> DEFINE Is(s) == Cardinality({r \in 1..N : Before(r, s)}) = k - 1
    <3>1. PICK s \in 1..N : Cardinality(ahead[s]) = k - 1
      <4> DEFINE S == 1..N
      <4>1. IsFiniteSet(S) /\ IsStrictOrder(S, ahead) /\ k \in 1..Cardinality(S)
        BY <1>2, <1>3
      <4> HIDE DEF ahead, S
      <4>2. \E s \in S : Cardinality(ahead[s]) = k - 1
        BY <4>1, RanksFill
      <4> QED BY <4>2 DEF S
    <3>2. \A u \in 1..N : ahead[u] = {r \in 1..N : Before(r, u)}
      BY DEF DocumentBefore, Precedes
    <3> HIDE DEF ahead
    <3>3. Is(s)
      BY <3>1, <3>2
    <3>4. order[k] = CHOOSE u \in 1..N : Is(u)
      BY <1>4
    <3>5. order[k] \in 1..N /\ Is(order[k])
      <4> HIDE DEF Is
      <4> QED BY <3>1, <3>3, <3>4
    <3> QED BY <3>2, <3>5
  <2> QED BY <1>6, <2>1, <2>2 DEF OrderedPlaces
<1> HIDE DEF ahead
<1> QED BY <1>1, <1>3, <1>5, RanksRearrange


(* The chunks of one document, split for the model: every unit stands in   *)
(* the document, what a chunk held is held by its units, and two chunks    *)
(* alike leave two units with one name.                                    *)
Holding(q, k, z) == \E p \in DOMAIN q : \E n \in 1..Len(q[p].spans) : OnSpan(q[p].spans[n], k, z)

(* Two of one file: a chunk and the document or chunk it was cut from.      *)
SameSource(c, d) == c.file = d.file /\ c.hash = d.hash /\ c.paper = d.paper

(* The units r that the chunks q of a document were split into.             *)
SplitInto(doc, q, r) ==
  /\ Len(r) \in Nat /\ DOMAIN r = 1..Len(r) /\ r = [p \in 1..Len(r) |-> r[p]]
  /\ \A p \in 1..Len(r) :
       /\ IsChunk(r[p]) /\ r[p].spans # <<>>
       /\ \E i \in DOMAIN q : SameSource(r[p], q[i])
       /\ \E a, b \in Nat : StandsAt(doc.pages, r[p], a, b)
  /\ \A i \in DOMAIN q :
       \A k \in 1..Len(doc.pages) : \A z \in 0..(Len(doc.pages[k]) - 1) :
         /\ Locate(doc.pages, q[i].text, q[i].spans) <= PageStart(doc.pages, k) + z
         /\ PageStart(doc.pages, k) + z
              < Locate(doc.pages, q[i].text, q[i].spans) + Len(q[i].text)
         => Holding(r, k, z)
  /\ \A i, j \in DOMAIN q : i # j /\ Alike(q[i], q[j]) =>
       \E p, s \in 1..Len(r) : p # s /\ r[p].id = r[s].id

(* What splitting a document returns, when it does not fail.                *)
LEMMA SplitDocumentIs ==
  ASSUME NEW doc, IsDocument(doc), NEW q, NEW N \in Nat, DOMAIN q = 1..N,
         \A i \in 1..N : IsChunk(q[i]),
         NEW cuts, \A i \in 1..N : cuts[q[i].text] = None \/ cuts[q[i].text] \in CutSet,
         NEW r, r = SplitDocument(doc, q, cuts), r # None
  PROVE  SplitInto(doc, q, r)
<1> DEFINE o == InTextOrder(doc, q)
           P == doc.pages
           At(c) == Locate(P, c.text, c.spans)
           U(i) == UnitsOf(doc, o[i], cuts[o[i].text])
           seqs == [i \in DOMAIN o |-> U(i)]
           flat == FlattenSeq(seqs)
<1>1. /\ \A i \in 1..N : Splittable(doc, q[i], cuts[q[i].text])
      /\ r = Chained(flat)
  BY DEF SplitDocument
<1>2. ASSUME NEW i \in 1..N
      PROVE  /\ cuts[q[i].text] \in CutSet /\ At(q[i]) # None /\ At(q[i]) \in Nat
             /\ Len(q[i].text) \in Nat
  <2>1. cuts[q[i].text] # None /\ At(q[i]) # None
    BY <1>1 DEF Splittable
  <2> DEFINE c == q[i]  a == At(c)
  <2>2. IsChunk(c) /\ a = Locate(P, c.text, c.spans) /\ a # None /\ P \in Seq(Text)
    BY <2>1 DEF IsDocument
  <2> HIDE DEF c, a, P
  <2>3. a \in Nat /\ Len(c.text) \in Nat
    BY <2>2, PlacedAt
  <2> QED BY <2>1, <2>3 DEF c, a
<1>3. Rearranges(o, q)
  <2>1. \A i \in 1..N : Locate(doc.pages, q[i].text, q[i].spans) \in Int
    BY <1>2
  <2> HIDE DEF o
  <2>2. Rearranges(InTextOrder(doc, q), q)
    BY <2>1, TextOrderRearranges
  <2> QED BY <2>2 DEF o
<1> HIDE DEF o
<1>4. /\ DOMAIN o = 1..N
      /\ \A k \in 1..N : \E i \in 1..N : o[k] = q[i]
      /\ \A i \in 1..N : \E k \in 1..N : o[k] = q[i]
      /\ \A i, j \in 1..N : i # j => \E k, l \in 1..N : k # l /\ o[k] = q[i] /\ o[l] = q[j]
  <2>1. Shuffled(o, q, 1..N)
    BY <1>3, RearrangedHas
  <2> QED BY <2>1, Zenon DEF Shuffled
<1>5. ASSUME NEW k \in 1..N
      PROVE  /\ IsChunk(o[k]) /\ cuts[o[k].text] \in CutSet
             /\ Splittable(doc, o[k], cuts[o[k].text])
             /\ At(o[k]) \in Nat /\ Len(o[k].text) \in Nat
             /\ \E i \in 1..N : o[k] = q[i]
  <2>1. PICK i \in 1..N : o[k] = q[i]
    BY <1>4
  <2> HIDE DEF At
  <2> QED BY <1>1, <1>2, <2>1
<1>6. ASSUME NEW k \in 1..N PROVE AreUnits(doc, o[k], At(o[k]), U(k))
  <2> DEFINE c == o[k]  a == At(c)  V == U(k)  cut == cuts[c.text]
  <2>1. /\ IsChunk(c) /\ cut \in CutSet /\ Splittable(doc, c, cut)
        /\ a = Locate(doc.pages, c.text, c.spans) /\ V = UnitsOf(doc, c, cut)
    BY <1>5
  <2> HIDE DEF c, a, V, cut
  <2>2. AreUnits(doc, c, a, V)
    BY <2>1, UnitsAre
  <2> QED BY <2>2 DEF c, a, V
<1> HIDE DEF At
<1> DEFINE R == UNION {ToSet(U(k)) : k \in 1..N}
<1>7. seqs \in Seq(Seq(R)) /\ Len(seqs) = N /\ \A k \in 1..N : seqs[k] = U(k)
  <2>1. ASSUME NEW k \in 1..N PROVE U(k) \in Seq(R)
    <3> DEFINE V == U(k)
    <3>1. Len(V) \in Nat /\ DOMAIN V = 1..Len(V) /\ V = [i \in 1..Len(V) |-> V[i]]
      BY <1>6 DEF AreUnits
    <3>2. ToSet(V) \subseteq R
      OBVIOUS
    <3> HIDE DEF R, V
    <3>3. \A i \in 1..Len(V) : V[i] \in R
      BY <3>1, <3>2 DEF ToSet
    <3>4. V \in Seq(R)
      BY <3>1, <3>3
    <3> QED BY <3>4 DEF V
  <2>2. seqs = [k \in 1..N |-> U(k)]
    BY <1>4
  <2> HIDE DEF R, U, seqs
  <2> DEFINE V == Seq(R)
  <2>3. \A k \in 1..N : U(k) \in V
    BY <2>1
  <2> HIDE DEF V
  <2>4. seqs \in Seq(V) /\ Len(seqs) = N /\ \A k \in 1..N : seqs[k] = U(k)
    BY <2>2, <2>3
  <2> QED BY <2>4 DEF V
<1> HIDE DEF R, seqs
<1>8. flat \in Seq(R) /\ \E off : Flattens(flat, seqs, off)
  BY <1>7, FlattenIs
<1>9. PICK off : Flattens(flat, seqs, off)
  BY <1>8
<1> HIDE DEF flat
<1>10. /\ \A k \in 1..N : \A i \in 1..Len(U(k)) : off[k] + i \in 1..Len(flat)
       /\ \A p \in 1..Len(flat) : \E k \in 1..N : \E i \in 1..Len(U(k)) :
            p = off[k] + i /\ flat[p] = U(k)[i]
       /\ \A k, l \in 1..N : \A i \in 1..Len(U(k)), j \in 1..Len(U(l)) :
            k < l => off[k] + i < off[l] + j
  <2> HIDE DEF U
  <2>1. \A k \in 1..Len(seqs) : \A i \in 1..Len(seqs[k]) : off[k] + i \in 1..Len(flat)
    BY <1>7, <1>9, FlattenHas
  <2>2. \A p \in 1..Len(flat) : \E k \in 1..Len(seqs) : \E i \in 1..Len(seqs[k]) :
              p = off[k] + i /\ flat[p] = seqs[k][i]
    BY <1>7, <1>9, FlattenHas
  <2>3. \A k, l \in 1..Len(seqs) : \A i \in 1..Len(seqs[k]), j \in 1..Len(seqs[l]) :
              k < l => off[k] + i < off[l] + j
    BY <1>7, <1>9, FlattenHas
  <2>4. \A k \in 1..N : Len(U(k)) = Len(seqs[k]) /\ seqs[k] = U(k)
    BY <1>7
  <2>5. \A k \in 1..N : \A i \in 1..Len(U(k)) : off[k] + i \in 1..Len(flat)
    BY <1>7, <2>1
  <2>6. ASSUME NEW p \in 1..Len(flat)
        PROVE  \E k \in 1..N : \E i \in 1..Len(U(k)) : p = off[k] + i /\ flat[p] = U(k)[i]
    BY <1>7, <2>2
  <2>7. \A k, l \in 1..N : \A i \in 1..Len(U(k)), j \in 1..Len(U(l)) :
            k < l => off[k] + i < off[l] + j
    BY <1>7, <2>3
  <2> QED BY <2>5, <2>6, <2>7
<1>11. \A k \in 1..N : \A i \in 1..Len(U(k)) : flat[off[k] + i] = U(k)[i]
  <2> HIDE DEF U
  <2> QED BY <1>7, <1>9, SMTT(30) DEF Flattens
<1>12. ASSUME NEW k \in 1..N, NEW i \in 1..Len(U(k))
       PROVE  /\ IsChunk(U(k)[i]) /\ U(k)[i].spans # <<>> /\ SameSource(U(k)[i], o[k])
              /\ \E a, b \in Nat : StandsAt(P, U(k)[i], a, b)
  <2> DEFINE V == U(k)
  <2>1. /\ IsChunk(V[i]) /\ V[i].spans # <<>> /\ SameSource(V[i], o[k])
        /\ \E x, y \in Nat : StandsAt(P, V[i], At(o[k]) + x, At(o[k]) + y)
    BY <1>6 DEF AreUnits, SameSource
  <2>2. At(o[k]) \in Nat
    BY <1>5
  <2> HIDE DEF V
  <2>3. PICK x, y \in Nat : StandsAt(P, V[i], At(o[k]) + x, At(o[k]) + y)
    BY <2>1
  <2>4. At(o[k]) + x \in Nat /\ At(o[k]) + y \in Nat
    BY <2>2
  <2>5. \E a, b \in Nat : StandsAt(P, V[i], a, b)
    BY <2>3, <2>4
  <2> QED BY <2>1, <2>5 DEF V
<1> HIDE DEF U
<1> DEFINE M == Len(flat)
<1>13. M \in Nat /\ DOMAIN flat = 1..M
  BY <1>8
<1>14. \A p \in 1..M : IsChunk(flat[p])
  BY <1>10, <1>12
<1>15. /\ DOMAIN r = 1..M /\ Len(r) = M /\ r = [p \in 1..M |-> r[p]]
       /\ \A p \in 1..M : Relinked(r[p], flat[p])
  <2> HIDE DEF M
  <2>1. DOMAIN r = 1..M /\ Len(r) = M /\ r = [p \in 1..M |-> r[p]]
    BY <1>1, <1>13, <1>14, ChainedIs
  <2>2. \A p \in 1..M : Relinked(r[p], flat[p])
    BY <1>1, <1>13, <1>14, ChainedIs
  <2> QED BY <2>1, <2>2
<1>16. ASSUME NEW p \in 1..M
       PROVE  /\ IsChunk(r[p]) /\ r[p].spans # <<>>
              /\ \E i \in DOMAIN q : SameSource(r[p], q[i])
              /\ \E a, b \in Nat : StandsAt(doc.pages, r[p], a, b)
  <2>1. PICK k \in 1..N : \E i \in 1..Len(U(k)) : p = off[k] + i /\ flat[p] = U(k)[i]
    BY <1>10
  <2>2. PICK i \in 1..Len(U(k)) : p = off[k] + i /\ flat[p] = U(k)[i]
    BY <2>1
  <2>3. Relinked(r[p], flat[p])
    BY <1>15
  <2>4. flat[p].spans # <<>> /\ SameSource(flat[p], o[k])
    BY <1>12, <2>2
  <2>5. PICK a, b \in Nat : StandsAt(P, flat[p], a, b)
    BY <1>12, <2>2
  <2>6. PICK j \in 1..N : o[k] = q[j]
    BY <1>5
  <2>7. StandsAt(P, r[p], a, b)
    BY <2>3, <2>5 DEF Relinked, StandsAt
  <2> QED BY <2>3, <2>4, <2>6, <2>7 DEF Relinked, SameSource
<1>17. ASSUME NEW i \in 1..N, NEW k \in 1..Len(P), NEW z \in 0..(Len(P[k]) - 1),
              At(q[i]) <= PageStart(P, k) + z, PageStart(P, k) + z < At(q[i]) + Len(q[i].text)
       PROVE  Holding(r, k, z)
  <2>1. PICK l \in 1..N : o[l] = q[i]
    BY <1>4
  <2>2. AreUnits(doc, o[l], At(o[l]), U(l))
    BY <1>6
  <2>3. PICK j \in 1..Len(U(l)) : \E n \in 1..Len(U(l)[j].spans) : OnSpan(U(l)[j].spans[n], k, z)
    BY <1>17, <2>1, <2>2 DEF AreUnits
  <2> DEFINE p == off[l] + j
  <2>4. p \in 1..M /\ flat[p] = U(l)[j]
    BY <1>10, <1>11
  <2> HIDE DEF p
  <2>5. r[p].spans = flat[p].spans /\ p \in DOMAIN r
    BY <1>15, <2>4 DEF Relinked
  <2> QED BY <2>3, <2>4, <2>5 DEF Holding
<1>18. ASSUME NEW i \in 1..N, NEW j \in 1..N, i # j, Alike(q[i], q[j])
       PROVE  \E p, s \in 1..M : p # s /\ r[p].id = r[s].id
  <2>1. PICK k, l \in 1..N : k # l /\ o[k] = q[i] /\ o[l] = q[j]
    BY <1>4, <1>18
  <2>2. \E x \in DOMAIN U(k), y \in DOMAIN U(l) : U(k)[x].id = U(l)[y].id
    <3> DEFINE c == o[k]  d == o[l]  cut == cuts[c.text]  V == U(k)  W == U(l)
    <3>1. /\ IsChunk(c) /\ IsChunk(d) /\ cut \in CutSet /\ Splittable(doc, c, cut) /\ Alike(c, d)
      BY <1>5, <1>18, <2>1
    <3>2. V = UnitsOf(doc, c, cut) /\ W = UnitsOf(doc, d, cut)
      BY <3>1 DEF Alike, U
    <3> HIDE DEF c, d, cut, V, W
    <3>3. \E x \in DOMAIN V, y \in DOMAIN W : V[x].id = W[y].id
      BY <3>1, <3>2, UnitsAlike
    <3> QED BY <3>3 DEF V, W
  <2>3. PICK x \in DOMAIN U(k), y \in DOMAIN U(l) : U(k)[x].id = U(l)[y].id
    BY <2>2
  <2>4. /\ Len(U(k)) \in Nat /\ DOMAIN U(k) = 1..Len(U(k))
        /\ Len(U(l)) \in Nat /\ DOMAIN U(l) = 1..Len(U(l))
    BY <1>6 DEF AreUnits
  <2> DEFINE p == off[k] + x  s == off[l] + y
  <2>5. p \in 1..M /\ s \in 1..M /\ flat[p] = U(k)[x] /\ flat[s] = U(l)[y]
    BY <1>10, <1>11, <2>4
  <2>6. p # s
    <3>1. k < l \/ l < k
      BY <2>1
    <3>2. p < s \/ s < p
      BY <1>10, <2>4, <3>1
    <3>3. p \in Int /\ s \in Int
      BY <2>5
    <3> HIDE DEF p, s
    <3> QED BY <3>2, <3>3
  <2> HIDE DEF p, s
  <2>7. r[p].id = flat[p].id /\ r[s].id = flat[s].id
    BY <1>15, <2>5 DEF Relinked
  <2> QED BY <2>3, <2>5, <2>6, <2>7
<1> HIDE DEF M, P
<1>19. \A p \in 1..Len(r) :
         /\ IsChunk(r[p]) /\ r[p].spans # <<>>
         /\ \E i \in DOMAIN q : SameSource(r[p], q[i])
         /\ \E a, b \in Nat : StandsAt(doc.pages, r[p], a, b)
  BY <1>15, <1>16
<1>20. \A i \in DOMAIN q :
         \A k \in 1..Len(doc.pages) : \A z \in 0..(Len(doc.pages[k]) - 1) :
           /\ Locate(doc.pages, q[i].text, q[i].spans) <= PageStart(doc.pages, k) + z
           /\ PageStart(doc.pages, k) + z
                < Locate(doc.pages, q[i].text, q[i].spans) + Len(q[i].text)
           => Holding(r, k, z)
  BY <1>17 DEF At, P
<1>21. \A i, j \in DOMAIN q : i # j /\ Alike(q[i], q[j]) =>
         \E p, s \in 1..Len(r) : p # s /\ r[p].id = r[s].id
  BY <1>15, <1>18
<1>22. Len(r) \in Nat /\ DOMAIN r = 1..Len(r) /\ r = [p \in 1..Len(r) |-> r[p]]
  BY <1>13, <1>15
<1> QED BY <1>19, <1>20, <1>21, <1>22 DEF SplitInto


(* The declared sources and the attachments they name.                     *)
SourceAt(k, note, i) ==
  [note |-> k, index |-> i, path |-> note.pdfs[i].path,
   original |-> IF note.pdfs[i].original = None THEN note.pdfs[i].path ELSE note.pdfs[i].original,
   parent |-> note.parent, attachment |-> note.pdfs[i].attachment]

(* The sources that the k-th note declares.                                 *)
SourcesOf(k, note) == IF note = None THEN {} ELSE {SourceAt(k, note, i) : i \in DOMAIN note.pdfs}

(* The sources that the notes declare.                                      *)
Sources(notes) == UNION {SourcesOf(k, notes[k]) : k \in DOMAIN notes}

(* What a corpus of the model is made of.                                   *)
IsLibrary(library) ==
  /\ library.notes \in Seq(ToSet(library.notes))
  /\ \A note \in ToSet(library.notes) \ {None} :
       /\ DOMAIN note.pdfs \subseteq Nat /\ IsFiniteSet(DOMAIN note.pdfs)
       /\ note.parent \in Nat \cup {None}
       /\ \A i \in DOMAIN note.pdfs : note.pdfs[i].attachment \in Nat \cup {None}
  /\ \/ library.db \in {None, Unreadable}
     \/ \A row \in library.db : row.parent \in Nat /\ row.attachment \in Nat

(* The assumption on the corpora, in this form.                             *)
LEMMA CorporaAreLibraries ==
  \A library \in Corpora : IsLibrary(library)
BY IngestAssumption DEF IsLibrary

(* The sources of one note, in order.                                       *)
LEMMA DeclaredIs ==
  ASSUME NEW k, NEW note, note # None, DOMAIN note.pdfs \subseteq Nat, IsFiniteSet(DOMAIN note.pdfs)
  PROVE  Declared(k, note) \in Seq(SourcesOf(k, note))
<1> DEFINE D == DOMAIN note.pdfs
           indices == Ascending(D)
           S == SourcesOf(k, note)
<1>1. Declared(k, note) = [n \in DOMAIN indices |-> SourceAt(k, note, indices[n])]
  BY DEF Declared, SourceAt
<1>2. Cardinality(D) \in Nat /\ indices \in [1..Cardinality(D) -> D]
  <2>1. D \in SUBSET Int /\ IsFiniteSet(D)
    OBVIOUS
  <2> HIDE DEF D
  <2> QED BY <2>1, AscendingEnumerates
<1>3. \A i \in D : SourceAt(k, note, i) \in S
  BY DEF SourcesOf
<1> HIDE DEF D, indices, S
<1>4. Declared(k, note) \in Seq(S)
  BY <1>1, <1>2, <1>3
<1> QED BY <1>4 DEF S

(* Discovery lists the sources of the notes.                                *)
LEMMA DiscoverIs ==
  ASSUME NEW library, IsLibrary(library)
  PROVE  /\ Discover(library.notes) \in Seq(Sources(library.notes))
         /\ ToSet(Discover(library.notes)) \subseteq Sources(library.notes)
<1> DEFINE notes == library.notes
           S == Sources(notes)
           V == Seq(S)
           seqs == [k \in DOMAIN notes |-> IF notes[k] = None THEN <<>> ELSE Declared(k, notes[k])]
<1>1. notes \in Seq(ToSet(notes)) /\ DOMAIN notes = 1..Len(notes) /\ Len(notes) \in Nat
  <2>1. notes \in Seq(ToSet(notes))
    BY DEF IsLibrary
  <2> HIDE DEF notes
  <2> QED BY <2>1
<1>2. ASSUME NEW k \in DOMAIN notes PROVE seqs[k] \in V
  <2>1. CASE notes[k] = None
    <3>1. seqs[k] = <<>>
      BY <2>1
    <3> HIDE DEF S, seqs
    <3> QED BY <3>1
  <2>2. CASE notes[k] # None
    <3>1. notes[k] \in ToSet(notes) \ {None}
      BY <2>2 DEF ToSet
    <3>2. DOMAIN notes[k].pdfs \subseteq Nat /\ IsFiniteSet(DOMAIN notes[k].pdfs)
      BY <3>1 DEF IsLibrary
    <3>3. Declared(k, notes[k]) \in Seq(SourcesOf(k, notes[k]))
      <4> HIDE DEF notes
      <4> QED BY <2>2, <3>2, DeclaredIs
    <3>4. SourcesOf(k, notes[k]) \subseteq S
      BY DEF Sources
    <3>5. Declared(k, notes[k]) \in V
      <4> DEFINE d == Declared(k, notes[k])  Q == SourcesOf(k, notes[k])
      <4>1. d \in Seq(Q) /\ Q \subseteq S
        BY <3>3, <3>4
      <4> HIDE DEF d, Q, S
      <4>2. d \in Seq(S)
        BY <4>1
      <4> QED BY <4>2 DEF d
    <3>6. seqs[k] = Declared(k, notes[k])
      BY <2>2
    <3> QED BY <3>5, <3>6
  <2> QED BY <2>1, <2>2
<1>3. Discover(notes) = FlattenSeq(seqs)
  BY DEF Discover
<1> HIDE DEF S
<1>4. seqs \in Seq(V)
  <2>1. DOMAIN seqs = 1..Len(notes) /\ seqs = [k \in 1..Len(notes) |-> seqs[k]]
    BY <1>1
  <2> HIDE DEF seqs, V, notes
  <2> QED BY <1>1, <1>2, <2>1
<1> HIDE DEF seqs, notes
<1>5. Discover(notes) \in V
  BY <1>3, <1>4, FlattenIs
<1>6. ToSet(Discover(notes)) \subseteq S
  <2> DEFINE d == Discover(notes)
  <2>1. d \in Seq(S)
    BY <1>5
  <2> HIDE DEF d
  <2>2. ToSet(d) \subseteq S
    BY <2>1 DEF ToSet
  <2> QED BY <2>2 DEF d
<1> QED BY <1>5, <1>6 DEF S, notes

(* A source has the types of its note, and its note and index tell it.      *)
LEMMA SourceIs ==
  ASSUME NEW library, IsLibrary(library), NEW s \in Sources(library.notes)
  PROVE  /\ s.index \in Nat
         /\ s.parent \in Nat \cup {None} /\ s.attachment \in Nat \cup {None}
         /\ \A t \in Sources(library.notes) : t.note = s.note /\ t.index = s.index => t = s
<1> DEFINE notes == library.notes
<1>1. ASSUME NEW t \in Sources(notes)
      PROVE  \E k \in DOMAIN notes : /\ notes[k] # None
                                     /\ \E i \in DOMAIN notes[k].pdfs : t = SourceAt(k, notes[k], i)
  BY DEF Sources, SourcesOf
<1>2. PICK k \in DOMAIN notes : /\ notes[k] # None
                                /\ \E i \in DOMAIN notes[k].pdfs : s = SourceAt(k, notes[k], i)
  BY <1>1
<1>3. PICK i \in DOMAIN notes[k].pdfs : s = SourceAt(k, notes[k], i)
  BY <1>2
<1>4. s.note = k /\ s.index = i /\ s.parent = notes[k].parent
      /\ s.attachment = notes[k].pdfs[i].attachment
  BY <1>3 DEF SourceAt
<1>5. notes[k] \in ToSet(notes) \ {None}
  BY <1>2 DEF ToSet
<1>6. /\ DOMAIN notes[k].pdfs \subseteq Nat /\ notes[k].parent \in Nat \cup {None}
      /\ \A j \in DOMAIN notes[k].pdfs : notes[k].pdfs[j].attachment \in Nat \cup {None}
  BY <1>5 DEF IsLibrary
<1>7. ASSUME NEW t \in Sources(notes), t.note = s.note, t.index = s.index PROVE t = s
  <2>1. PICK l \in DOMAIN notes : /\ notes[l] # None
                                  /\ \E j \in DOMAIN notes[l].pdfs : t = SourceAt(l, notes[l], j)
    BY <1>1
  <2>2. PICK j \in DOMAIN notes[l].pdfs : t = SourceAt(l, notes[l], j)
    BY <2>1
  <2>3. t.note = l /\ t.index = j
    BY <2>2 DEF SourceAt
  <2> QED BY <1>3, <1>4, <1>7, <2>2, <2>3
<1> QED BY <1>4, <1>6, <1>7

(* What a source is resolved to has keys, and none that the note declares  *)
(* is contradicted.                                                        *)
LEMMA ResolveIs ==
  ASSUME NEW library, IsLibrary(library), NEW s \in Sources(library.notes), NEW base,
         NEW id, id = Resolve(s, library.db, base), id # None
  PROVE  /\ id.parent \in Nat /\ id.attachment \in Nat
         /\ s.parent \in {None, id.parent} /\ s.attachment \in {None, id.attachment}
<1> DEFINE db == library.db
<1>1. s.parent \in Nat \cup {None} /\ s.attachment \in Nat \cup {None}
  BY SourceIs
<1>2. CASE db = None
  <2>1. Pair(s) /\ id = [parent |-> s.parent, attachment |-> s.attachment]
    BY <1>2 DEF Resolve
  <2>2. s.parent # None /\ s.attachment # None
    BY <2>1 DEF Pair
  <2> QED BY <1>1, <2>1, <2>2
<1>3. CASE db # None
  <2>1. /\ db # Unreadable /\ Cardinality(Rows(s, db, base)) = 1
        /\ \E x : x = (CHOOSE r \in Rows(s, db, base) : TRUE)
                  /\ id = [parent |-> x.parent, attachment |-> x.attachment]
    BY <1>3 DEF Resolve
  <2>2. PICK x : /\ x = (CHOOSE r \in Rows(s, db, base) : TRUE)
                 /\ id = [parent |-> x.parent, attachment |-> x.attachment]
    BY <2>1
  <2>3. Rows(s, db, base) # {}
    BY <2>1, FS_EmptySet
  <2>4. x \in Rows(s, db, base)
    BY <2>2, <2>3
  <2>5. \A row \in db : row.parent \in Nat /\ row.attachment \in Nat
    BY <1>3, <2>1 DEF IsLibrary
  <2>6. x \in db /\ s.parent \in {None, x.parent} /\ s.attachment \in {None, x.attachment}
    BY <2>4 DEF Rows
  <2> QED BY <2>2, <2>5, <2>6
<1> QED BY <1>2, <1>3

(* The last element of a file.                                             *)
LEMMA LastOfIs ==
  ASSUME NEW q, NEW N \in Nat, DOMAIN q = 1..N, NEW f, \E i \in 1..N : q[i].file = f
  PROVE  \E i \in 1..N : q[i].file = f /\ LastOf(q, f) = q[i]
<1> DEFINE S == {i \in DOMAIN q : q[i].file = f}
<1>1. S \in SUBSET Int /\ S # {} /\ \A y \in S : y <= N
  OBVIOUS
<1> HIDE DEF S
<1>2. Max(S) \in S
  BY <1>1, MaxIs
<1>3. LastOf(q, f) = q[Max(S)]
  BY DEF LastOf, S
<1> QED BY <1>2, <1>3 DEF S

(* What the splitter returns are intervals.                                *)
LEMMA CutsAre ==
  ASSUME NEW way, NEW t \in Text, Cuts(way, t) # None
  PROVE  Cuts(way, t) \in CutSet
<1> DEFINE S == CutPoints(way, t)  points == Ascending(S)
<1>1. Len(t) \in Nat
  BY DEF Text
<1>2. S \subseteq 0..Len(t) /\ Len(t) \in S /\ Cuts(way, t) = Pieces(points)
  BY DEF Cuts, CutPoints
<1> HIDE DEF S
<1>3. IsFiniteSet(0..Len(t)) /\ S \in SUBSET Int
  BY <1>1, <1>2, FS_Interval
<1>4. IsFiniteSet(S)
  BY <1>2, <1>3, FS_Subset
<1> DEFINE N == Cardinality(S)
<1>5. N \in Nat /\ points \in [1..N -> S] /\ \E k \in 1..N : TRUE
  BY <1>2, <1>3, <1>4, AscendingEnumerates
<1> HIDE DEF points, N
<1>6. Len(points) = N
  BY <1>5
<1>7. Pieces(points) = [k \in 1..(N - 1) |-> <<points[k], points[k + 1]>>]
  BY <1>6 DEF Pieces
<1>8. ASSUME NEW k \in 1..(N - 1) PROVE points[k] \in Nat /\ points[k + 1] \in Nat
  <2>1. k \in 1..N /\ k + 1 \in 1..N
    BY <1>5
  <2>2. points[k] \in S /\ points[k + 1] \in S
    BY <1>5, <2>1
  <2>3. points[k] \in 0..Len(t) /\ points[k + 1] \in 0..Len(t)
    BY <1>2, <2>2
  <2> QED BY <1>1, <2>3
<1>9. Pieces(points) \in Seq(Nat \X Nat)
  <2>1. N - 1 \in Nat
    BY <1>5
  <2> QED BY <1>7, <1>8, <2>1
<1> QED BY <1>2, <1>9 DEF CutSet

(***************************************************************************)
(* The invariant of a build, kept by every step                            *)
(***************************************************************************)

(* The invariant of a build. Its parts take the variables they speak of,    *)
(* so that a step that leaves those alone leaves the part alone.            *)
Reading == {"identify", "hash", "compare", "rehash", "extract"}

(* A sequence of whatever it holds.                                         *)
IsList(q) == q \in Seq(ToSet(q))

(* What a library's notes declare, and the bytes its files may have.        *)
Named(library) == ToSet(Discover(library.notes))

(* Each file on disk is one of them or cannot be read.                      *)
OnDisk(files, library) ==
  \A p \in DOMAIN files :
    files[p] \in DOMAIN PagesOf \cup {Unreadable}
        /\ (files[p] = Unreadable \/ files[p] \in Met(library))

(* Every declared source is still to be handled or has a record.            *)
Handled(library, left, records) ==
  \A s \in Named(library) :
    s \in ToSet(left) \/ \E r \in ToSet(records) : r.note = s.note /\ r.index = s.index

(* A record, with the truth about the bytes when it reports success.        *)
IsRecord(r, s, library, damaged) ==
  /\ r = [note |-> r.note, index |-> r.index, status |-> r.status, error |-> r.error,
          main |-> r.main, paper |-> r.paper, file |-> r.file, hash |-> r.hash,
          pages |-> r.pages, count |-> r.count, warnings |-> r.warnings]
  /\ r.note = s.note /\ r.index = s.index /\ (r.main <=> s.index = 0)
  /\ r.paper \in Nat \cup {None}
  /\ r.status = "success" =>
       /\ Resolve(s, library.db, library.base) # None
       /\ r.paper = Resolve(s, library.db, library.base).parent
       /\ r.file = Resolve(s, library.db, library.base).attachment
       /\ r.hash \in Met(library)
       /\ r.note \in damaged \/ r.pages = PagesOf[r.hash]

(* Each record of the inventory is the record of a source of the library.   *)
AreRecords(records, library, damaged) ==
  \A r \in ToSet(records) : \E s \in Named(library) : IsRecord(r, s, library, damaged)

(* A document that was taken, with the chunks it was cut into.              *)
IsTaken(d, library, damaged) ==
  /\ d.file \in Nat /\ d.paper \in Nat /\ d.hash \in Met(library)
  /\ \E b \in Met(library) : d.pages = PagesOf[b]
  /\ damaged = {} => d.pages = PagesOf[d.hash]
  /\ Adapted(d) # None /\ Adapted(d) # <<>>

(* Each document was taken from the library.                                *)
AreTaken(docs, library, damaged) == \A d \in ToSet(docs) : IsTaken(d, library, damaged)

(* As long as every source succeeded, the plan has one document for each.   *)
Paired(docs, records) ==
  (\A i \in DOMAIN records : records[i].status = "success") =>
    /\ DOMAIN docs = DOMAIN records
    /\ \A i \in DOMAIN records : docs[i].file = records[i].file

(* Two members have one file.                                               *)
Repeats(q) == \E i, j \in DOMAIN q : i # j /\ q[i].file = q[j].file

(* The chunks of the plan before the split: those of the documents, and the *)
(* first one of each document at a place of its own.                        *)
AreCut(docs, q) ==
  /\ \A c \in ToSet(q) : \E d \in ToSet(docs) : c \in ToSet(Adapted(d))
  /\ \A d \in ToSet(docs) : ToSet(Adapted(d)) \subseteq ToSet(q)
  /\ \E first \in [DOMAIN docs -> DOMAIN q] :
       /\ \A i, j \in DOMAIN docs : first[i] = first[j] => i = j
       /\ \A i \in DOMAIN docs : q[first[i]] = Adapted(docs[i])[1]

(* The chunks after the split: each is text of the document that counts for *)
(* its file, and together they hold what was indexed of it.                 *)
IsPlaced(c, docs) ==
  /\ IsChunk(c) /\ c.spans # <<>>
  /\ \E d \in ToSet(docs) : SameSource(c, d)
  /\ \E a, b \in Nat : StandsAt(LastOf(docs, c.file).pages, c, a, b)

(* The chunk c has the place z of page k of file f in its spans.            *)
HasPlace(c, f, k, z) == c.file = f /\ \E n \in 1..Len(c.spans) : OnSpan(c.spans[n], k, z)

(* Where windows overlap, the chunks of q hold every place of the           *)
(* document's indexed text.                                                *)
HeldFrom(doc, f, q) ==
  Overlapping =>
  \A k \in 1..Len(doc.pages) : \A z \in 0..(Len(doc.pages[k]) - 1) :
    PageStart(doc.pages, k) + z < Len(Indexed(doc)) => \E c \in ToSet(q) : HasPlace(c, f, k, z)

(* The units of the plan are placed, and hold the text of each file.        *)
AreSplit(docs, q) ==
  /\ \A c \in ToSet(q) : IsPlaced(c, docs)
  /\ \A d \in ToSet(docs) : HeldFrom(LastOf(docs, d.file), d.file, q)

(* No two members have one identifier.                                      *)
DistinctIn(q) == Cardinality({c.id : c \in ToSet(q)}) = Len(q)

(* What is being read: the corpus, the disk, the sources left, the source   *)
(* in hand.                                                                 *)
InHand ==
  /\ corpus \in Corpora
  /\ OnDisk(disk, corpus)
  /\ todo \in Seq(Named(corpus))
  /\ pc \in Reading <=> todo # <<>>
  /\ pc = "discover" => inventory = <<>> /\ documents = <<>> /\ chunks = <<>>
  /\ ~(pc \in {"discover", "stopped"}) => Handled(corpus, todo, inventory)
  /\ pc \in {"hash", "compare", "rehash", "extract"} => Identity(Source) # None
  /\ pc \in {"compare", "rehash", "extract"} => hash \in Met(corpus)
  /\ pc = "extract" => Source.note \in torn
         \/ (Source.path \in DOMAIN disk /\ disk[Source.path] = hash)

(* What was made of the sources read so far.                                *)
PlanMade ==
  /\ IsList(inventory) /\ AreRecords(inventory, corpus, torn)
  /\ IsList(documents) /\ AreTaken(documents, corpus, torn)
  /\ IsList(chunks)

(* The plan before its chunks are split.                                    *)
Unsplit ==
  /\ pc \in Reading \cup {"discover", "check"} => Paired(documents, inventory)
  /\ pc \in Reading \cup {"discover", "check", "split"} => AreCut(documents, chunks)

(* The plan after its chunks were split, and what was checked and written   *)
(* of it.                                                                   *)
Split ==
  /\ pc \in {"split", "validate", "write", "failed", "published"} =>
       (Repeats(inventory) => Repeats(documents))
  /\ pc \in {"validate", "write", "failed", "published"} =>
       /\ AreSplit(documents, chunks)
       /\ (Telling /\ torn = {} /\ Repeats(documents) => ~DistinctIn(chunks))
  /\ pc \in {"write", "failed", "published"} => Valid
  /\ pc = "published" => ToSet(collection) = ToSet(chunks)

(* The inductive invariant of a build.                                      *)
IngestInv == InHand /\ PlanMade /\ Unsplit /\ Split

(* A list, by its length and its members.                                   *)
LEMMA ListIs ==
  ASSUME NEW q, IsList(q)
  PROVE  /\ Len(q) \in Nat /\ DOMAIN q = 1..Len(q) /\ q = [i \in 1..Len(q) |-> q[i]]
         /\ \A i \in 1..Len(q) : q[i] \in ToSet(q)
         /\ \A e \in ToSet(q) : \E i \in 1..Len(q) : e = q[i]
<1> DEFINE S == ToSet(q)
<1>1. q \in Seq(S)
  BY DEF IsList
<1>2. \A e \in S : \E i \in DOMAIN q : e = q[i]
  BY DEF ToSet
<1> HIDE DEF S
<1>3. /\ Len(q) \in Nat /\ DOMAIN q = 1..Len(q) /\ q = [i \in 1..Len(q) |-> q[i]]
      /\ \A i \in 1..Len(q) : q[i] \in S
  BY <1>1
<1> QED BY <1>2, <1>3 DEF S

(* A list is the function of its members.                                   *)
LEMMA ListShape ==
  ASSUME NEW q, IsList(q)
  PROVE  q = [i \in 1..Len(q) |-> q[i]]
<1> QED BY ListIs, Zenon

(* A function on 1..N is a list.                                            *)
LEMMA MadeList ==
  ASSUME NEW N \in Nat, NEW q, q = [i \in 1..N |-> q[i]]
  PROVE  IsList(q) /\ Len(q) = N
<1> DEFINE S == ToSet(q)
<1>1. ASSUME NEW i \in 1..N PROVE q[i] \in S
  BY DEF ToSet
<1> HIDE DEF S
<1>2. q \in Seq(S) /\ Len(q) = N
  BY <1>1
<1> QED BY <1>2 DEF IsList, S

(* A function on 1..N into V is a sequence over V.                          *)
LEMMA MadeSeq ==
  ASSUME NEW N \in Nat, NEW V, NEW q, q = [i \in 1..N |-> q[i]], \A i \in 1..N : q[i] \in V
  PROVE  q \in Seq(V) /\ Len(q) = N
OBVIOUS

(* A sequence is a list.                                                    *)
LEMMA InList ==
  ASSUME NEW q, NEW V, q \in Seq(V)
  PROVE  IsList(q) /\ ToSet(q) \subseteq V
<1>1. DOMAIN q = 1..Len(q) /\ Len(q) \in Nat /\ q = [i \in 1..Len(q) |-> q[i]]
      /\ \A i \in 1..Len(q) : q[i] \in V
  OBVIOUS
<1>2. IsList(q)
  BY <1>1, MadeList
<1>3. ToSet(q) \subseteq V
  BY <1>1 DEF ToSet
<1> QED BY <1>2, <1>3

(* The empty sequence is a list of nothing.                                 *)
LEMMA EmptyList ==
  IsList(<<>>) /\ ToSet(<<>>) = {}
<1>1. ToSet(<<>>) = {}
  BY DEF ToSet
<1>2. <<>> \in Seq({})
  OBVIOUS
<1> QED BY <1>1, <1>2 DEF IsList

(* u is q with e appended.                                                  *)
Extended(u, q, e) ==
  /\ IsList(u) /\ Len(u) = Len(q) + 1 /\ u[Len(q) + 1] = e
  /\ \A i \in 1..Len(q) : u[i] = q[i]
  /\ ToSet(u) = ToSet(q) \cup {e}

(* Appending to a list.                                                     *)
LEMMA AppendList ==
  ASSUME NEW q, IsList(q), NEW e, NEW u, u = Append(q, e)
  PROVE  Extended(u, q, e)
<1> DEFINE S == ToSet(q)  V == S \cup {e}
<1>1. q \in Seq(S) /\ (\A i \in 1..Len(q) : q[i] \in S)
          /\ (\A x \in S : \E i \in 1..Len(q) : x = q[i])
  BY ListIs DEF IsList
<1> HIDE DEF S
<1>2. q \in Seq(V) /\ e \in V
  BY <1>1
<1> HIDE DEF V
<1>3. /\ u \in Seq(V) /\ Len(u) = Len(q) + 1 /\ u[Len(q) + 1] = e /\ Len(q) \in Nat
      /\ \A i \in 1..Len(q) : u[i] = q[i]
  BY <1>2
<1>4. DOMAIN u = 1..(Len(q) + 1)
  BY <1>3
<1>5. IsList(u)
  BY <1>3, InList
<1>6. ASSUME NEW x \in S \cup {e} PROVE \E i \in DOMAIN u : x = u[i]
  <2>1. CASE x \in S
    <3>1. PICK i \in 1..Len(q) : x = q[i]
      BY <1>1, <2>1
    <3>2. i \in DOMAIN u /\ x = u[i]
      BY <1>3, <1>4, <3>1
    <3> QED BY <3>2
  <2>2. CASE x = e
    <3>1. Len(q) + 1 \in DOMAIN u
      BY <1>3, <1>4
    <3> QED BY <1>3, <2>2, <3>1
  <2> QED BY <2>1, <2>2
<1>7. ASSUME NEW i \in DOMAIN u PROVE u[i] \in S \cup {e}
  <2>1. i \in 1..Len(q) \/ i = Len(q) + 1
    BY <1>3, <1>4
  <2> QED BY <1>1, <1>3, <2>1
<1>8. ToSet(u) = S \cup {e}
  BY <1>6, <1>7 DEF ToSet
<1> QED BY <1>3, <1>5, <1>8 DEF S, Extended

(* A document and its record, appended together, leave the two lists paired. *)
LEMMA PairedGrows ==
  ASSUME NEW docs, NEW records, IsList(docs), IsList(records), Paired(docs, records),
         NEW d, NEW r, d.file = r.file, NEW docs1, Extended(docs1, docs, d),
         NEW records1, Extended(records1, records, r)
  PROVE  Paired(docs1, records1)
<1> DEFINE N == Len(records)
<1>1. /\ N \in Nat /\ DOMAIN records = 1..N
      /\ Len(docs) \in Nat /\ DOMAIN docs = 1..Len(docs)
  BY ListIs
<1>2. /\ IsList(records1) /\ Len(records1) = N + 1 /\ records1[N + 1] = r
      /\ \A i \in 1..N : records1[i] = records[i]
  BY DEF Extended
<1>3. /\ IsList(docs1) /\ Len(docs1) = Len(docs) + 1 /\ docs1[Len(docs) + 1] = d
      /\ \A i \in 1..Len(docs) : docs1[i] = docs[i]
  BY DEF Extended
<1>4. /\ DOMAIN records1 = 1..(N + 1)
      /\ DOMAIN docs1 = 1..(Len(docs) + 1)
  BY <1>2, <1>3, ListIs
<1> HIDE DEF N
<1>5. ASSUME \A i \in DOMAIN records1 : records1[i].status = "success"
      PROVE  /\ DOMAIN docs1 = DOMAIN records1
             /\ \A i \in DOMAIN records1 : docs1[i].file = records1[i].file
  <2>1. ASSUME NEW i \in DOMAIN records PROVE records[i].status = "success"
    <3>1. i \in 1..N /\ i \in DOMAIN records1
      BY <1>1, <1>4
    <3>2. records1[i] = records[i]
      BY <1>2, <3>1
    <3> QED BY <1>5, <3>1, <3>2, Zenon
  <2>2. /\ DOMAIN docs = DOMAIN records
        /\ \A i \in DOMAIN records : docs[i].file = records[i].file
    BY <2>1, Zenon DEF Paired
  <2>3. Len(docs) = N
    <3>1. 1..Len(docs) = 1..N
      BY <1>1, <2>2, Zenon
    <3>2. Len(docs) \in Nat /\ N \in Nat
      BY <1>1
    <3> QED BY <3>1, <3>2
  <2>4. ASSUME NEW i \in 1..(N + 1) PROVE docs1[i].file = records1[i].file
    <3>1. CASE i \in 1..N
      <4>1. docs1[i] = docs[i] /\ records1[i] = records[i]
        BY <1>2, <1>3, <2>3, <3>1
      <4>2. docs[i].file = records[i].file
        BY <1>1, <2>2, <3>1, Zenon
      <4> QED BY <4>1, <4>2, Zenon
    <3>2. CASE i = N + 1
      <4>1. docs1[i] = d /\ records1[i] = r
        BY <1>2, <1>3, <2>3, <3>2, Zenon
      <4> QED BY <4>1, Zenon
    <3>3. i \in 1..N \/ i = N + 1
      BY <1>1
    <3> QED BY <3>1, <3>2, <3>3, Zenon
  <2> QED BY <1>4, <2>3, <2>4, Zenon
<1> QED BY <1>5, Zenon DEF Paired

(* u is q followed by r.                                                    *)
Joins(u, q, r) ==
  /\ IsList(u) /\ Len(u) = Len(q) + Len(r)
  /\ \A i \in 1..Len(q) : u[i] = q[i]
  /\ \A i \in 1..Len(r) : u[Len(q) + i] = r[i]
  /\ ToSet(u) = ToSet(q) \cup ToSet(r)

(* Concatenating two lists.                                                 *)
LEMMA ConcatList ==
  ASSUME NEW q, IsList(q), NEW r, IsList(r), NEW u, u = q \o r
  PROVE  Joins(u, q, r)
<1> DEFINE S == ToSet(q)  T == ToSet(r)  V == S \cup T
<1>1. /\ q \in Seq(S) /\ (\A i \in 1..Len(q) : q[i] \in S)
             /\ (\A x \in S : \E i \in 1..Len(q) : x = q[i])
      /\ Len(q) \in Nat
  BY ListIs DEF IsList
<1>2. /\ r \in Seq(T) /\ (\A i \in 1..Len(r) : r[i] \in T)
             /\ (\A x \in T : \E i \in 1..Len(r) : x = r[i])
      /\ Len(r) \in Nat
  BY ListIs DEF IsList
<1> HIDE DEF S, T
<1>3. q \in Seq(V) /\ r \in Seq(V)
  BY <1>1, <1>2
<1> HIDE DEF V
<1>4. /\ u \in Seq(V) /\ Len(u) = Len(q) + Len(r)
      /\ \A i \in 1..Len(q) : u[i] = q[i]
      /\ \A i \in 1..Len(r) : u[Len(q) + i] = r[i]
  BY <1>3, ConcatIs
<1>5. DOMAIN u = 1..(Len(q) + Len(r))
  BY <1>4
<1>6. IsList(u)
  BY <1>4, InList
<1>7. ASSUME NEW x \in S \cup T PROVE \E i \in DOMAIN u : x = u[i]
  <2>1. CASE x \in S
    <3>1. PICK i \in 1..Len(q) : x = q[i]
      BY <1>1, <2>1
    <3>2. i \in DOMAIN u /\ x = u[i]
      BY <1>1, <1>2, <1>4, <1>5, <3>1
    <3> QED BY <3>2
  <2>2. CASE x \in T
    <3>1. PICK i \in 1..Len(r) : x = r[i]
      BY <1>2, <2>2
    <3>2. x = u[Len(q) + i]
      BY <1>4, <3>1
    <3>3. Len(q) + i \in 1..(Len(q) + Len(r))
      BY <1>1, <1>2
    <3> QED BY <1>5, <3>2, <3>3
  <2> QED BY <2>1, <2>2
<1>8. ASSUME NEW i \in DOMAIN u PROVE u[i] \in S \cup T
  <2>1. i \in 1..Len(q) \/ (i - Len(q) \in 1..Len(r) /\ i = Len(q) + (i - Len(q)))
    BY <1>1, <1>2, <1>5
  <2>2. CASE i \in 1..Len(q)
    BY <1>1, <1>4, <2>2
  <2>3. CASE i - Len(q) \in 1..Len(r) /\ i = Len(q) + (i - Len(q))
    <3> DEFINE j == i - Len(q)
    <3>1. j \in 1..Len(r) /\ i = Len(q) + j
      BY <2>3
    <3> HIDE DEF j
    <3> QED BY <1>2, <1>4, <3>1
  <2> QED BY <2>1, <2>2, <2>3
<1>9. ToSet(u) = S \cup T
  BY <1>7, <1>8 DEF ToSet
<1> QED BY <1>4, <1>6, <1>9 DEF S, T, Joins

(* A sequence is its head and its tail.                                     *)
LEMMA HeadTail ==
  ASSUME NEW S, NEW q \in Seq(S), q # <<>>
  PROVE  /\ Head(q) \in S /\ Tail(q) \in Seq(S)
         /\ ToSet(q) = {Head(q)} \cup ToSet(Tail(q))
<1>1. /\ Len(q) \in Nat /\ DOMAIN q = 1..Len(q) /\ Len(q) > 0
      /\ Head(q) = q[1] /\ Head(q) \in S /\ Tail(q) \in Seq(S) /\ Len(Tail(q)) = Len(q) - 1
      /\ \A i \in 1..(Len(q) - 1) : Tail(q)[i] = q[i + 1]
  OBVIOUS
<1> DEFINE t == Tail(q)
<1>2. DOMAIN t = 1..(Len(q) - 1)
  BY <1>1
<1> HIDE DEF t
<1>3. ASSUME NEW i \in DOMAIN q PROVE q[i] \in {Head(q)} \cup {t[j] : j \in DOMAIN t}
  <2>1. CASE i = 1
    BY <1>1, <2>1
  <2>2. CASE i # 1
    <3> DEFINE j == i - 1
    <3>1. j \in 1..(Len(q) - 1) /\ i = j + 1
      BY <1>1, <2>2
    <3> HIDE DEF j
    <3>2. q[i] = t[j] /\ j \in DOMAIN t
      BY <1>1, <1>2, <3>1 DEF t
    <3> QED BY <3>2
  <2> QED BY <2>1, <2>2
<1>4. ASSUME NEW j \in DOMAIN t PROVE t[j] \in {q[i] : i \in DOMAIN q}
  <2>1. t[j] = q[j + 1] /\ j + 1 \in DOMAIN q
    BY <1>1, <1>2 DEF t
  <2> QED BY <2>1
<1>5. Head(q) \in {q[i] : i \in DOMAIN q}
  BY <1>1
<1>6. ToSet(q) = {Head(q)} \cup ToSet(t)
  BY <1>3, <1>4, <1>5 DEF ToSet
<1> QED BY <1>1, <1>6 DEF t

(* Damage only grows, and what is said of records and documents stays true. *)
LEMMA StillTrue ==
  ASSUME NEW library, NEW damaged, NEW more, damaged \subseteq more
  PROVE  /\ \A q : AreRecords(q, library, damaged) => AreRecords(q, library, more)
         /\ \A q : AreTaken(q, library, damaged) => AreTaken(q, library, more)
<1>1. ASSUME NEW r, NEW s, IsRecord(r, s, library, damaged) PROVE IsRecord(r, s, library, more)
  BY <1>1 DEF IsRecord
<1>2. ASSUME NEW d, IsTaken(d, library, damaged) PROVE IsTaken(d, library, more)
  <2>1. more = {} => damaged = {}
    OBVIOUS
  <2> QED BY <1>2, <2>1 DEF IsTaken
<1> QED BY <1>1, <1>2 DEF AreRecords, AreTaken

(* The source in hand is declared.                                          *)
LEMMA InHandIs ==
  ASSUME InHand, pc \in Reading
  PROVE  /\ Source \in Named(corpus) /\ Source \in Sources(corpus.notes)
         /\ IsLibrary(corpus)
         /\ Tail(todo) \in Seq(Named(corpus))
         /\ ToSet(todo) = {Source} \cup ToSet(Tail(todo))
<1> DEFINE S == Named(corpus)
<1>1. todo \in Seq(S) /\ todo # <<>> /\ corpus \in Corpora
  BY DEF InHand
<1>2. IsLibrary(corpus)
  BY <1>1, CorporaAreLibraries
<1>3. S \subseteq Sources(corpus.notes)
  BY <1>2, DiscoverIs DEF Named
<1> HIDE DEF S
<1>4. /\ Head(todo) \in S /\ Tail(todo) \in Seq(S)
      /\ ToSet(todo) = {Head(todo)} \cup ToSet(Tail(todo))
  BY <1>1, HeadTail
<1>5. Head(todo) \in Sources(corpus.notes)
  BY <1>3, <1>4
<1> QED BY <1>2, <1>4, <1>5 DEF Source, S

(* A record of a failure.                                                   *)
LEMMA FailureIs ==
  ASSUME InHand, pc \in Reading, NEW id, id = None \/ id = Identity(Source),
         NEW status, status # "success", NEW error, NEW pages, NEW count,
         NEW r, r = Record(Source, id, status, error, pages, count)
  PROVE  IsRecord(r, Source, corpus, torn) /\ r.status # "success"
<1>1. r.note = Source.note /\ r.index = Source.index /\ r.status = status
  BY DEF Record
<1>2. r.main <=> Source.index = 0
  BY DEF Record
<1>3. r.paper \in Nat \cup {None}
  <2>1. r.paper = IF id = None THEN None ELSE id.parent
    BY DEF Record
  <2>2. CASE id = None
    BY <2>1, <2>2
  <2>3. CASE id # None
    <3>1. id = Resolve(Source, corpus.db, corpus.base)
      BY <2>3 DEF Identity
    <3>2. id.parent \in Nat
      BY <2>3, <3>1, InHandIs, ResolveIs
    <3> QED BY <2>1, <2>3, <3>2
  <2> QED BY <2>2, <2>3
<1>4. r = [note |-> r.note, index |-> r.index, status |-> r.status, error |-> r.error,
           main |-> r.main, paper |-> r.paper, file |-> r.file, hash |-> r.hash,
           pages |-> r.pages, count |-> r.count, warnings |-> r.warnings]
  BY DEF Record
<1> QED BY <1>1, <1>2, <1>3, <1>4 DEF IsRecord

(* Recording the outcome of a source takes the next source in hand.         *)
LEMMA RecordedHand ==
  ASSUME InHand, IsList(inventory), pc \in Reading,
         NEW r, r.note = Source.note, r.index = Source.index, Recorded(r)
  PROVE  InHand'
<1>1. /\ corpus \in Corpora /\ OnDisk(disk, corpus) /\ Handled(corpus, todo, inventory)
      /\ Tail(todo) \in Seq(Named(corpus)) /\ ToSet(todo) = {Source} \cup ToSet(Tail(todo))
  BY InHandIs DEF InHand, Reading
<1>2. /\ corpus' = corpus /\ disk' = disk /\ todo' = Tail(todo)
      /\ inventory' = Append(inventory, r)
      /\ pc' = IF Tail(todo) = <<>> THEN "check" ELSE "identify"
  BY DEF Recorded, Goto
<1>3. ToSet(inventory') = ToSet(inventory) \cup {r}
  <2>1. Extended(inventory', inventory, r)
    BY <1>2, AppendList
  <2> QED BY <2>1 DEF Extended
<1>4. Handled(corpus', todo', inventory')
  BY <1>1, <1>2, <1>3 DEF Handled
<1>5. pc' \in Reading <=> todo' # <<>>
  BY <1>2 DEF Reading
<1>6. OnDisk(disk', corpus') /\ corpus' \in Corpora /\ todo' \in Seq(Named(corpus'))
  BY <1>1, <1>2
<1> QED BY <1>2, <1>4, <1>5, <1>6 DEF InHand

(* Recording that a source failed keeps the plan.                           *)
LEMMA FailedPlan ==
  ASSUME PlanMade, Unsplit, Split, pc \in Reading, Source \in Named(corpus),
         NEW r, IsRecord(r, Source, corpus, torn), r.status # "success", Recorded(r),
         UNCHANGED <<documents, chunks>>
  PROVE  PlanMade' /\ Unsplit' /\ Split'
<1>1. /\ IsList(inventory) /\ AreRecords(inventory, corpus, torn)
      /\ IsList(documents) /\ AreTaken(documents, corpus, torn) /\ IsList(chunks)
      /\ AreCut(documents, chunks)
  BY DEF PlanMade, Unsplit
<1>2. /\ corpus' = corpus /\ torn' = torn /\ documents' = documents /\ chunks' = chunks
      /\ inventory' = Append(inventory, r) /\ pc' \in {"check", "identify"}
  BY DEF Recorded, Goto
<1>3. /\ IsList(inventory') /\ ToSet(inventory') = ToSet(inventory) \cup {r}
      /\ Len(inventory') = Len(inventory) + 1 /\ inventory'[Len(inventory) + 1] = r
  <2>1. Extended(inventory', inventory, r)
    BY <1>1, <1>2, AppendList
  <2> QED BY <2>1 DEF Extended
<1>4. AreRecords(inventory', corpus', torn')
  BY <1>1, <1>2, <1>3 DEF AreRecords
<1>5. PlanMade'
  BY <1>1, <1>2, <1>3, <1>4 DEF PlanMade
<1>6. Paired(documents', inventory')
  <2>1. Len(inventory) \in Nat /\ DOMAIN inventory' = 1..(Len(inventory) + 1)
    BY <1>1, <1>3, ListIs
  <2>2. Len(inventory) + 1 \in DOMAIN inventory'
    BY <2>1
  <2> QED BY <1>3, <2>2 DEF Paired
<1>7. AreCut(documents', chunks')
  BY <1>1, <1>2
<1> QED BY <1>2, <1>5, <1>6, <1>7 DEF Unsplit, Split


(* The pages of bytes are pages of text.                                    *)
LEMMA PagesAre ==
  ASSUME NEW b \in DOMAIN PagesOf
  PROVE  PagesOf[b] \in Seq(Text)
<1>1. PagesOf[b] \in Seq(Seq(STRING))
  BY IngestAssumption
<1>2. ASSUME NEW t \in Seq(STRING) PROVE t \in Text
  <2>1. \A s \in STRING : s \in Characters
    BY DEF Characters
  <2> HIDE DEF Characters
  <2>2. Len(t) \in Nat /\ t = [i \in 1..Len(t) |-> t[i]] /\ \A i \in 1..Len(t) : t[i] \in STRING
    OBVIOUS
  <2>3. \A i \in 1..Len(t) : t[i] \in Characters
    BY <2>1, <2>2
  <2> QED BY <2>2, <2>3 DEF Text
<1>3. DOMAIN PagesOf[b] = 1..Len(PagesOf[b]) /\ \A k \in 1..Len(PagesOf[b]) : PagesOf[b][k] \in Text
  BY <1>1, <1>2
<1> QED BY <1>1, <1>3

(* The invariant holds initially.                                           *)
LEMMA InitGood ==
  Init => IngestInv
<1> SUFFICES ASSUME Init PROVE IngestInv
  OBVIOUS
<1>1. /\ corpus \in Corpora /\ disk = corpus.files /\ pc = "discover" /\ todo = <<>>
      /\ inventory = <<>> /\ documents = <<>> /\ chunks = <<>> /\ torn = {}
  BY DEF Init
<1>2. OnDisk(disk, corpus)
  <2>1. \A p \in DOMAIN corpus.files : corpus.files[p] \in DOMAIN PagesOf \cup {Unreadable}
    BY <1>1, IngestAssumption
  <2> QED BY <1>1, <2>1 DEF OnDisk, Met
<1>3. todo \in Seq(Named(corpus))
  <2> DEFINE S == Named(corpus)
  <2> HIDE DEF S
  <2>1. <<>> \in Seq(S)
    OBVIOUS
  <2> QED BY <1>1, <2>1 DEF S
<1>4. InHand
  BY <1>1, <1>2, <1>3 DEF InHand, Reading
<1>5. PlanMade
  BY <1>1, EmptyList DEF PlanMade, AreRecords, AreTaken
<1>6. Paired(documents, inventory) /\ AreCut(documents, chunks)
  <2>1. Paired(documents, inventory)
    BY <1>1 DEF Paired
  <2>2. ToSet(documents) = {} /\ ToSet(chunks) = {} /\ DOMAIN documents = {}
    BY <1>1, EmptyList
  <2>3. \E first \in [{} -> DOMAIN chunks] : TRUE
    <3>1. [i \in {} |-> i] \in [{} -> DOMAIN chunks]
      OBVIOUS
    <3> QED BY <3>1
  <2> QED BY <2>1, <2>2, <2>3 DEF AreCut
<1> QED BY <1>1, <1>4, <1>5, <1>6 DEF IngestInv, Unsplit, Split

(* Discovery keeps the invariant.                                           *)
LEMMA DiscoverKeeps ==
  ASSUME IngestInv, DiscoverSources
  PROVE  IngestInv'
<1>1. /\ pc = "discover" /\ corpus \in Corpora /\ OnDisk(disk, corpus)
             /\ todo \in Seq(Named(corpus))
      /\ ~(pc \in Reading)
  BY DEF DiscoverSources, IngestInv, InHand, Reading
<1>2. todo = <<>> /\ inventory = <<>> /\ documents = <<>> /\ chunks = <<>>
  BY <1>1 DEF IngestInv, InHand
<1>3. CASE Stop
  <2>1. pc' = "stopped" /\ UNCHANGED <<corpus, disk, todo, hash, inventory, documents, chunks,
            torn>>
    BY <1>3 DEF Stop, Goto
  <2>2. InHand'
    BY <1>1, <1>2, <2>1 DEF InHand, Reading
  <2>3. PlanMade'
    BY <2>1 DEF PlanMade, IngestInv
  <2> QED BY <2>1, <2>2, <2>3 DEF IngestInv, Unsplit, Split, Reading
<1>4. CASE Discover(corpus.notes) # <<>> /\ todo' = Discover(corpus.notes) /\ Goto("identify")
           /\ UNCHANGED <<corpus, disk, hash, warned, inventory, documents, chunks, stored,
                          collection, changes, torn>>
  <2>1. todo' \in Seq(Named(corpus'))
    <3>1. Discover(corpus.notes) \in Seq(Sources(corpus.notes))
      BY <1>1, CorporaAreLibraries, DiscoverIs
    <3>2. Discover(corpus.notes) \in Seq(ToSet(Discover(corpus.notes)))
      BY <3>1, InList DEF IsList
    <3> QED BY <1>4, <3>2 DEF Named
  <2>2. Handled(corpus', todo', inventory')
    BY <1>4 DEF Handled, Named
  <2>3. InHand'
    BY <1>1, <1>2, <1>4, <2>1, <2>2 DEF InHand, Reading, Goto
  <2>4. PlanMade'
    BY <1>4 DEF PlanMade, IngestInv
  <2>5. Unsplit' /\ Split'
    BY <1>1, <1>4 DEF IngestInv, Unsplit, Split, Reading, Goto
  <2> QED BY <2>3, <2>4, <2>5 DEF IngestInv
<1> QED BY <1>3, <1>4 DEF DiscoverSources

(* A source fails, at whatever step.                                        *)
LEMMA FailureKeeps ==
  ASSUME IngestInv, pc \in Reading, NEW id, id = None \/ id = Identity(Source),
         NEW status, status # "success", NEW error, NEW pages, NEW count,
         Recorded(Record(Source, id, status, error, pages, count)),
         UNCHANGED <<documents, chunks>>
  PROVE  IngestInv'
<1> DEFINE r == Record(Source, id, status, error, pages, count)
<1>1. InHand /\ PlanMade /\ Unsplit /\ Split /\ IsList(inventory)
  BY DEF IngestInv, PlanMade
<1>2. IsRecord(r, Source, corpus, torn) /\ r.status # "success"
  BY <1>1, FailureIs
<1>3. Recorded(r)
  OBVIOUS
<1>4. Source \in Named(corpus)
  BY <1>1, InHandIs
<1> HIDE DEF r
<1>5. InHand'
  BY <1>1, <1>2, <1>3, RecordedHand DEF IsRecord
<1>6. PlanMade' /\ Unsplit' /\ Split'
  BY <1>1, <1>2, <1>3, <1>4, FailedPlan
<1> QED BY <1>5, <1>6 DEF IngestInv

(* A step that only moves on to another step of the same source.            *)
LEMMA ProceedKeeps ==
  ASSUME IngestInv, pc \in Reading, NEW label \in {"hash", "compare", "rehash", "extract"},
         Proceed(label), Identity(Source) # None,
         label # "hash" => hash' \in Met(corpus),
         label = "extract" => Source.path \in DOMAIN disk /\ disk[Source.path] = hash'
  PROVE  IngestInv'
<1>1. /\ pc' = label
      /\ UNCHANGED <<corpus, disk, todo, inventory, documents, chunks, torn>>
  BY DEF Proceed, Goto
<1>2. Source' = Source /\ Identity(Source)' = Identity(Source)
  BY <1>1 DEF Source, Identity
<1>3. /\ corpus \in Corpora /\ OnDisk(disk, corpus) /\ todo \in Seq(Named(corpus))
      /\ todo # <<>> /\ Handled(corpus, todo, inventory)
  BY DEF IngestInv, InHand, Reading
<1>4. InHand'
  BY <1>1, <1>2, <1>3 DEF InHand, Reading
<1>5. PlanMade'
  BY <1>1 DEF PlanMade, IngestInv
<1>6. Paired(documents, inventory) /\ AreCut(documents, chunks)
  BY DEF IngestInv, Unsplit
<1> QED BY <1>1, <1>4, <1>5, <1>6 DEF IngestInv, Unsplit, Split, Reading


(* Resolving the identity of a source keeps it.                             *)
LEMMA IdentifyKeeps ==
  ASSUME IngestInv, Identify
  PROVE  IngestInv'
<1>1. pc \in Reading
  BY DEF Identify, Reading
<1>2. CASE Identity(Source) = None
  <2>1. Failed(None, "error", "identity_unresolved")
    BY <1>2 DEF Identify
  <2> QED BY <1>1, <2>1, FailureKeeps DEF Failed
<1>3. CASE Identity(Source) # None
  <2>1. Proceed("hash")
    BY <1>3 DEF Identify
  <2> QED BY <1>1, <1>3, <2>1, ProceedKeeps
<1> QED BY <1>2, <1>3

(* What is read from a file of the library.                                 *)
LEMMA ReadIs ==
  ASSUME InHand, NEW path \in DOMAIN disk, disk[path] # Unreadable
  PROVE  disk[path] \in Met(corpus) /\ disk[path] \in DOMAIN PagesOf
BY DEF InHand, OnDisk, Met

(* Hashing the source keeps it.                                             *)
LEMMA HashSourceKeeps ==
  ASSUME IngestInv, HashSource
  PROVE  IngestInv'
<1>1. pc \in Reading /\ Identity(Source) # None /\ InHand
  BY DEF HashSource, Reading, IngestInv, InHand
<1>2. CASE Failed(Identity(Source), "missing", "source_missing")
  BY <1>1, <1>2, FailureKeeps DEF Failed
<1>3. CASE Failed(Identity(Source), "error", "source_hash_error")
  BY <1>1, <1>3, FailureKeeps DEF Failed
<1>4. CASE /\ Source.path \in DOMAIN disk /\ disk[Source.path] # Unreadable
           /\ hash' = disk[Source.path] /\ Proceed("compare")
  <2>1. hash' \in Met(corpus)
    BY <1>1, <1>4, ReadIs
  <2> QED BY <1>1, <1>4, <2>1, ProceedKeeps
<1> QED BY <1>2, <1>3, <1>4 DEF HashSource

(* Comparing the copy with its original keeps it.                           *)
LEMMA CompareOriginalKeeps ==
  ASSUME IngestInv, CompareOriginal
  PROVE  IngestInv'
<1>1. pc \in Reading /\ Identity(Source) # None /\ hash \in Met(corpus)
  BY DEF CompareOriginal, Reading, IngestInv, InHand
<1>2. CASE Failed(Identity(Source), "error", "source_original_hash_error")
  BY <1>1, <1>2, FailureKeeps DEF Failed
<1>3. CASE Failed(Identity(Source), "error", "source_copy_hash_mismatch")
  BY <1>1, <1>3, FailureKeeps DEF Failed
<1>4. CASE Proceed("rehash") /\ UNCHANGED hash
  <2>1. hash' \in Met(corpus)
    BY <1>1, <1>4
  <2> QED BY <1>1, <1>4, <2>1, ProceedKeeps
<1> QED BY <1>2, <1>3, <1>4 DEF CompareOriginal

(* Hashing the original keeps it.                                           *)
LEMMA RehashKeeps ==
  ASSUME IngestInv, Rehash
  PROVE  IngestInv'
<1>1. pc \in Reading /\ Identity(Source) # None /\ hash \in Met(corpus)
  BY DEF Rehash, Reading, IngestInv, InHand
<1>2. CASE SameBytes
  <2>1. Proceed("extract") /\ hash' = hash
    BY <1>2 DEF Rehash
  <2>2. Source.path \in DOMAIN disk /\ disk[Source.path] = hash'
    BY <1>2, <2>1 DEF SameBytes, Readable
  <2> QED BY <1>1, <2>1, <2>2, ProceedKeeps
<1>3. CASE ~SameBytes
  <2>1. Failed(Identity(Source), "error", "canonical_extraction_error")
    BY <1>3 DEF Rehash, ExtractionFails
  <2> QED BY <1>1, <2>1, FailureKeeps DEF Failed
<1> QED BY <1>2, <1>3

(* A document and its chunks are added to the plan.                         *)
LEMMA CutGrows ==
  ASSUME NEW docs, IsList(docs), NEW q, IsList(q), AreCut(docs, q),
         NEW d, NEW made, made = Adapted(d), made # <<>>, IsList(made),
         NEW more, more = Append(docs, d), NEW longer, longer = q \o made
  PROVE  AreCut(more, longer)
<1> DEFINE N == Len(docs)  M == Len(q)
<1>1. /\ N \in Nat /\ DOMAIN docs = 1..N /\ M \in Nat /\ DOMAIN q = 1..M
      /\ Len(made) \in Nat /\ DOMAIN made = 1..Len(made)
  BY ListIs
<1>2. /\ IsList(more) /\ Len(more) = N + 1 /\ more[N + 1] = d
      /\ \A i \in 1..N : more[i] = docs[i]
      /\ ToSet(more) = ToSet(docs) \cup {d}
  <2>1. Extended(more, docs, d)
    BY AppendList
  <2> QED BY <2>1 DEF Extended
<1>3. /\ IsList(longer) /\ Len(longer) = M + Len(made)
      /\ \A i \in 1..M : longer[i] = q[i]
      /\ \A i \in 1..Len(made) : longer[M + i] = made[i]
      /\ ToSet(longer) = ToSet(q) \cup ToSet(made)
  <2>1. Joins(longer, q, made)
    BY ConcatList
  <2> QED BY <2>1 DEF Joins
<1>4. DOMAIN more = 1..(N + 1) /\ DOMAIN longer = 1..(M + Len(made)) /\ Len(made) >= 1
  <2>1. Len(made) # 0
    <3>1. made \in Seq(ToSet(made))
      BY DEF IsList
    <3> QED BY <3>1
  <2> QED BY <1>1, <1>2, <1>3, <2>1, ListIs
<1>5. /\ \A c \in ToSet(longer) : \E e \in ToSet(more) : c \in ToSet(Adapted(e))
      /\ \A e \in ToSet(more) : ToSet(Adapted(e)) \subseteq ToSet(longer)
  BY <1>2, <1>3 DEF AreCut
<1>6. PICK first \in [DOMAIN docs -> DOMAIN q] :
        /\ \A i, j \in DOMAIN docs : first[i] = first[j] => i = j
        /\ \A i \in DOMAIN docs : q[first[i]] = Adapted(docs[i])[1]
  BY DEF AreCut
<1> DEFINE new == [i \in 1..(N + 1) |-> IF i = N + 1 THEN M + 1 ELSE first[i]]
<1>7. ASSUME NEW i \in 1..(N + 1)
      PROVE  \/ i \in 1..N /\ new[i] = first[i] /\ new[i] \in 1..M
             \/ i = N + 1 /\ new[i] = M + 1
  BY <1>1, <1>6, SMTT(30)
<1> HIDE DEF N, M, new
<1>8. new \in [DOMAIN more -> DOMAIN longer]
  <2>1. ASSUME NEW i \in 1..(N + 1) PROVE new[i] \in 1..(M + Len(made))
    BY <1>1, <1>4, <1>7, SMTT(30)
  <2>2. new = [i \in 1..(N + 1) |-> new[i]]
    BY DEF new
  <2> QED BY <1>4, <2>1, <2>2
<1>9. ASSUME NEW i \in DOMAIN more, NEW j \in DOMAIN more, new[i] = new[j] PROVE i = j
  <2>1. i \in 1..(N + 1) /\ j \in 1..(N + 1)
    BY <1>4
  <2>2. CASE i \in 1..N /\ j \in 1..N
    <3>1. new[i] = first[i] /\ new[j] = first[j]
      BY <1>1, <1>7, <2>2, SMTT(30)
    <3> QED BY <1>1, <1>6, <1>9, <2>2, <3>1
  <2>3. CASE i = N + 1 /\ j \in 1..N
    <3>1. new[i] = M + 1 /\ new[j] \in 1..M
      BY <1>1, <1>7, <2>1, <2>3
    <3> QED BY <1>1, <1>9, <3>1
  <2>4. CASE i \in 1..N /\ j = N + 1
    <3>1. new[j] = M + 1 /\ new[i] \in 1..M
      BY <1>1, <1>7, <2>1, <2>4
    <3> QED BY <1>1, <1>9, <3>1
  <2> QED BY <1>1, <2>1, <2>2, <2>3, <2>4
<1>10. ASSUME NEW i \in DOMAIN more PROVE longer[new[i]] = Adapted(more[i])[1]
  <2>1. i \in 1..(N + 1)
    BY <1>4
  <2>2. CASE i \in 1..N /\ new[i] = first[i] /\ new[i] \in 1..M
    <3>1. more[i] = docs[i] /\ longer[new[i]] = q[first[i]]
      BY <1>2, <1>3, <2>2
    <3> QED BY <1>1, <1>6, <2>2, <3>1
  <2>3. CASE i = N + 1 /\ new[i] = M + 1
    <3>1. longer[M + 1] = made[1]
      <4>1. 1 \in 1..Len(made)
        BY <1>1, <1>4
      <4> QED BY <1>3, <4>1
    <3> QED BY <1>2, <2>3, <3>1
  <2> QED BY <1>7, <2>1, <2>2, <2>3
<1> QED BY <1>5, <1>8, <1>9, <1>10 DEF AreCut

(* A source succeeds.                                                       *)
LEMMA SuccessKeeps ==
  ASSUME IngestInv, pc = "extract", Readable(Source.path),
         NEW d, d = Document(Source, PagesOf[disk[Source.path]]),
         NEW made, made = Adapted(d), made # None, ~NoText(d, made),
         NEW r, r = Record(Source, Identity(Source), "success", None, d.pages, Len(made)),
         Recorded(r), documents' = Append(documents, d), chunks' = chunks \o made
  PROVE  IngestInv'
<1> DEFINE b == disk[Source.path]  id == Identity(Source)
<1>1. InHand /\ PlanMade /\ pc \in Reading /\ Paired(documents, inventory)
          /\ AreCut(documents, chunks)
  BY DEF IngestInv, Unsplit, Reading
<1>2. id # None /\ hash \in Met(corpus) /\ (Source.note \in torn \/ b = hash)
  BY <1>1 DEF InHand
<1>3. b \in Met(corpus) /\ b \in DOMAIN PagesOf
  BY <1>1, ReadIs DEF Readable
<1>4. /\ d = [file |-> id.attachment, paper |-> id.parent, hash |-> hash, pages |-> PagesOf[b]]
      /\ IsDocument(d)
  BY <1>3, PagesAre DEF Document, IsDocument
<1>5. id.parent \in Nat /\ id.attachment \in Nat
  BY <1>1, <1>2, InHandIs, ResolveIs DEF Identity
<1>6. made # <<>>
  BY DEF NoText
<1>7. IsList(made)
  <2>1. Len(made) \in Nat /\ made = [i \in 1..Len(made) |-> made[i]]
    BY <1>4, <1>6, AdaptedIs
  <2> QED BY <2>1, MadeList
<1>8. IsTaken(d, corpus, torn)
  <2>1. torn = {} => b = hash
    BY <1>2
  <2> QED BY <1>2, <1>3, <1>4, <1>5, <1>6, <2>1 DEF IsTaken
<1>9. /\ r.note = Source.note /\ r.index = Source.index /\ (r.main <=> Source.index = 0)
      /\ r.status = "success" /\ r.paper = id.parent /\ r.file = id.attachment /\ r.hash = hash
      /\ r.pages = PagesOf[b]
  <2>1. /\ r.note = Source.note /\ r.index = Source.index
        /\ r.status = "success" /\ r.hash = hash
    BY DEF Record
  <2>2. r.main <=> Source.index = 0
    BY DEF Record
  <2>3. r.paper = id.parent /\ r.file = id.attachment
    BY <1>2 DEF Record
  <2>4. r.pages = PagesOf[b]
    BY <1>4 DEF Record
  <2> QED BY <2>1, <2>2, <2>3, <2>4
<1>10. IsRecord(r, Source, corpus, torn)
  <2>1. r = [note |-> r.note, index |-> r.index, status |-> r.status, error |-> r.error,
             main |-> r.main, paper |-> r.paper, file |-> r.file, hash |-> r.hash,
             pages |-> r.pages, count |-> r.count, warnings |-> r.warnings]
    BY DEF Record
  <2>2. r.paper \in Nat \cup {None} /\ Resolve(Source, corpus.db, corpus.base) # None
    BY <1>2, <1>5, <1>9 DEF Identity
  <2>3. /\ r.paper = Resolve(Source, corpus.db, corpus.base).parent
        /\ r.file = Resolve(Source, corpus.db, corpus.base).attachment
    BY <1>2, <1>9 DEF Identity
  <2>4. r.hash \in Met(corpus) /\ (r.note \in torn \/ r.pages = PagesOf[r.hash])
    BY <1>2, <1>5, <1>9
  <2> QED BY <1>9, <2>1, <2>2, <2>3, <2>4, Zenon DEF IsRecord
<1>11. /\ corpus' = corpus /\ torn' = torn /\ inventory' = Append(inventory, r)
       /\ pc' \in {"check", "identify"}
  BY DEF Recorded, Goto
<1> HIDE DEF b, id
<1>12. /\ IsList(inventory) /\ IsList(documents) /\ IsList(chunks)
       /\ AreRecords(inventory, corpus, torn) /\ AreTaken(documents, corpus, torn)
  BY <1>1 DEF PlanMade
<1>13. InHand'
  BY <1>1, <1>9, <1>12, RecordedHand
<1>14. /\ IsList(inventory') /\ ToSet(inventory') = ToSet(inventory) \cup {r}
       /\ Len(inventory') = Len(inventory) + 1 /\ inventory'[Len(inventory) + 1] = r
       /\ \A i \in 1..Len(inventory) : inventory'[i] = inventory[i]
  <2>1. Extended(inventory', inventory, r)
    BY <1>11, <1>12, AppendList
  <2> QED BY <2>1 DEF Extended
<1>15. /\ IsList(documents') /\ ToSet(documents') = ToSet(documents) \cup {d}
       /\ Len(documents') = Len(documents) + 1 /\ documents'[Len(documents) + 1] = d
       /\ \A i \in 1..Len(documents) : documents'[i] = documents[i]
  <2>1. Extended(documents', documents, d)
    BY <1>12, AppendList
  <2> QED BY <2>1 DEF Extended
<1>16. IsList(chunks')
  BY <1>7, <1>12, ConcatList DEF Joins
<1>17. AreRecords(inventory', corpus', torn')
  <2>1. Source \in Named(corpus)
    BY <1>1, InHandIs
  <2>2. ASSUME NEW e \in ToSet(inventory')
        PROVE  \E s \in Named(corpus) : IsRecord(e, s, corpus, torn)
    <3>1. CASE e \in ToSet(inventory)
      BY <1>12, <3>1 DEF AreRecords
    <3>2. CASE e = r
      BY <1>10, <2>1, <3>2
    <3> QED BY <1>14, <2>2, <3>1, <3>2
  <2> QED BY <1>11, <2>2 DEF AreRecords
<1>18. AreTaken(documents', corpus', torn')
  BY <1>8, <1>11, <1>12, <1>15 DEF AreTaken
<1>19. PlanMade'
  BY <1>14, <1>15, <1>16, <1>17, <1>18 DEF PlanMade
<1>20. AreCut(documents', chunks')
  BY <1>1, <1>6, <1>7, <1>12, CutGrows
<1>21. Paired(documents', inventory')
  <2>1. Paired(documents, inventory)
    BY <1>1
  <2>2. Extended(documents', documents, d)
    BY <1>12, AppendList
  <2>3. Extended(inventory', inventory, r)
    BY <1>11, <1>12, AppendList
  <2>4. d.file = r.file
    BY <1>4, <1>9
  <2> QED BY <1>12, <2>1, <2>2, <2>3, <2>4, PairedGrows
<1> QED BY <1>11, <1>13, <1>19, <1>20, <1>21 DEF IngestInv, Unsplit, Split

(* Extraction keeps it, whether or not it succeeds.                         *)
LEMMA ExtractKeeps ==
  ASSUME IngestInv, Extract
  PROVE  IngestInv'
<1> DEFINE d == Document(Source, PagesOf[disk[Source.path]])
<1>1. pc = "extract" /\ pc \in Reading
  BY DEF Extract, Reading
<1>2. CASE ~Readable(Source.path) /\ ExtractionFails
  BY <1>1, <1>2, FailureKeeps DEF ExtractionFails, Failed
<1>3. CASE Readable(Source.path) /\ TakeDocument(d)
  <2>1. CASE ExtractionFails
    BY <1>1, <2>1, FailureKeeps DEF ExtractionFails, Failed
  <2>2. CASE /\ Recorded(Record(Source, Identity(Source), "empty", "no_indexable_text", d.pages, 0))
             /\ UNCHANGED <<documents, chunks>>
    BY <1>1, <2>2, FailureKeeps
  <2>3. CASE /\ Adapted(d) # None /\ ~NoText(d, Adapted(d))
             /\ Recorded(Record(Source, Identity(Source), "success", None, d.pages,
                    Len(Adapted(d))))
             /\ documents' = Append(documents, d)
             /\ chunks' = chunks \o Adapted(d)
    BY <1>1, <1>3, <2>3, SuccessKeeps
  <2> QED BY <1>3, <2>1, <2>2, <2>3 DEF TakeDocument, Take
<1> QED BY <1>2, <1>3 DEF Extract


(* A file is replaced or removed.                                           *)
LEMMA ChangeKeeps ==
  ASSUME IngestInv, NEW path, NEW bytes \in corpus.bytes, Change(path, bytes)
  PROVE  IngestInv'
<1>1. /\ pc \in Reading /\ torn \subseteq torn'
      /\ UNCHANGED <<corpus, pc, todo, hash, inventory, documents, chunks, collection>>
  BY DEF Change, Reading
<1>2. /\ corpus \in Corpora /\ OnDisk(disk, corpus) /\ todo \in Seq(Named(corpus)) /\ todo # <<>>
      /\ Handled(corpus, todo, inventory)
  BY <1>1 DEF IngestInv, InHand, Reading
<1>3. OnDisk(disk', corpus)
  <2>1. CASE bytes # None /\ disk' =
                 [p \in DOMAIN disk \cup {path} |-> IF p = path THEN bytes ELSE disk[p]]
    <3>1. bytes \in DOMAIN PagesOf \cup {Unreadable}
              /\ (bytes = Unreadable \/ bytes \in Met(corpus))
      BY <1>2, <2>1, IngestAssumption DEF Met
    <3> QED BY <1>2, <2>1, <3>1 DEF OnDisk
  <2>2. CASE disk' = [p \in DOMAIN disk \ {path} |-> disk[p]]
    BY <1>2, <2>2 DEF OnDisk
  <2> QED BY <2>1, <2>2 DEF Change
<1>4. Source' = Source /\ Identity(Source)' = Identity(Source)
  BY <1>1 DEF Source, Identity
<1>5. ASSUME pc = "extract"
      PROVE  Source.note \in torn' \/ (Source.path \in DOMAIN disk' /\ disk'[Source.path] = hash)
  <2>1. Source.note \in torn \/ (Source.path \in DOMAIN disk /\ disk[Source.path] = hash)
    BY <1>5 DEF IngestInv, InHand
  <2>2. CASE path = Source.path
    BY <1>5, <2>2 DEF Change
  <2>3. CASE path # Source.path
    BY <1>1, <2>1, <2>3 DEF Change
  <2> QED BY <2>2, <2>3
<1>6. InHand'
  <2>1. pc' \in Reading <=> todo' # <<>>
    BY <1>1, <1>2
  <2>2. /\ pc' \in {"hash", "compare", "rehash", "extract"} => Identity(Source)' # None
        /\ pc' \in {"compare", "rehash", "extract"} => hash' \in Met(corpus')
    BY <1>1, <1>4 DEF IngestInv, InHand
  <2>3. pc' = "extract" =>
          Source'.note \in torn' \/ (Source'.path \in DOMAIN disk' /\ disk'[Source'.path] = hash')
    BY <1>1, <1>4, <1>5
  <2>4. pc' # "discover"
    BY <1>1 DEF Reading
  <2>5. corpus' \in Corpora /\ OnDisk(disk', corpus') /\ todo' \in Seq(Named(corpus'))
        /\ Handled(corpus', todo', inventory')
    BY <1>1, <1>2, <1>3
  <2> QED BY <2>1, <2>2, <2>3, <2>4, <2>5 DEF InHand
<1>7. PlanMade'
  <2>1. AreRecords(inventory, corpus, torn') /\ AreTaken(documents, corpus, torn')
    BY <1>1, StillTrue DEF IngestInv, PlanMade
  <2> QED BY <1>1, <2>1 DEF IngestInv, PlanMade
<1>8. Unsplit' /\ Split'
  BY <1>1 DEF IngestInv, Unsplit, Split, Reading
<1> QED BY <1>6, <1>7, <1>8 DEF IngestInv

(* A step of which the build sees nothing, and one that stops it.           *)
LEMMA ValidStays ==
  ASSUME UNCHANGED <<inventory, documents, chunks>>
  PROVE  Valid' <=> Valid
BY DEF Valid, Publishable, Files, DistinctIds, MatchesInventory, Located, DocumentOf, SourceOf,
    LastOf

(* A step that touches nothing of the build keeps it.                       *)
LEMMA UnseenKeeps ==
  ASSUME IngestInv,
         UNCHANGED <<corpus, disk, pc, todo, hash, inventory, documents, chunks, collection, torn>>
  PROVE  IngestInv'
<1>1. Source' = Source /\ Identity(Source)' = Identity(Source)
  BY DEF Source, Identity
<1>2. InHand'
  BY <1>1 DEF IngestInv, InHand
<1>3. PlanMade' /\ Unsplit'
  BY DEF IngestInv, PlanMade, Unsplit
<1>4. Split'
  BY ValidStays DEF IngestInv, Split
<1> QED BY <1>2, <1>3, <1>4 DEF IngestInv

(* Stopping the build keeps it.                                             *)
LEMMA StopKeeps ==
  ASSUME IngestInv, ~(pc \in Reading), Stop
  PROVE  IngestInv'
<1>1. pc' = "stopped" /\ UNCHANGED <<corpus, disk, todo, hash, inventory, documents, chunks, torn>>
  BY DEF Stop, Goto
<1>2. InHand'
  BY <1>1 DEF IngestInv, InHand, Reading
<1>3. PlanMade'
  BY <1>1 DEF PlanMade, IngestInv
<1> QED BY <1>1, <1>2, <1>3 DEF IngestInv, Unsplit, Split, Reading

(* The validation of the plan keeps it.                                     *)
LEMMA ValidateKeeps ==
  ASSUME IngestInv, Validate
  PROVE  IngestInv'
<1>1. pc = "validate" /\ ~(pc \in Reading)
  BY DEF Validate, Reading
<1>2. CASE Stop
  BY <1>1, <1>2, StopKeeps
<1>3. CASE /\ Valid /\ pc' = "write"
           /\ UNCHANGED <<corpus, disk, todo, hash, inventory, documents, chunks, collection, torn>>
  <2>1. InHand'
    BY <1>1, <1>3 DEF IngestInv, InHand, Reading
  <2>2. PlanMade' /\ Unsplit'
    BY <1>1, <1>3 DEF IngestInv, PlanMade, Unsplit, Reading
  <2>3. Split'
    BY <1>1, <1>3, ValidStays DEF IngestInv, Split
  <2> QED BY <2>1, <2>2, <2>3 DEF IngestInv
<1> QED BY <1>2, <1>3 DEF Validate, Goto

(* The writes: what was checked stays as it is.                             *)
LEMMA WriteKeeps ==
  ASSUME IngestInv, pc = "write", pc' \in {"write", "failed", "published"},
         UNCHANGED <<corpus, disk, todo, hash, inventory, documents, chunks, torn>>,
         pc' = "published" => ToSet(collection') = ToSet(chunks)
  PROVE  IngestInv'
<1>1. InHand'
  BY DEF IngestInv, InHand, Reading
<1>2. PlanMade' /\ Unsplit'
  BY DEF IngestInv, PlanMade, Unsplit, Reading
<1>3. Split'
  BY ValidStays DEF IngestInv, Split
<1> QED BY <1>1, <1>2, <1>3 DEF IngestInv

(* Writing a batch keeps it.                                                *)
LEMMA WriteBatchKeeps ==
  ASSUME IngestInv, WriteBatch
  PROVE  IngestInv'
<1>1. pc = "write" /\ pc' \in {"write", "failed"}
      /\ UNCHANGED <<corpus, disk, todo, hash, inventory, documents, chunks, torn>>
  BY DEF WriteBatch, Goto
<1> QED BY <1>1, WriteKeeps

(* Comparing the collection with the plan keeps it.                         *)
LEMMA CheckCollectionKeeps ==
  ASSUME IngestInv, CheckCollection
  PROVE  IngestInv'
<1>1. pc = "write" /\ pc' \in {"failed", "published"}
      /\ UNCHANGED <<corpus, disk, todo, hash, inventory, documents, chunks, torn>>
      /\ (pc' = "published" => ToSet(collection') = ToSet(chunks))
  BY DEF CheckCollection, Goto
<1> QED BY <1>1, WriteKeeps

(* The sorted plan.                                                         *)
LEMMA CutSorted ==
  ASSUME NEW docs, NEW q, AreCut(docs, q), NEW r, Rearranges(r, docs)
  PROVE  AreCut(r, q)
<1>1. PICK h \in Bijection(DOMAIN docs, DOMAIN docs) : r = [k \in DOMAIN docs |-> docs[h[k]]]
  BY DEF Rearranges
<1>2. /\ h \in [DOMAIN docs -> DOMAIN docs]
      /\ \A i, j \in DOMAIN docs : h[i] = h[j] => i = j
  BY <1>1, Fun_BijectionProperties
<1>3. DOMAIN r = DOMAIN docs /\ ToSet(r) = ToSet(docs)
  <2>1. Shuffled(r, docs, DOMAIN docs)
    BY RearrangedHas
  <2> QED BY <2>1 DEF Shuffled
<1>4. PICK first \in [DOMAIN docs -> DOMAIN q] :
        /\ \A i, j \in DOMAIN docs : first[i] = first[j] => i = j
        /\ \A i \in DOMAIN docs : q[first[i]] = Adapted(docs[i])[1]
  BY DEF AreCut
<1> DEFINE new == [k \in DOMAIN docs |-> first[h[k]]]
<1>5. new \in [DOMAIN r -> DOMAIN q]
  BY <1>2, <1>3, <1>4
<1>6. \A i, j \in DOMAIN r : new[i] = new[j] => i = j
  BY <1>2, <1>3, <1>4
<1>7. \A i \in DOMAIN r : q[new[i]] = Adapted(r[i])[1]
  BY <1>1, <1>2, <1>3, <1>4
<1> HIDE DEF new
<1>8. /\ \A c \in ToSet(q) : \E d \in ToSet(r) : c \in ToSet(Adapted(d))
      /\ \A d \in ToSet(r) : ToSet(Adapted(d)) \subseteq ToSet(q)
  BY <1>3 DEF AreCut
<1> QED BY <1>5, <1>6, <1>7, <1>8 DEF AreCut

(* The decision whether the corpus can be published keeps it.               *)
LEMMA CheckPublishableKeeps ==
  ASSUME IngestInv, CheckPublishable
  PROVE  IngestInv'
<1>1. /\ pc = "check" /\ inventory' = InventoryInOrder /\ documents' = DocumentsInOrder
      /\ (pc' = IF Publishable THEN "split" ELSE "stopped")
      /\ UNCHANGED <<corpus, disk, todo, hash, chunks, torn>>
  BY DEF CheckPublishable, Goto
<1>2. /\ InHand /\ Handled(corpus, todo, inventory) /\ IsList(inventory) /\ IsList(documents)
      /\ AreRecords(inventory, corpus, torn) /\ AreTaken(documents, corpus, torn) /\ IsList(chunks)
      /\ Paired(documents, inventory) /\ AreCut(documents, chunks)
  BY <1>1 DEF IngestInv, InHand, PlanMade, Unsplit
<1> DEFINE N == Len(inventory)  M == Len(documents)
<1>3. N \in Nat /\ DOMAIN inventory = 1..N /\ \A i \in 1..N : inventory[i] \in ToSet(inventory)
  BY <1>2, ListIs
<1>4. M \in Nat /\ DOMAIN documents = 1..M /\ \A i \in 1..M : documents[i] \in ToSet(documents)
  BY <1>2, ListIs
<1> HIDE DEF N, M
<1>5. Rearranges(inventory', inventory)
  <2>1. ASSUME NEW i \in 1..N PROVE Rank(inventory[i].paper) \in Int
    <3>1. inventory[i].paper \in Nat \cup {None}
      BY <1>2, <1>3 DEF AreRecords, IsRecord
    <3> QED BY <3>1 DEF Rank
  <2> QED BY <1>1, <1>3, <2>1, InventoryOrderRearranges
<1>6. Rearranges(documents', documents)
  <2>1. ASSUME NEW i \in 1..M PROVE documents[i].paper \in Int /\ documents[i].file \in Int
    BY <1>2, <1>4 DEF AreTaken, IsTaken
  <2> QED BY <1>1, <1>4, <2>1, DocumentOrderRearranges
<1>7. Shuffled(inventory', inventory, 1..N) /\ Shuffled(documents', documents, 1..M)
  BY <1>3, <1>4, <1>5, <1>6, RearrangedHas
<1>8. /\ ToSet(inventory') = ToSet(inventory) /\ DOMAIN inventory' = 1..N
      /\ ToSet(documents') = ToSet(documents) /\ DOMAIN documents' = 1..M
  BY <1>7 DEF Shuffled
<1>9. IsList(inventory') /\ IsList(documents')
  BY <1>2, <1>5, <1>6, RearrangedIsSeq, InList DEF IsList
<1>10. PlanMade'
  BY <1>1, <1>2, <1>8, <1>9 DEF PlanMade, AreRecords, AreTaken
<1>11. InHand'
  <2>1. Handled(corpus', todo', inventory')
    BY <1>1, <1>2, <1>8 DEF Handled
  <2> QED BY <1>1, <1>2, <2>1 DEF InHand, Reading
<1>12. AreCut(documents', chunks')
  BY <1>1, <1>2, <1>6, CutSorted
<1>13. ASSUME Publishable, Repeats(inventory') PROVE Repeats(documents')
  <2>1. \A i \in DOMAIN inventory : inventory[i].status = "success"
    BY <1>3, <1>13 DEF Publishable
  <2>2. M = N /\ \A i \in 1..N : documents[i].file = inventory[i].file
    BY <1>2, <1>3, <1>4, <2>1 DEF Paired
  <2>3. PICK k, l \in 1..N : k # l /\ inventory'[k].file = inventory'[l].file
    BY <1>8, <1>13 DEF Repeats
  <2>4. PICK i, j \in 1..N : i # j /\ inventory'[k] = inventory[i] /\ inventory'[l] = inventory[j]
    BY <1>7, <2>3 DEF Shuffled
  <2>5. documents[i].file = documents[j].file
    BY <2>2, <2>3, <2>4
  <2>6. i \in 1..M /\ j \in 1..M /\ i # j
    BY <2>2, <2>4
  <2>7. \A a, b \in 1..M : a # b =>
          \E x, y \in 1..M : x # y /\ documents'[x] = documents[a] /\ documents'[y] = documents[b]
    BY <1>7 DEF Shuffled
  <2>8. PICK x, y \in 1..M : x # y /\ documents'[x] = documents[i] /\ documents'[y] = documents[j]
    BY <2>6, <2>7
  <2> QED BY <1>8, <2>5, <2>8 DEF Repeats
<1> QED BY <1>1, <1>10, <1>11, <1>12, <1>13 DEF IngestInv, Unsplit, Split, Reading


(* The split.                                                               *)

(* A count tells whether something is there twice.                          *)
LEMMA CountTells ==
  ASSUME NEW N \in Nat, NEW T, NEW f \in [1..N -> T], \A t \in T : \E i \in 1..N : f[i] = t
  PROVE  /\ IsFiniteSet(T)
         /\ Cardinality(T) = N <=> \A i, j \in 1..N : f[i] = f[j] => i = j
<1>1. IsFiniteSet(1..N) /\ Cardinality(1..N) = N
  BY FS_Interval
<1>2. f \in Surjection(1..N, T)
  BY Fun_IsSurj
<1>3. IsFiniteSet(T) /\ (Cardinality(T) = N <=> f \in Injection(1..N, T))
  BY <1>1, <1>2, FS_Surjection
<1>4. ASSUME f \in Injection(1..N, T) PROVE \A i, j \in 1..N : f[i] = f[j] => i = j
  BY <1>4, Fun_InjectionProperties
<1>5. ASSUME \A i, j \in 1..N : f[i] = f[j] => i = j PROVE f \in Injection(1..N, T)
  BY <1>5, Fun_IsInj
<1> QED BY <1>3, <1>4, <1>5

(* A function onto T that takes a value twice is longer than T.             *)
LEMMA CountRepeated ==
  ASSUME NEW N \in Nat, NEW T, NEW f \in [1..N -> T], \A t \in T : \E i \in 1..N : f[i] = t,
         NEW x \in 1..N, NEW y \in 1..N, x # y, f[x] = f[y]
  PROVE  Cardinality(T) # N
BY CountTells

(* Two members with one identifier make the identifiers fewer than the      *)
(* members.                                                                 *)
LEMMA RepeatedIds ==
  ASSUME NEW q, IsList(q), NEW i \in 1..Len(q), NEW j \in 1..Len(q), i # j, q[i].id = q[j].id
  PROVE  ~DistinctIn(q)
<1> DEFINE N == Len(q)  T == {c.id : c \in ToSet(q)}  f == [k \in 1..N |-> q[k].id]
<1>1. N \in Nat /\ (\A k \in 1..N : q[k] \in ToSet(q))
          /\ (\A e \in ToSet(q) : \E k \in 1..N : e = q[k])
  BY ListIs
<1>2. f \in [1..N -> T]
  BY <1>1
<1>3. \A t \in T : \E k \in 1..N : f[k] = t
  BY <1>1
<1>4. f[i] = f[j] /\ i \in 1..N /\ j \in 1..N
  OBVIOUS
<1> HIDE DEF f, N, T
<1>5. N \in Nat
  BY <1>1
<1>6. Cardinality(T) # N
  BY <1>2, <1>3, <1>4, <1>5, CountRepeated
<1> QED BY <1>6 DEF DistinctIn, N, T

(* Without a repeated file there are as many files as members.              *)
LEMMA NoneTwice ==
  ASSUME NEW q, IsList(q), ~Repeats(q)
  PROVE  Cardinality({r.file : r \in ToSet(q)}) = Len(q)
<1> DEFINE N == Len(q)  T == {r.file : r \in ToSet(q)}  f == [k \in 1..N |-> q[k].file]
<1>1. /\ N \in Nat /\ DOMAIN q = 1..N
      /\ (\A k \in 1..N : q[k] \in ToSet(q)) /\ (\A e \in ToSet(q) : \E k \in 1..N : e = q[k])
  BY ListIs
<1>2. f \in [1..N -> T]
  BY <1>1
<1>3. \A t \in T : \E k \in 1..N : f[k] = t
  BY <1>1
<1>4. \A i, j \in 1..N : f[i] = f[j] => i = j
  BY <1>1 DEF Repeats
<1> HIDE DEF f, N, T
<1>5. Cardinality(T) = N
  BY <1>1, <1>2, <1>3, <1>4, CountTells
<1> QED BY <1>5 DEF N, T

(* The chunks of a file.                                                    *)
Sieved(q, all, f, N) ==
  /\ DOMAIN q = 1..N
  /\ \A n \in 1..N : q[n] \in ToSet(all) /\ q[n].file = f
  /\ \A p \in 1..Len(all) : all[p].file = f => \E n \in 1..N : q[n] = all[p]
  /\ \A p, s \in 1..Len(all) : p # s /\ all[p].file = f /\ all[s].file = f =>
       \E n, m \in 1..N : n # m /\ q[n] = all[p] /\ q[m] = all[s]

(* The chunks of one file, as a part of the plan.                           *)
LEMMA ChunksOfIs ==
  ASSUME IsList(chunks), NEW f
  PROVE  \E N \in Nat : Sieved(ChunksOf(f), chunks, f, N)
<1> DEFINE S == {i \in DOMAIN chunks : chunks[i].file = f}  q == Picked(chunks, S)  M == Len(chunks)
           N == Cardinality(S)
<1>1. M \in Nat /\ DOMAIN chunks = 1..M /\ \A i \in 1..M : chunks[i] \in ToSet(chunks)
  BY ListIs
<1>2. S \subseteq 1..M /\ S \in SUBSET Int
  <2>1. S \subseteq 1..M
    BY <1>1
  <2>2. 1..M \subseteq Int
    BY <1>1
  <2> QED BY <2>1, <2>2
<1>3. IsFiniteSet(S)
  <2>1. IsFiniteSet(1..M)
    BY <1>1, FS_Interval
  <2> HIDE DEF S, M
  <2> QED BY <1>2, <2>1, FS_Subset
<1>4. q = ChunksOf(f)
  BY DEF ChunksOf
<1>5. \A i \in S : i \in 1..M /\ chunks[i].file = f
  BY <1>1
<1>6. \A i \in 1..M : chunks[i].file = f => i \in S
  BY <1>1
<1> HIDE DEF S, M, N, q
<1>7. N \in Nat /\ DOMAIN q = 1..N
  <2>1. Cardinality(S) \in Nat
    BY <1>2, <1>3, AscendingEnumerates
  <2>2. DOMAIN Picked(chunks, S) = 1..Cardinality(S)
    BY <1>2, <1>3, PickedEnumerates
  <2> QED BY <2>1, <2>2 DEF N, q
<1>8. ASSUME NEW n \in 1..N PROVE q[n] \in ToSet(chunks) /\ q[n].file = f
  <2>1. n \in DOMAIN Picked(chunks, S)
    BY <1>7 DEF q
  <2>2. Ascending(S)[n] \in S /\ Picked(chunks, S)[n] = chunks[Ascending(S)[n]]
    BY <1>2, <1>3, <2>1, PickedFrom
  <2> QED BY <1>1, <1>5, <2>2 DEF q
<1>9. ASSUME NEW p \in S PROVE \E n \in 1..N : Ascending(S)[n] = p /\ q[n] = chunks[p]
  <2>1. \E n \in DOMAIN Picked(chunks, S) : Ascending(S)[n] = p /\ Picked(chunks, S)[n] = chunks[p]
    BY <1>2, <1>3, PickedHas
  <2> QED BY <1>7, <2>1 DEF q
<1>10. ASSUME NEW p \in 1..M, NEW s \in 1..M, p # s, chunks[p].file = f, chunks[s].file = f
       PROVE  \E n, m \in 1..N : n # m /\ q[n] = chunks[p] /\ q[m] = chunks[s]
  <2>1. p \in S /\ s \in S
    BY <1>6, <1>10
  <2>2. PICK n \in 1..N : Ascending(S)[n] = p /\ q[n] = chunks[p]
    BY <1>9, <2>1
  <2>3. PICK m \in 1..N : Ascending(S)[m] = s /\ q[m] = chunks[s]
    BY <1>9, <2>1
  <2>4. n # m
    BY <1>10, <2>2, <2>3
  <2> QED BY <2>2, <2>3, <2>4
<1>11. \A p \in 1..M : chunks[p].file = f => \E n \in 1..N : q[n] = chunks[p]
  BY <1>6, <1>9
<1>12. Sieved(q, chunks, f, N)
  BY <1>7, <1>8, <1>10, <1>11 DEF M, Sieved
<1> QED BY <1>4, <1>7, <1>12


(* A document that was taken.                                               *)
LEMMA TakenIs ==
  ASSUME NEW docs, AreTaken(docs, corpus, torn), NEW d \in ToSet(docs)
  PROVE  /\ IsDocument(d) /\ Adapted(d) # None /\ Adapted(d) # <<>>
         /\ IsList(Adapted(d)) /\ Len(Adapted(d)) >= 1
         /\ \A c \in ToSet(Adapted(d)) : IsChunk(c) /\ SameSource(c, d)
<1>1. IsTaken(d, corpus, torn)
  BY DEF AreTaken
<1>2. Adapted(d) # None /\ Adapted(d) # <<>>
  BY <1>1 DEF IsTaken
<1>3. IsDocument(d)
  <2>1. PICK b \in Met(corpus) : d.pages = PagesOf[b]
    BY <1>1 DEF IsTaken
  <2>2. b \in DOMAIN PagesOf
    BY DEF Met
  <2> QED BY <2>1, <2>2, PagesAre DEF IsDocument
<1> DEFINE q == Adapted(d)
<1>4. /\ Len(q) \in Nat /\ q = [i \in 1..Len(q) |-> q[i]] /\ DOMAIN q = 1..Len(q)
      /\ \A i \in 1..Len(q) : IsChunk(q[i]) /\ SameSource(q[i], d)
  BY <1>2, <1>3, AdaptedIs DEF SameSource
<1> HIDE DEF q
<1>5. IsList(q)
  BY <1>4, MadeList
<1>6. Len(q) >= 1
  <2>1. q \in Seq(ToSet(q)) /\ q # <<>>
    BY <1>2, <1>5 DEF IsList, q
  <2> QED BY <2>1
<1>7. \A c \in ToSet(q) : IsChunk(c) /\ SameSource(c, d)
  BY <1>4 DEF ToSet
<1> QED BY <1>2, <1>3, <1>5, <1>6, <1>7 DEF q

(* A chunk of the plan is a chunk, of a document of the plan.               *)
LEMMA CutChunksAre ==
  ASSUME NEW docs, AreTaken(docs, corpus, torn), NEW q, AreCut(docs, q), NEW c \in ToSet(q)
  PROVE  IsChunk(c) /\ \E d \in ToSet(docs) : SameSource(c, d)
<1>1. PICK d \in ToSet(docs) : c \in ToSet(Adapted(d))
  BY DEF AreCut
<1> QED BY <1>1, TakenIs

(* The document that counts for a file.                                     *)
LEMMA DocumentOfIs ==
  ASSUME NEW docs, IsList(docs), NEW f, \E d \in ToSet(docs) : d.file = f
  PROVE  \E m \in 1..Len(docs) : LastOf(docs, f) = docs[m] /\ docs[m].file = f
<1> DEFINE N == Len(docs)
<1>1. N \in Nat /\ DOMAIN docs = 1..N /\ \A e \in ToSet(docs) : \E i \in 1..N : e = docs[i]
  BY ListIs
<1>2. \E i \in 1..N : docs[i].file = f
  BY <1>1
<1> HIDE DEF N
<1>3. \E i \in 1..N : docs[i].file = f /\ LastOf(docs, f) = docs[i]
  BY <1>1, <1>2, LastOfIs
<1> QED BY <1>3 DEF N

(* Two documents with the same bytes begin with the same chunk.             *)
LEMMA SameBytesAlike ==
  ASSUME NEW docs, AreTaken(docs, corpus, torn), torn = {},
         NEW d \in ToSet(docs), NEW e \in ToSet(docs), d.file = e.file, d.hash = e.hash
  PROVE  Alike(Adapted(d)[1], Adapted(e)[1])
<1>1. d.pages = e.pages
  <2>1. d.pages = PagesOf[d.hash] /\ e.pages = PagesOf[e.hash]
    BY DEF AreTaken, IsTaken
  <2> QED BY <2>1
<1>2. WindowOf(d, 1) = WindowOf(e, 1) /\ Indexed(d) = Indexed(e)
  BY <1>1 DEF WindowOf, Indexed
<1> DEFINE c == Adapted(d)[1]  b == Adapted(e)[1]  o == WindowOf(d, 1)
           z == WindowEnd(Len(Indexed(d)), WindowOf(d, 1))
<1>3. /\ 1 \in 1..Len(Adapted(d)) /\ IsDocument(d) /\ Adapted(d) # None /\ Adapted(d) # <<>>
      /\ 1 \in 1..Len(Adapted(e)) /\ IsDocument(e) /\ Adapted(e) # None /\ Adapted(e) # <<>>
  <2>1. /\ Len(Adapted(d)) \in Nat /\ Len(Adapted(e)) \in Nat
    BY TakenIs, ListIs
  <2> QED BY <2>1, TakenIs
<1>4. /\ StandsAt(d.pages, c, o, z)
      /\ c.id = [file |-> d.file, hash |-> d.hash, base |-> <<>>, cut |-> <<>>,
                 spans |-> c.spans, text |-> c.text]
  BY <1>3, AdaptedIs
<1>5. /\ StandsAt(e.pages, b, WindowOf(e, 1), WindowEnd(Len(Indexed(e)), WindowOf(e, 1)))
      /\ b.id = [file |-> e.file, hash |-> e.hash, base |-> <<>>, cut |-> <<>>,
                 spans |-> b.spans, text |-> b.text]
  BY <1>3, AdaptedIs
<1>6. StandsAt(d.pages, b, o, z)
  BY <1>1, <1>2, <1>5
<1>7. c.text = b.text /\ c.spans = b.spans
  BY <1>4, <1>6 DEF StandsAt
<1> QED BY <1>4, <1>5, <1>7 DEF Alike


(* What was indexed stands in a window, where windows overlap.              *)
LEMMA AdaptedHolds ==
  ASSUME Overlapping, NEW doc, IsDocument(doc), Adapted(doc) # None, Adapted(doc) # <<>>,
         NEW p \in Nat, p < Len(Indexed(doc))
  PROVE  \E i \in 1..Len(Adapted(doc)) :
           WindowOf(doc, i) <= p /\ p < WindowEnd(Len(Indexed(doc)), WindowOf(doc, i))
<1> DEFINE n == Len(Indexed(doc))
<1>1. n \in Nat
  <2>1. Joined(doc.pages) \in Text
    BY JoinedIs DEF IsDocument
  <2>2. Indexed(doc) \in Text
    BY <2>1, WithoutReferencesIs DEF Indexed
  <2> QED BY <2>2 DEF Text
<1>2. MinChunkLen < n
  BY AdaptedIs
<1>3. \A o \in Windows(n) : \E i \in 1..Len(Adapted(doc)) : WindowOf(doc, i) = o
  BY AdaptedIs
<1> HIDE DEF n
<1>4. PICK o \in Windows(n) : o <= p /\ p < WindowEnd(n, o)
  BY <1>1, <1>2, WindowsCover DEF n
<1>5. PICK i \in 1..Len(Adapted(doc)) : WindowOf(doc, i) = o
  BY <1>3
<1> QED BY <1>4, <1>5 DEF n

(* Wherever a chunk is located, it holds the same places of the pages.      *)
LEMMA SamePlaces ==
  ASSUME NEW pages \in Seq(Text), NEW c, IsChunk(c), NEW a \in Int, NEW b \in Int,
         StandsAt(pages, c, a, b), Locate(pages, c.text, c.spans) # None,
         NEW at, at = Locate(pages, c.text, c.spans),
         NEW k \in 1..Len(pages), NEW z \in 0..(Len(pages[k]) - 1),
         a <= PageStart(pages, k) + z, PageStart(pages, k) + z < b
  PROVE  at <= PageStart(pages, k) + z /\ PageStart(pages, k) + z < at + Len(c.text)
<1>1. /\ at \in Nat /\ Len(c.text) \in Nat /\ StandsAt(pages, c, at, at + Len(c.text))
  BY PlacedAt
<1> DEFINE s == c.spans  e == at + Len(c.text)
<1>2. s = Spans(pages, a, b) /\ s = Spans(pages, at, e) /\ e \in Int /\ at \in Int
  BY <1>1 DEF StandsAt
<1> HIDE DEF s, e
<1>3. \E n \in 1..Len(s) : OnSpan(s[n], k, z)
  BY <1>2, SpansHold
<1>4. at <= PageStart(pages, k) + z /\ PageStart(pages, k) + z < e
  BY <1>2, <1>3, SpansHold
<1> QED BY <1>4 DEF e

(* The pages of one file, with chunks, and those of another.                *)
ToldApart(pages, others) ==
  LET n == Len(WithoutReferences(Joined(pages)))
      SpansAt(o) == Spans(pages, o, WindowEnd(n, o))
  IN Windows(n) # {} =>
       \E o \in Windows(n) :
         \/ SpansAt(o) = <<>>
         \/ Locate(others, Slice(Joined(pages), o, WindowEnd(n, o)), SpansAt(o)) = None

(* Under Telling, the files that a library meets are told apart.             *)
LEMMA TellingOf ==
  ASSUME Telling, NEW library \in Corpora, NEW b \in Met(library), NEW c \in Met(library), b # c
  PROVE  ToldApart(PagesOf[b], PagesOf[c])
<1> QED BY DEF Telling, ToldApart

(* Files that are told apart are told apart by a chunk.                     *)
LEMMA ToldByChunk ==
  ASSUME NEW d, IsDocument(d), Adapted(d) # None, Adapted(d) # <<>>,
         NEW others, ToldApart(d.pages, others)
  PROVE  \E i \in DOMAIN Adapted(d) :
           Locate(others, Adapted(d)[i].text, Adapted(d)[i].spans) = None
<1> DEFINE n == Len(Indexed(d))  made == Adapted(d)
<1>1. /\ Len(made) \in Nat /\ DOMAIN made = 1..Len(made) /\ made # <<>>
      /\ made = [i \in 1..Len(made) |-> made[i]]
  BY AdaptedIs
<1>2. \A i \in 1..Len(made) :
        /\ made[i].spans # <<>> /\ WindowOf(d, i) \in Windows(n)
        /\ made[i].text = Slice(Joined(d.pages), WindowOf(d, i), WindowEnd(n, WindowOf(d, i)))
        /\ made[i].spans = Spans(d.pages, WindowOf(d, i), WindowEnd(n, WindowOf(d, i)))
  BY AdaptedIs DEF StandsAt
<1>3. \A o \in Windows(n) : \E i \in 1..Len(made) : WindowOf(d, i) = o
  BY AdaptedIs
<1>4. n = Len(WithoutReferences(Joined(d.pages)))
  BY DEF Indexed
<1> HIDE DEF n, made
<1>5. 1 \in 1..Len(made)
  BY <1>1, MadeList, EmptyList
<1>6. Windows(n) # {}
  BY <1>2, <1>5
<1>7. PICK o \in Windows(n) :
         \/ Spans(d.pages, o, WindowEnd(n, o)) = <<>>
         \/ Locate(others, Slice(Joined(d.pages), o, WindowEnd(n, o)),
                   Spans(d.pages, o, WindowEnd(n, o))) = None
  BY <1>4, <1>6 DEF ToldApart
<1>8. PICK i \in 1..Len(made) : WindowOf(d, i) = o
  BY <1>3
<1>9. Locate(others, made[i].text, made[i].spans) = None
  BY <1>2, <1>7, <1>8
<1> QED BY <1>1, <1>9 DEF made

(* What the units of one file are.                                          *)
SplitOfFile(r, f) ==
  /\ Len(r) \in Nat /\ DOMAIN r = 1..Len(r) /\ r = [p \in 1..Len(r) |-> r[p]]
  /\ \A p \in 1..Len(r) : IsPlaced(r[p], documents) /\ r[p].file = f
  /\ HeldFrom(LastOf(documents, f), f, r)
  /\ (/\ Telling /\ torn = {}
      /\ \E i, j \in DOMAIN documents : i # j /\ documents[i].file = f /\ documents[j].file = f)
     => \E p, s \in 1..Len(r) : p # s /\ r[p].id = r[s].id

(* The units that splitting one file returns are that.                      *)
LEMMA SplitOfFileIs ==
  ASSUME InHand, PlanMade, AreCut(documents, chunks), NEW way, NEW f \in Files,
         NEW cuts, cuts = [t \in {c.text : c \in ToSet(chunks)} |-> Cuts(way, t)],
         NEW r, r = SplitDocument(DocumentOf(f), ChunksOf(f), cuts), r # None
  PROVE  SplitOfFile(r, f)
<1> DEFINE doc == LastOf(documents, f)  q == ChunksOf(f)
<1>1. /\ corpus \in Corpora /\ IsList(documents) /\ AreTaken(documents, corpus, torn)
             /\ IsList(chunks)
  BY DEF InHand, PlanMade
<1>2. doc = DocumentOf(f)
  BY DEF DocumentOf
<1>3. PICK m \in 1..Len(documents) : doc = documents[m] /\ documents[m].file = f
  BY <1>1, DocumentOfIs DEF Files
<1>4. /\ Len(documents) \in Nat /\ DOMAIN documents = 1..Len(documents)
      /\ \A i \in 1..Len(documents) : documents[i] \in ToSet(documents)
  BY <1>1, ListIs
<1>5. doc \in ToSet(documents) /\ doc.file = f
  BY <1>3, <1>4
<1>6. PICK N \in Nat : Sieved(q, chunks, f, N)
  BY <1>1, ChunksOfIs
<1> HIDE DEF doc, q
<1>7. IsDocument(doc) /\ Adapted(doc) # None /\ Adapted(doc) # <<>>
  BY <1>1, <1>5, TakenIs
<1>8. DOMAIN q = 1..N /\ \A n \in 1..N : q[n] \in ToSet(chunks) /\ q[n].file = f
  BY <1>6 DEF Sieved
<1>9. ASSUME NEW n \in 1..N
      PROVE  /\ IsChunk(q[n]) /\ (cuts[q[n].text] = None \/ cuts[q[n].text] \in CutSet)
  <2>1. q[n] \in ToSet(chunks)
    BY <1>8
  <2>2. IsChunk(q[n])
    BY <1>1, <2>1, CutChunksAre
  <2>3. q[n].text \in Text
    BY <2>2 DEF IsChunk
  <2>4. cuts[q[n].text] = Cuts(way, q[n].text)
    BY <2>1
  <2> QED BY <2>2, <2>3, <2>4, CutsAre
<1>10. r = SplitDocument(doc, q, cuts)
  BY <1>2 DEF q
<1>11. SplitInto(doc, q, r)
  BY <1>7, <1>8, <1>9, <1>10, SplitDocumentIs
<1>12. \A n \in 1..N : Locate(doc.pages, q[n].text, q[n].spans) # None
  BY <1>8, <1>10 DEF SplitDocument, Splittable
<1>13. Len(r) \in Nat /\ DOMAIN r = 1..Len(r) /\ r = [p \in 1..Len(r) |-> r[p]]
  BY <1>11 DEF SplitInto
<1>14. ASSUME NEW p \in 1..Len(r) PROVE IsPlaced(r[p], documents) /\ r[p].file = f
  <2>1. /\ IsChunk(r[p]) /\ r[p].spans # <<>> /\ (\E i \in DOMAIN q : SameSource(r[p], q[i]))
        /\ \E a, b \in Nat : StandsAt(doc.pages, r[p], a, b)
    BY <1>11 DEF SplitInto
  <2>2. r[p].file = f
    BY <1>8, <2>1 DEF SameSource
  <2>3. \E d \in ToSet(documents) : SameSource(r[p], d)
    <3>1. PICK i \in 1..N : SameSource(r[p], q[i])
      BY <1>8, <2>1
    <3>2. PICK d \in ToSet(documents) : SameSource(q[i], d)
      BY <1>1, <1>8, CutChunksAre
    <3> QED BY <3>1, <3>2 DEF SameSource
  <2>4. LastOf(documents, r[p].file) = doc
    BY <2>2 DEF doc
  <2> QED BY <2>1, <2>2, <2>3, <2>4 DEF IsPlaced
<1>15. ASSUME Overlapping,
              NEW k \in 1..Len(doc.pages), NEW z \in 0..(Len(doc.pages[k]) - 1),
              PageStart(doc.pages, k) + z < Len(Indexed(doc))
       PROVE  \E c \in ToSet(r) : HasPlace(c, f, k, z)
  <2> DEFINE x == PageStart(doc.pages, k) + z  P == doc.pages
  <2>1. doc.pages \in Seq(Text)
    BY <1>7 DEF IsDocument
  <2>2. x \in Nat
    <3>1. \A i \in 1..(Len(P) + 1) : PageStart(P, i) \in Nat
      BY <2>1, PageStairs
    <3>2. Len(P) \in Nat
      BY <2>1
    <3> HIDE DEF P
    <3>3. k \in 1..(Len(P) + 1)
      BY <3>2 DEF P
    <3>4. PageStart(P, k) \in Nat /\ z \in Nat
      <4>1. PageStart(P, k) \in Nat
        BY <3>1, <3>3
      <4> QED BY <4>1
    <3> QED BY <3>4 DEF P
  <2>3. PICK i \in 1..Len(Adapted(doc)) :
          WindowOf(doc, i) <= x /\ x < WindowEnd(Len(Indexed(doc)), WindowOf(doc, i))
    BY <1>7, <1>15, <2>2, AdaptedHolds
  <2> DEFINE c == Adapted(doc)[i]
  <2>4. /\ c.file = doc.file /\ IsChunk(c)
        /\ WindowOf(doc, i) \in Windows(Len(Indexed(doc)))
        /\ StandsAt(doc.pages, c, WindowOf(doc, i), WindowEnd(Len(Indexed(doc)), WindowOf(doc, i)))
    BY <1>7, AdaptedIs
  <2>5. WindowOf(doc, i) \in Int /\ WindowEnd(Len(Indexed(doc)), WindowOf(doc, i)) \in Int
    <3>1. Joined(doc.pages) \in Text
      BY <2>1, JoinedIs
    <3>2. Indexed(doc) \in Text
      BY <3>1, WithoutReferencesIs DEF Indexed
    <3>3. Len(Indexed(doc)) \in Nat
      BY <3>2 DEF Text
    <3> QED BY <2>4, <3>3, WindowIs
  <2>6. c \in ToSet(chunks)
    <3>1. ToSet(Adapted(doc)) \subseteq ToSet(chunks)
      BY <1>5 DEF AreCut
    <3>2. c \in ToSet(Adapted(doc))
      BY <1>1, <1>5, TakenIs, ListIs
    <3> QED BY <3>1, <3>2
  <2> HIDE DEF c
  <2>7. PICK n \in 1..N : q[n] = c
    <3>1. PICK s \in 1..Len(chunks) : c = chunks[s]
      BY <1>1, <2>6, ListIs
    <3> QED BY <1>5, <1>6, <2>4, <3>1 DEF Sieved
  <2> DEFINE at == Locate(doc.pages, c.text, c.spans)
  <2>8. at <= x /\ x < at + Len(c.text)
    BY <1>12, <2>1, <2>3, <2>4, <2>5, <2>7, SamePlaces, SMTT(30)
  <2>9. Holding(r, k, z)
    <3>1. n \in DOMAIN q
      BY <1>8
    <3> QED BY <1>11, <2>7, <2>8, <3>1 DEF SplitInto
  <2>10. PICK p \in DOMAIN r : \E y \in 1..Len(r[p].spans) : OnSpan(r[p].spans[y], k, z)
    BY <2>9 DEF Holding
  <2>11. r[p] \in ToSet(r) /\ r[p].file = f
    BY <1>13, <1>14 DEF ToSet
  <2> QED BY <2>10, <2>11 DEF HasPlace
<1>16. ASSUME Telling, torn = {}, NEW i \in DOMAIN documents, NEW j \in DOMAIN documents, i # j,
              documents[i].file = f, documents[j].file = f
       PROVE  \E p, s \in 1..Len(r) : p # s /\ r[p].id = r[s].id
  <2>1. PICK l \in 1..Len(documents) : l # m /\ documents[l].file = f
    BY <1>4, <1>16
  <2> DEFINE d == documents[l]
  <2>2. d \in ToSet(documents) /\ d.file = f
    BY <1>4, <2>1
  <2>3. /\ d.hash \in Met(corpus) /\ doc.hash \in Met(corpus)
        /\ d.pages = PagesOf[d.hash] /\ doc.pages = PagesOf[doc.hash]
        /\ Adapted(d) # None /\ Adapted(d) # <<>>
    BY <1>1, <1>5, <1>16, <2>2 DEF AreTaken, IsTaken
  <2>4. ASSUME NEW c \in ToSet(Adapted(d)) PROVE \E n \in 1..N : q[n] = c
    <3>1. c \in ToSet(chunks)
      BY <2>2 DEF AreCut
    <3>2. c.file = f
      BY <1>1, <2>2, TakenIs DEF SameSource
    <3>3. PICK s \in 1..Len(chunks) : c = chunks[s]
      BY <1>1, <3>1, ListIs
    <3> QED BY <1>6, <3>2, <3>3 DEF Sieved
  <2>5. d.hash = doc.hash
    <3>1. SUFFICES ASSUME d.hash # doc.hash PROVE FALSE
      OBVIOUS
    <3>2. PICK n \in DOMAIN Adapted(d) :
            Locate(PagesOf[doc.hash], Adapted(d)[n].text, Adapted(d)[n].spans) = None
      <4>1. IsDocument(d)
        BY <2>3, PagesAre DEF IsDocument, Met
      <4>2. ToldApart(PagesOf[d.hash], PagesOf[doc.hash])
        <5>1. corpus \in Corpora
          BY DEF InHand
        <5>2. Telling
          BY <1>16
        <5> HIDE DEF d
        <5> QED BY <2>3, <3>1, <5>1, <5>2, TellingOf
      <4> HIDE DEF d
      <4> QED BY <2>3, <4>1, <4>2, ToldByChunk
    <3>3. Adapted(d)[n] \in ToSet(Adapted(d))
      BY DEF ToSet
    <3>4. PICK y \in 1..N : q[y] = Adapted(d)[n]
      BY <2>4, <3>3
    <3> QED BY <1>12, <2>3, <3>2, <3>4
  <2>6. Alike(Adapted(d)[1], Adapted(doc)[1])
    BY <1>1, <1>5, <1>16, <2>2, <2>5, SameBytesAlike
  <2>7. PICK first \in [DOMAIN documents -> DOMAIN chunks] :
          /\ \A x, y \in DOMAIN documents : first[x] = first[y] => x = y
          /\ \A x \in DOMAIN documents : chunks[first[x]] = Adapted(documents[x])[1]
    BY DEF AreCut
  <2> DEFINE a == first[l]  b == first[m]
  <2>8. /\ a \in DOMAIN chunks /\ b \in DOMAIN chunks /\ a # b
        /\ chunks[a] = Adapted(d)[1] /\ chunks[b] = Adapted(doc)[1]
    BY <1>3, <1>4, <2>1, <2>7
  <2> HIDE DEF a, b, d
  <2>9. chunks[a].file = f /\ chunks[b].file = f
    <3>1. Adapted(d)[1] \in ToSet(Adapted(d)) /\ Adapted(doc)[1] \in ToSet(Adapted(doc))
      <4>1. ASSUME NEW e \in ToSet(documents) PROVE Adapted(e)[1] \in ToSet(Adapted(e))
        <5>1. /\ Len(Adapted(e)) \in Nat /\ Len(Adapted(e)) >= 1
              /\ \A x \in 1..Len(Adapted(e)) : Adapted(e)[x] \in ToSet(Adapted(e))
          BY <1>1, TakenIs, ListIs
        <5> QED BY <5>1
      <4> QED BY <1>5, <2>2, <4>1
    <3> QED BY <1>1, <1>5, <2>2, <2>8, <3>1, TakenIs DEF SameSource
  <2>10. a \in 1..Len(chunks) /\ b \in 1..Len(chunks)
    BY <1>1, <2>8, ListIs
  <2>11. PICK n, y \in 1..N : n # y /\ q[n] = chunks[a] /\ q[y] = chunks[b]
    BY <1>6, <2>8, <2>9, <2>10 DEF Sieved
  <2>12. n \in DOMAIN q /\ y \in DOMAIN q /\ Alike(q[n], q[y])
    BY <1>8, <2>6, <2>8, <2>11
  <2> QED BY <1>11, <2>11, <2>12 DEF SplitInto
<1>17. HeldFrom(doc, f, r)
  BY <1>15 DEF HeldFrom
<1> QED BY <1>13, <1>14, <1>16, <1>17 DEF SplitOfFile, doc


(* The split plan: the chunks of every file, one file after the other.      *)
IsSplitPlan(r) ==
  /\ IsList(r) /\ AreSplit(documents, r)
  /\ Telling /\ torn = {} /\ Repeats(documents) => ~DistinctIn(r)

(* The units of every file, when the splitter works this way.               *)
SplitBy(way) ==
  [f \in Files |-> SplitDocument(DocumentOf(f), ChunksOf(f),
                     [t \in {c.text : c \in ToSet(chunks)} |-> Cuts(way, t)])]

(* The units of every file, one after the other, are the plan that was      *)
(* split.                                                                   *)
LEMMA SplitPlanIs ==
  ASSUME InHand, PlanMade, AreCut(documents, chunks), NEW way,
         NEW split, split = SplitBy(way),
         \A f \in Files : split[f] # None,
         NEW files, files = Ascending(Files),
         NEW r, r = FlattenSeq([k \in DOMAIN files |-> split[files[k]]])
  PROVE  IsSplitPlan(r)
<1> DEFINE N == Cardinality(Files)  seqs == [k \in DOMAIN files |-> split[files[k]]]
           R == UNION {ToSet(split[f]) : f \in Files}  V == Seq(R)
<1>1. IsList(documents) /\ AreTaken(documents, corpus, torn)
  BY DEF PlanMade
<1>2. /\ Len(documents) \in Nat /\ DOMAIN documents = 1..Len(documents)
      /\ (\A i \in 1..Len(documents) : documents[i] \in ToSet(documents))
      /\ \A d \in ToSet(documents) : \E i \in 1..Len(documents) : d = documents[i]
  BY <1>1, ListIs
<1>3. Files \in SUBSET Int /\ IsFiniteSet(Files)
  <2>1. Files \in SUBSET Int
    BY <1>1 DEF Files, AreTaken, IsTaken
  <2>2. IsFiniteSet(Files)
    <3> DEFINE g == [i \in 1..Len(documents) |-> documents[i].file]
    <3>1. g \in [1..Len(documents) -> Files]
      BY <1>2 DEF Files
    <3>2. \A f \in Files : \E i \in 1..Len(documents) : g[i] = f
      BY <1>2 DEF Files
    <3> HIDE DEF g
    <3> QED BY <1>2, <3>1, <3>2, CountTells
  <2> QED BY <2>1, <2>2
<1>4. /\ N \in Nat /\ files \in [1..N -> Files]
      /\ \A f \in Files : \E k \in 1..N : files[k] = f
  BY <1>3, AscendingEnumerates
<1>5. ASSUME NEW f \in Files PROVE SplitOfFile(split[f], f)
  <2> DEFINE cuts == [t \in {c.text : c \in ToSet(chunks)} |-> Cuts(way, t)]
  <2>1. split[f] = SplitDocument(DocumentOf(f), ChunksOf(f), cuts) /\ split[f] # None
    BY DEF SplitBy
  <2> HIDE DEF cuts
  <2>2. cuts = [t \in {c.text : c \in ToSet(chunks)} |-> Cuts(way, t)]
    BY DEF cuts
  <2> QED BY <2>1, <2>2, SplitOfFileIs
<1> HIDE DEF N
<1>6. ASSUME NEW f \in Files
      PROVE  /\ split[f] \in V /\ Len(split[f]) \in Nat /\ DOMAIN split[f] = 1..Len(split[f])
             /\ \A i \in 1..Len(split[f]) : split[f][i] \in R
  <2>1. Len(split[f]) \in Nat /\ DOMAIN split[f] = 1..Len(split[f])
        /\ split[f] = [p \in 1..Len(split[f]) |-> split[f][p]]
    BY <1>5 DEF SplitOfFile
  <2>2. ASSUME NEW p \in 1..Len(split[f]) PROVE split[f][p] \in R
    <3>1. split[f][p] \in ToSet(split[f])
      BY <2>1 DEF ToSet
    <3> QED BY <3>1
  <2> DEFINE s == split[f]
  <2>3. Len(s) \in Nat /\ s = [p \in 1..Len(s) |-> s[p]] /\ \A p \in 1..Len(s) : s[p] \in R
    BY <2>1, <2>2
  <2> HIDE DEF R, s
  <2>4. s \in Seq(R)
    BY <2>3
  <2> QED BY <2>1, <2>2, <2>4 DEF s
<1>7. ASSUME NEW c \in R PROVE \E f \in Files : \E i \in 1..Len(split[f]) : c = split[f][i]
  <2>1. PICK f \in Files : c \in ToSet(split[f])
    OBVIOUS
  <2>2. \E i \in DOMAIN split[f] : c = split[f][i]
    BY <2>1 DEF ToSet
  <2> QED BY <1>6, <2>2
<1> HIDE DEF R
<1>8. DOMAIN files = 1..N
  BY <1>4
<1>9. ASSUME NEW k \in 1..N PROVE seqs[k] = split[files[k]] /\ seqs[k] \in V /\ files[k] \in Files
  BY <1>4, <1>6, <1>8
<1>10. seqs = [k \in 1..N |-> seqs[k]]
  BY <1>8
<1>11. r = FlattenSeq(seqs)
  OBVIOUS
<1> HIDE DEF seqs, V
<1>12. seqs \in Seq(V) /\ Len(seqs) = N
  <2>1. \A k \in 1..N : seqs[k] \in V
    BY <1>9
  <2>2. N \in Nat
    BY <1>4
  <2> QED BY <1>10, <2>1, <2>2, MadeSeq
<1>13. PICK off : Flattens(r, seqs, off)
  BY <1>11, <1>12, FlattenIs DEF V
<1>14. r \in Seq(R)
  BY <1>11, <1>12, FlattenIs DEF V
<1>15. IsList(r)
  BY <1>14, InList
<1>16. /\ \A k \in 1..N : \A i \in 1..Len(seqs[k]) : off[k] + i \in 1..Len(r)
       /\ \A k \in 1..N : \A i \in 1..Len(seqs[k]) : r[off[k] + i] = seqs[k][i]
       /\ off \in [1..(N + 1) -> Nat]
  <2>1. \A k \in 1..Len(seqs) : \A i \in 1..Len(seqs[k]) : off[k] + i \in 1..Len(r)
    BY <1>12, <1>13, FlattenHas DEF V
  <2> QED BY <1>12, <1>13, <2>1 DEF Flattens
<1>17. ASSUME NEW c \in ToSet(r) PROVE IsPlaced(c, documents)
  <2>1. c \in R
    BY <1>14, InList
  <2>2. PICK f \in Files : \E i \in 1..Len(split[f]) : c = split[f][i]
    BY <1>7, <2>1
  <2> DEFINE s == split[f]
  <2>3. SplitOfFile(s, f) /\ \E i \in 1..Len(s) : c = s[i]
    BY <1>5, <2>2
  <2> HIDE DEF s
  <2> QED BY <2>3 DEF SplitOfFile
<1>18. ASSUME NEW f \in Files, NEW i \in 1..Len(split[f]) PROVE split[f][i] \in ToSet(r)
  <2>1. PICK k \in 1..N : files[k] = f
    BY <1>4
  <2>2. seqs[k] = split[f]
    BY <1>9, <2>1
  <2>3. off[k] + i \in 1..Len(r) /\ r[off[k] + i] = split[f][i]
    BY <1>16, <2>2
  <2>4. r[off[k] + i] \in ToSet(r)
    BY <1>15, <2>3, ListIs
  <2> QED BY <2>3, <2>4
<1>19. ASSUME NEW d \in ToSet(documents) PROVE HeldFrom(LastOf(documents, d.file), d.file, r)
  <2> DEFINE f == d.file  doc == LastOf(documents, f)
  <2>1. f \in Files
    BY DEF Files
  <2>2. HeldFrom(doc, f, split[f])
    BY <1>5, <2>1 DEF SplitOfFile
  <2>3. \A c \in ToSet(split[f]) : c \in ToSet(r)
    <3>1. ASSUME NEW c \in ToSet(split[f]) PROVE c \in ToSet(r)
      <4>1. PICK i \in DOMAIN split[f] : c = split[f][i]
        BY DEF ToSet
      <4>2. i \in 1..Len(split[f])
        BY <1>6, <2>1
      <4> QED BY <1>18, <2>1, <4>1, <4>2
    <3> QED BY <3>1
  <2> HIDE DEF f, doc
  <2>4. HeldFrom(doc, f, r)
    BY <2>2, <2>3 DEF HeldFrom
  <2> QED BY <2>4 DEF f, doc
<1>20. ASSUME Telling, torn = {}, Repeats(documents) PROVE ~DistinctIn(r)
  <2>1. PICK i, j \in DOMAIN documents : i # j /\ documents[i].file = documents[j].file
    BY <1>20 DEF Repeats
  <2> DEFINE f == documents[i].file  s == split[f]
  <2>2. f \in Files
    BY <1>2, <2>1 DEF Files
  <2>3. SplitOfFile(s, f)
    BY <1>5, <2>2
  <2>4. documents[i].file = f /\ documents[j].file = f
    BY <2>1
  <2> HIDE DEF f, s
  <2>5. PICK p, y \in 1..Len(s) : p # y /\ s[p].id = s[y].id
    BY <1>20, <2>1, <2>3, <2>4 DEF SplitOfFile
  <2>6. PICK k \in 1..N : files[k] = f
    BY <1>4, <2>2
  <2>7. seqs[k] = s
    BY <1>9, <2>6 DEF s
  <2> DEFINE a == off[k] + p  b == off[k] + y
  <2>8. /\ a \in 1..Len(r) /\ b \in 1..Len(r) /\ r[a] = s[p] /\ r[b] = s[y]
    BY <1>16, <2>7
  <2>9. a # b
    <3>1. off[k] \in Nat
      BY <1>4, <1>16
    <3> QED BY <2>5, <3>1
  <2> HIDE DEF a, b
  <2> QED BY <1>15, <2>5, <2>8, <2>9, RepeatedIds
<1> QED BY <1>15, <1>17, <1>19, <1>20 DEF AreSplit, IsSplitPlan

(* Only the count of a record changes.                                      *)
SameButCount(r, q) ==
  /\ IsList(r) /\ DOMAIN r = DOMAIN q
  /\ \A i \in DOMAIN r : r[i].file = q[i].file
  /\ \A s : (\E e \in ToSet(q) : e.note = s.note /\ e.index = s.index)
            => \E e \in ToSet(r) : e.note = s.note /\ e.index = s.index

(* Counting the units again changes the counts of the inventory and nothing *)
(* else.                                                                    *)
LEMMA Recounted ==
  ASSUME IsList(inventory), AreRecords(inventory, corpus, torn), NEW count,
         NEW r, r = [i \in DOMAIN inventory |-> [inventory[i] EXCEPT !.count = count[i]]]
  PROVE  AreRecords(r, corpus, torn) /\ SameButCount(r, inventory)
<1> DEFINE N == Len(inventory)
<1>1. /\ N \in Nat /\ DOMAIN inventory = 1..N
      /\ (\A i \in 1..N : inventory[i] \in ToSet(inventory))
      /\ \A e \in ToSet(inventory) : \E i \in 1..N : e = inventory[i]
  BY ListIs
<1> HIDE DEF N
<1>2. IsList(r) /\ DOMAIN r = 1..N
  <2>1. r = [i \in 1..N |-> r[i]]
    BY <1>1
  <2> QED BY <1>1, <2>1, MadeList
<1>3. ASSUME NEW i \in 1..N
      PROVE  /\ r[i].note = inventory[i].note /\ r[i].index = inventory[i].index
             /\ r[i].file = inventory[i].file
             /\ \E s \in Named(corpus) : IsRecord(r[i], s, corpus, torn)
  <2> DEFINE e == inventory[i]  f == r[i]
  <2>1. PICK s \in Named(corpus) : IsRecord(e, s, corpus, torn)
    BY <1>1 DEF AreRecords
  <2>2. f = [e EXCEPT !.count = count[i]]
    BY <1>1
  <2> HIDE DEF e, f
  <2>3. e = [note |-> e.note, index |-> e.index, status |-> e.status, error |-> e.error,
             main |-> e.main, paper |-> e.paper, file |-> e.file, hash |-> e.hash,
             pages |-> e.pages, count |-> e.count, warnings |-> e.warnings]
    BY <2>1 DEF IsRecord
  <2>4. f = [note |-> e.note, index |-> e.index, status |-> e.status, error |-> e.error,
             main |-> e.main, paper |-> e.paper, file |-> e.file, hash |-> e.hash,
             pages |-> e.pages, count |-> count[i], warnings |-> e.warnings]
    BY <2>2, <2>3
  <2>5. /\ f.note = e.note /\ f.index = e.index /\ f.status = e.status /\ f.error = e.error
        /\ f.main = e.main /\ f.paper = e.paper /\ f.file = e.file /\ f.hash = e.hash
        /\ f.pages = e.pages /\ f.count = count[i] /\ f.warnings = e.warnings
    BY <2>4
  <2>6. f = [note |-> f.note, index |-> f.index, status |-> f.status, error |-> f.error,
             main |-> f.main, paper |-> f.paper, file |-> f.file, hash |-> f.hash,
             pages |-> f.pages, count |-> f.count, warnings |-> f.warnings]
    BY <2>4, <2>5
  <2>7. IsRecord(f, s, corpus, torn)
    BY <2>1, <2>5, <2>6 DEF IsRecord
  <2> QED BY <2>5, <2>7 DEF e, f
<1>4. AreRecords(r, corpus, torn)
  <2>1. ASSUME NEW e \in ToSet(r) PROVE \E s \in Named(corpus) : IsRecord(e, s, corpus, torn)
    <3>1. PICK i \in DOMAIN r : e = r[i]
      BY DEF ToSet
    <3>2. \E s \in Named(corpus) : IsRecord(r[i], s, corpus, torn)
      BY <1>2, <1>3
    <3> QED BY <3>1, <3>2, Zenon
  <2> QED BY <2>1, Zenon DEF AreRecords
<1>5. ASSUME NEW s, NEW e \in ToSet(inventory), e.note = s.note, e.index = s.index
      PROVE  \E x \in ToSet(r) : x.note = s.note /\ x.index = s.index
  <2>1. PICK i \in 1..N : e = inventory[i]
    BY <1>1
  <2>2. r[i] \in ToSet(r)
    BY <1>2 DEF ToSet
  <2> QED BY <1>3, <1>5, <2>1, <2>2
<1>6. SameButCount(r, inventory)
  BY <1>1, <1>2, <1>3, <1>5 DEF SameButCount
<1> QED BY <1>4, <1>6

(* Splitting the chunks keeps the invariant.                                *)
LEMMA SplitChunksKeeps ==
  ASSUME IngestInv, SplitChunks
  PROVE  IngestInv'
<1>1. /\ pc = "split" /\ ~(pc \in Reading) /\ InHand /\ PlanMade /\ AreCut(documents, chunks)
      /\ (Repeats(inventory) => Repeats(documents))
      /\ IsList(inventory) /\ AreRecords(inventory, corpus, torn)
  BY DEF SplitChunks, IngestInv, Unsplit, Split, Reading, PlanMade
<1>2. CASE Stop
  BY <1>1, <1>2, StopKeeps
<1>3. CASE ~Stop
  <2>1. PICK way \in corpus.splitters :
          LET split == [f \in Files |->
                          SplitDocument(DocumentOf(f), ChunksOf(f),
                            [t \in {c.text : c \in ToSet(chunks)} |-> Cuts(way, t)])]
              files == Ascending(Files)
          IN /\ \A f \in Files : split[f] # None
             /\ chunks' = FlattenSeq([k \in DOMAIN files |-> split[files[k]]])
             /\ inventory' = [i \in DOMAIN inventory |->
                  [inventory[i] EXCEPT !.count = Len(split[inventory[i].file])]]
             /\ pc' = "validate"
             /\ UNCHANGED <<corpus, disk, todo, hash, documents, torn>>
    BY <1>3 DEF SplitChunks, Goto
  <2> DEFINE split == [f \in Files |->
                          SplitDocument(DocumentOf(f), ChunksOf(f),
                            [t \in {c.text : c \in ToSet(chunks)} |-> Cuts(way, t)])]
             files == Ascending(Files)
             count == [i \in DOMAIN inventory |-> Len(split[inventory[i].file])]
  <2>2. /\ \A f \in Files : split[f] # None
        /\ chunks' = FlattenSeq([k \in DOMAIN files |-> split[files[k]]])
        /\ pc' = "validate"
        /\ UNCHANGED <<corpus, disk, todo, hash, documents, torn>>
    BY <2>1
  <2>3. inventory' = [i \in DOMAIN inventory |-> [inventory[i] EXCEPT !.count = count[i]]]
    BY <2>1
  <2> HIDE DEF count
  <2>4. /\ IsList(inventory') /\ AreRecords(inventory', corpus, torn)
        /\ DOMAIN inventory' = DOMAIN inventory
        /\ \A i \in DOMAIN inventory' : inventory'[i].file = inventory[i].file
        /\ \A s : (\E e \in ToSet(inventory) : e.note = s.note /\ e.index = s.index)
                   => \E e \in ToSet(inventory') : e.note = s.note /\ e.index = s.index
    <3>1. AreRecords(inventory', corpus, torn) /\ SameButCount(inventory', inventory)
      BY <1>1, <2>3, Recounted
    <3> QED BY <3>1 DEF SameButCount
  <2>5. /\ IsList(chunks') /\ AreSplit(documents, chunks')
        /\ (Telling /\ torn = {} /\ Repeats(documents) => ~DistinctIn(chunks'))
    <3>1. split = SplitBy(way)
      BY DEF SplitBy
    <3> HIDE DEF split
    <3>2. files = Ascending(Files)
      OBVIOUS
    <3> HIDE DEF files
    <3> DEFINE plan == FlattenSeq([k \in DOMAIN files |-> split[files[k]]])
    <3>3. plan = FlattenSeq([k \in DOMAIN files |-> split[files[k]]]) /\ chunks' = plan
      BY <2>2
    <3> HIDE DEF plan
    <3>4. IsSplitPlan(plan)
      BY <1>1, <2>2, <3>1, <3>2, <3>3, SplitPlanIs, Zenon
    <3> QED BY <3>3, <3>4 DEF IsSplitPlan
  <2> HIDE DEF split, files
  <2>6. InHand'
    <3>1. Handled(corpus', todo', inventory')
      <4>1. Handled(corpus, todo, inventory)
        BY <1>1 DEF InHand
      <4> QED BY <2>2, <2>4, <4>1 DEF Handled
    <3> QED BY <1>1, <2>2, <3>1 DEF InHand, Reading
  <2>7. PlanMade'
    BY <1>1, <2>2, <2>4, <2>5 DEF PlanMade
  <2>8. Repeats(inventory') => Repeats(documents')
    BY <1>1, <2>2, <2>4 DEF Repeats
  <2>9. AreSplit(documents', chunks')
        /\ (Telling' /\ torn' = {} /\ Repeats(documents') => ~DistinctIn(chunks'))
    BY <2>2, <2>5 DEF Telling
  <2> QED BY <2>2, <2>6, <2>7, <2>8, <2>9 DEF IngestInv, Unsplit, Split, Reading
<1> QED BY <1>2, <1>3

(***************************************************************************)
(* What the invariant says of a published corpus                           *)
(***************************************************************************)

(* Every step of the build, and every file replaced during it, keeps the    *)
(* inductive invariant.                                                     *)
LEMMA NextKeeps ==
  ASSUME IngestInv, [Next]_ingest
  PROVE  IngestInv'
<1>1. CASE Build
  BY <1>1, DiscoverKeeps, IdentifyKeeps, HashSourceKeeps, CompareOriginalKeeps, RehashKeeps,
     ExtractKeeps, CheckPublishableKeeps, SplitChunksKeeps, ValidateKeeps, WriteBatchKeeps,
     CheckCollectionKeeps, Zenon DEF Build
<1>2. CASE \E path \in corpus.changing, bytes \in corpus.bytes : Change(path, bytes)
  <2>1. PICK path \in corpus.changing, bytes \in corpus.bytes : Change(path, bytes)
    BY <1>2
  <2> QED BY <2>1, ChangeKeeps, Zenon
<1>3. CASE UNCHANGED ingest
  <2>1. UNCHANGED <<corpus, disk, pc, todo, hash, inventory, documents, chunks, collection, torn>>
    BY <1>3 DEF ingest
  <2> QED BY <2>1, UnseenKeeps
<1> QED BY <1>1, <1>2, <1>3 DEF Next

(* The inductive invariant holds in every state of the build.               *)
THEOREM IngestInvariant ==
  Spec => []IngestInv
<1>1. Init => IngestInv
  BY InitGood
<1>2. IngestInv /\ [Next]_ingest => IngestInv'
  BY NextKeeps
<1> QED BY <1>1, <1>2, PTL DEF Spec

(* What is published tells the truth about the files.                       *)
LEMMA RecordsAreTrue ==
  ASSUME IngestInv, pc = "published"
  PROVE  RecordsTrue
<1> DEFINE declared == Named(corpus)
           records == ToSet(inventory)
<1>1. /\ InHand /\ AreRecords(inventory, corpus, torn) /\ Publishable
  BY DEF IngestInv, PlanMade, Split, Valid
<1>2. /\ IsLibrary(corpus) /\ declared \subseteq Sources(corpus.notes)
  <2>1. IsLibrary(corpus)
    BY <1>1, CorporaAreLibraries DEF InHand
  <2> QED BY <2>1, DiscoverIs DEF Named
<1>3. \A s \in declared : \E r \in records : r.note = s.note /\ r.index = s.index
  <2>1. todo = <<>> /\ Handled(corpus, todo, inventory)
    BY <1>1 DEF InHand, Reading
  <2>2. ToSet(todo) = {}
    BY <2>1, EmptyList
  <2> QED BY <2>1, <2>2 DEF Handled
<1>4. \A r \in records : \E s \in declared : IsRecord(r, s, corpus, torn)
  BY <1>1 DEF AreRecords
<1>5. \A r \in records : r.status = "success"
  BY <1>1 DEF Publishable
<1>6. {<<s.note, s.index>> : s \in declared} = {<<r.note, r.index>> : r \in records}
  <2>1. \A r \in records : \E s \in declared : r.note = s.note /\ r.index = s.index
    BY <1>4 DEF IsRecord
  <2> HIDE DEF declared, records
  <2> QED BY <2>1, <1>3
<1>7. \A r \in records : r.note \in torn \/ r.pages = PagesOf[r.hash]
  BY <1>4, <1>5 DEF IsRecord
<1>8. \A s \in declared : \E r \in records : r.note = s.note /\ r.index = 0
  <2> TAKE s \in declared
  <2>1. PICK r \in records : r.note = s.note
    BY <1>3
  <2>2. r.note \in {m.note : m \in {m \in records : m.index = 0 /\ m.main}}
    BY <1>1 DEF Publishable
  <2> QED BY <2>1, <2>2
<1>9. ASSUME NEW s \in declared, NEW r \in records, r.note = s.note, r.index = s.index
      PROVE  s.parent \in {None, r.paper} /\ s.attachment \in {None, r.file}
  <2>1. PICK t \in declared : IsRecord(r, t, corpus, torn)
    BY <1>4
  <2>2. s \in Sources(corpus.notes) /\ t \in Sources(corpus.notes)
    BY <1>2
  <2>3. t.note = s.note /\ t.index = s.index
    BY <1>9, <2>1 DEF IsRecord
  <2>4. t = s
    BY <1>2, <2>2, <2>3, SourceIs, Zenon
  <2> DEFINE id == Resolve(s, corpus.db, corpus.base)
  <2>5. id # None /\ r.paper = id.parent /\ r.file = id.attachment
    BY <1>5, <2>1, <2>4 DEF IsRecord
  <2>6. id = Resolve(s, corpus.db, corpus.base)
    OBVIOUS
  <2> HIDE DEF id
  <2>7. s.parent \in {None, id.parent} /\ s.attachment \in {None, id.attachment}
    BY <1>2, <2>2, <2>5, <2>6, ResolveIs
  <2> QED BY <2>5, <2>7
<1>10. declared = ToSet(Discover(corpus.notes))
  BY DEF Named
<1> HIDE DEF declared
<1> QED BY <1>5, <1>6, <1>7, <1>8, <1>9, <1>10 DEF RecordsTrue

(* A published corpus is whole, from the invariant.                         *)
LEMMA WholeHolds ==
  ASSUME Telling, IngestInv
  PROVE  PublishedWhole
<1> SUFFICES ASSUME pc = "published"
             PROVE  /\ RecordsTrue
                    /\ torn = {} =>
                         Cardinality({r.file : r \in ToSet(inventory)}) = Len(inventory)
  BY DEF PublishedWhole
<1>1. RecordsTrue
  BY RecordsAreTrue
<1>2. ASSUME torn = {}
      PROVE  Cardinality({r.file : r \in ToSet(inventory)}) = Len(inventory)
  <2>1. DistinctIn(chunks)
    BY DEF IngestInv, Split, Valid, DistinctIds, DistinctIn
  <2>2. ~Repeats(inventory)
    BY <1>2, <2>1 DEF IngestInv, Split
  <2> QED BY <2>2, NoneTwice DEF IngestInv, PlanMade
<1> QED BY <1>1, <1>2

(* In every library, whatever its files hold, what is published tells the   *)
(* truth about them.                                                        *)
THEOREM PublishedIsTrue ==
  Spec => [](pc = "published" => RecordsTrue)
<1>1. IngestInv => (pc = "published" => RecordsTrue)
  BY RecordsAreTrue
<1> QED BY <1>1, IngestInvariant, PTL

(* And where two different files of a library are told apart by a chunk,    *)
(* what is published is whole.                                              *)
THEOREM PublishedIsWhole ==
  ASSUME Telling
  PROVE  Spec => []PublishedWhole
<1>1. IngestInv => PublishedWhole
  BY WholeHolds
<1> QED BY <1>1, IngestInvariant, PTL


(* The chunks of the checked plan stand on the pages their spans name.      *)
LEMMA PlacedSpans ==
  ASSUME IngestInv, AreSplit(documents, chunks), NEW c \in ToSet(chunks)
  PROVE  /\ c.spans \in Seq(SpanSet)
         /\ \A n \in 1..Len(c.spans) :
              /\ NonEmpty(c.spans[n])
              /\ c.spans[n].page \in 1..Len(LastOf(documents, c.file).pages)
              /\ c.spans[n].hash = LastOf(documents, c.file).pages[c.spans[n].page]
<1>1. IsPlaced(c, documents)
  BY DEF AreSplit
<1> DEFINE doc == LastOf(documents, c.file)
           pages == doc.pages
<1>2. doc \in ToSet(documents)
  <2>1. PICK m \in 1..Len(documents) : doc = documents[m]
    BY <1>1, DocumentOfIs DEF IngestInv, PlanMade, IsPlaced, SameSource
  <2> QED BY <2>1, ListIs DEF IngestInv, PlanMade
<1>3. pages \in Seq(Text)
  BY <1>2, TakenIs DEF IngestInv, PlanMade, IsDocument
<1>4. PICK a \in Nat, b \in Nat : c.spans = Spans(pages, a, b)
  BY <1>1 DEF IsPlaced, StandsAt
<1>5. c.spans \in Seq(SpanSet)
  BY <1>1 DEF IsPlaced, IsChunk
<1> HIDE DEF pages
<1>6. ASSUME NEW n \in 1..Len(c.spans)
      PROVE  /\ NonEmpty(c.spans[n]) /\ c.spans[n].page \in 1..Len(pages)
             /\ c.spans[n].hash = pages[c.spans[n].page]
  <2>1. /\ c.spans[n].page \in 1..Len(pages) /\ NonEmpty(c.spans[n])
        /\ c.spans[n] = Overlap(pages, c.spans[n].page, a, b)
    <3>1. n \in 1..Len(Spans(pages, a, b)) /\ c.spans[n] = Spans(pages, a, b)[n]
      BY <1>4
    <3> QED BY <1>3, <3>1, SpanIs
  <2> DEFINE p == c.spans[n].page
  <2>2. p \in 1..Len(pages) /\ c.spans[n] = Overlap(pages, p, a, b)
    BY <2>1
  <2> HIDE DEF p
  <2>3. Overlap(pages, p, a, b).hash = pages[p]
    BY DEF Overlap, SpanOnPage
  <2>4. c.spans[n].hash = pages[p] /\ p = c.spans[n].page
    <3>1. c.spans[n].hash = pages[p]
      BY <2>2, <2>3
    <3> QED BY <3>1 DEF p
  <2>5. c.spans[n].hash = pages[c.spans[n].page]
    BY <2>4, Zenon
  <2> QED BY <2>1, <2>5
<1> QED BY <1>5, <1>6 DEF pages

(* All text of a published corpus is mapped where windows overlap, from the *)
(* invariant.                                                              *)
LEMMA MappedHolds ==
  ASSUME IngestInv, Overlapping
  PROVE  AllTextMapped
<1> SUFFICES ASSUME pc = "published", NEW f \in Files,
                    NEW doc, doc = DocumentOf(f),
                    NEW n, n = Len(WithoutReferences(Joined(doc.pages))),
                    NEW k \in DOMAIN doc.pages,
                    NEW from \in 0..Len(doc.pages[k]),
                    NEW to \in (from + 1)..Len(doc.pages[k]),
                    PageStart(doc.pages, k) + to <= n
             PROVE  MapEvidence(ToSet(collection), f,
                      [page |-> k, from |-> from, to |-> to, hash |-> doc.pages[k]])
                      = {c \in ToSet(collection) : c.file = f /\ Touches(c, k, from, to)}
  BY DEF AllTextMapped
<1> DEFINE held == ToSet(chunks)
<1>1. /\ ToSet(collection) = held /\ AreSplit(documents, chunks)
      /\ IsList(chunks) /\ IsList(documents) /\ AreTaken(documents, corpus, torn)
  BY DEF IngestInv, PlanMade, Split
<1>2. PICK d \in ToSet(documents) : d.file = f
  BY DEF Files
<1>3. doc \in ToSet(documents) /\ doc.file = f /\ doc = LastOf(documents, f)
  <2>1. PICK m \in 1..Len(documents) : LastOf(documents, f) = documents[m] /\ documents[m].file = f
    BY <1>1, <1>2, DocumentOfIs
  <2> QED BY <1>1, <2>1, ListIs DEF DocumentOf
<1>4. doc.pages \in Seq(Text)
  BY <1>1, <1>3, TakenIs DEF IsDocument
<1>5. k \in 1..Len(doc.pages) /\ k \in Nat /\ doc.pages[k] \in Text /\ from \in Nat /\ to \in Nat
          /\ from < to
      /\ to <= Len(doc.pages[k])
  <2>1. DOMAIN doc.pages = 1..Len(doc.pages) /\ Len(doc.pages) \in Nat /\ doc.pages[k] \in Text
    BY <1>4
  <2>2. Len(doc.pages[k]) \in Nat
    BY <2>1 DEF Text
  <2> QED BY <2>1, <2>2
<1>6. IsFiniteSet(held)
  <2>1. /\ Len(chunks) \in Nat /\ chunks \in [1..Len(chunks) -> held]
        /\ \A t \in held : \E i \in 1..Len(chunks) : chunks[i] = t
    <3>1. /\ Len(chunks) \in Nat /\ chunks = [i \in 1..Len(chunks) |-> chunks[i]]
          /\ \A i \in 1..Len(chunks) : chunks[i] \in held
          /\ \A e \in held : \E i \in 1..Len(chunks) : e = chunks[i]
      BY <1>1, ListIs
    <3> HIDE DEF held
    <3> QED BY <3>1
  <2> HIDE DEF held
  <2> QED BY <2>1, CountTells
<1>7. ASSUME NEW c \in held
      PROVE  /\ c.spans \in Seq(SpanSet)
             /\ \A m \in 1..Len(c.spans) : NonEmpty(c.spans[m])
             /\ c.file = f => \A m \in 1..Len(c.spans) :
                  c.spans[m].page = k => c.spans[m].hash = doc.pages[k]
  BY <1>1, <1>3, PlacedSpans
<1>8. ASSUME NEW x \in from..(to - 1)
      PROVE  \E c \in held : c.file = f /\ \E m \in 1..Len(c.spans) : OnSpan(c.spans[m], k, x)
  <2>1. HeldFrom(doc, f, chunks)
    BY <1>1, <1>2, <1>3 DEF AreSplit
  <2>2. PageStart(doc.pages, k) \in Nat /\ Len(Indexed(doc)) = n
    <3>1. Len(doc.pages) \in Nat
      BY <1>4
    <3> QED BY <1>4, <1>5, <3>1, PageStairs DEF Indexed
  <2>3. n \in Nat
    BY <1>4, JoinedIs, WithoutReferencesIs DEF Text
  <2>4. Len(doc.pages[k]) \in Nat
    BY <1>5 DEF Text
  <2>5. x \in 0..(Len(doc.pages[k]) - 1) /\ PageStart(doc.pages, k) + x < n
    BY <1>5, <2>2, <2>3, <2>4
  <2> QED BY <1>5, <2>1, <2>2, <2>5 DEF HeldFrom, HasPlace
<1> HIDE DEF held
<1> DEFINE text == doc.pages[k]
<1>9. text = doc.pages[k] /\ text \in Text
  BY <1>5
<1> HIDE DEF text
<1>10. EvidenceIs(held, f, k, text, from, to)
  <2>1. /\ \A c \in held : c.spans \in Seq(SpanSet)
        /\ \A c \in held : \A m \in 1..Len(c.spans) : NonEmpty(c.spans[m])
    BY <1>7
  <2>2. \A c \in held : c.file = f =>
          \A m \in 1..Len(c.spans) : c.spans[m].page = k => c.spans[m].hash = text
    BY <1>7, <1>9
  <2>3. \A x \in from..(to - 1) : \E c \in held :
          c.file = f /\ \E m \in 1..Len(c.spans) : OnSpan(c.spans[m], k, x)
    BY <1>8
  <2>4. k \in Nat /\ from \in Nat /\ to \in Nat /\ from < to
    BY <1>5
  <2> QED BY <1>6, <1>9, <2>1, <2>2, <2>3, <2>4, EvidenceMapped, Zenon
<1> QED BY <1>1, <1>9, <1>10 DEF EvidenceIs

(* Where windows overlap as they do with the default sizes, every text      *)
(* before the reference list is found again in the published collection,    *)
(* by the chunks that hold a part of it and by no other.                    *)
THEOREM TextIsMapped ==
  ASSUME Overlapping
  PROVE  Spec => []AllTextMapped
<1>1. IngestInv => AllTextMapped
  BY MappedHolds
<1> QED BY <1>1, IngestInvariant, PTL

=============================================================================
