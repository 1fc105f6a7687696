-------------------------- MODULE RetrievalProofs --------------------------
(***************************************************************************)
(* Theorems about Retrieval: a keyword index that anybody relies on is     *)
(* whole, what a search returns is of the generation the server pinned,    *)
(* and who asks for fewer results gets the beginning of what others get.   *)
(* First what the operators on sequences return, then what a ranking, the  *)
(* fusion and the reranker return, then the inductive invariant, one       *)
(* conjunct at a time.                                                     *)
(***************************************************************************)
EXTENDS Retrieval, FiniteSetTheorems, SequenceTheorems, TLAPS

-----------------------------------------------------------------------------
(* Orders of the elements of a finite set of numbers.                      *)

(* SubSeq from the first to the last element is the sequence.              *)
LEMMA OnceIsIt ==
  ASSUME NEW T, NEW q \in Seq(T)
  PROVE  Once(q) = q
BY SubSeqFull DEF Once

(* Some places of a sequence are a finite set of numbers.                  *)
LEMMA PlacesAreFinite ==
  ASSUME NEW T, NEW q \in Seq(T), NEW places \in SUBSET (DOMAIN q)
  PROVE  places \in SUBSET Nat /\ IsFiniteSet(places)
<1>1. DOMAIN q = 1..Len(q) /\ Len(q) \in Nat
  OBVIOUS
<1>2. IsFiniteSet(DOMAIN q)
  BY <1>1, FS_Interval
<1>3. IsFiniteSet(places)
  BY <1>2, FS_Subset
<1> QED BY <1>1, <1>3

(* A strict total order, given by what comes before each element.          *)
IsOrder(S, ahead) ==
  /\ ahead \in [S -> SUBSET S]
  /\ \A s \in S : s \notin ahead[s]
  /\ \A s, t \in S : t \in ahead[s] => ahead[t] \subseteq ahead[s]
  /\ \A s, t \in S : s # t => s \in ahead[t] \/ t \in ahead[s]

(* Whoever has the same number of elements before it is the same element.  *)
LEMMA RankOfOne ==
  ASSUME NEW S \in SUBSET Nat, IsFiniteSet(S), NEW ahead, IsOrder(S, ahead)
  PROVE  /\ \A s \in S : Cardinality(ahead[s]) \in 0..(Cardinality(S) - 1)
         /\ \A s, t \in S : t \in ahead[s] => Cardinality(ahead[t]) < Cardinality(ahead[s])
         /\ \A s, t \in S : Cardinality(ahead[s]) = Cardinality(ahead[t]) => s = t
<1>1. \A s \in S : ahead[s] \in SUBSET S /\ IsFiniteSet(ahead[s]) /\ Cardinality(ahead[s]) \in Nat
  BY FS_Subset, FS_CardinalityType DEF IsOrder
<1>2. ASSUME NEW A, NEW B, IsFiniteSet(A), B \subseteq A, A # B
      PROVE  Cardinality(B) < Cardinality(A)
  BY <1>2, FS_Subset, FS_CardinalityType
<1>3. \A s \in S : Cardinality(ahead[s]) \in 0..(Cardinality(S) - 1)
  <2> SUFFICES ASSUME NEW s \in S PROVE Cardinality(ahead[s]) \in 0..(Cardinality(S) - 1)
    OBVIOUS
  <2>1. Cardinality(ahead[s]) < Cardinality(S)
    BY <1>1, <1>2 DEF IsOrder
  <2> QED BY <2>1, <1>1, FS_CardinalityType
<1>4. \A s, t \in S : t \in ahead[s] => Cardinality(ahead[t]) < Cardinality(ahead[s])
  <2> SUFFICES ASSUME NEW s \in S, NEW t \in S, t \in ahead[s]
               PROVE  Cardinality(ahead[t]) < Cardinality(ahead[s])
    OBVIOUS
  <2>1. ahead[t] \subseteq ahead[s] /\ ahead[t] # ahead[s]
    BY DEF IsOrder
  <2> QED BY <2>1, <1>1, <1>2
<1>5. \A s, t \in S : Cardinality(ahead[s]) = Cardinality(ahead[t]) => s = t
  <2> SUFFICES ASSUME NEW s \in S, NEW t \in S, s # t
               PROVE  Cardinality(ahead[s]) # Cardinality(ahead[t])
    OBVIOUS
  <2>1. Cardinality(ahead[s]) \in Nat /\ Cardinality(ahead[t]) \in Nat
    BY <1>1
  <2>2. CASE s \in ahead[t] BY <2>1, <2>2, <1>4
  <2>3. CASE t \in ahead[s] BY <2>1, <2>3, <1>4
  <2> QED BY <2>2, <2>3 DEF IsOrder
<1> QED BY <1>3, <1>4, <1>5

(* What Ordered returns: every element once, each at the place that is     *)
(* given by the number of those before it.                                 *)
LEMMA OrderedIsSorted ==
  ASSUME NEW S \in SUBSET Nat, IsFiniteSet(S), NEW ahead, IsOrder(S, ahead)
  PROVE  LET o == Ordered[S][ahead] IN
         /\ o \in Seq(S) /\ Len(o) = Cardinality(S) /\ Cardinality(S) \in Nat
         /\ \A k \in 1..Cardinality(S) : o[k] \in S /\ Cardinality(ahead[o[k]]) = k - 1
         /\ \A s \in S : \E k \in 1..Cardinality(S) : o[k] = s
         /\ \A j, k \in 1..Cardinality(S) : o[j] = o[k] => j = k
<1> DEFINE N == Cardinality(S)
           f == [k \in 1..N |-> CHOOSE s \in S : Cardinality(ahead[s]) = k - 1]
           rank == [s \in S |-> Cardinality(ahead[s]) + 1]
<1>1. N \in Nat
  BY FS_CardinalityType
<1>2. rank \in Injection(S, 1..N)
  <2>1. \A s \in S : Cardinality(ahead[s]) \in 0..(N - 1)
    BY RankOfOne
  <2>3. \A s \in S : Cardinality(ahead[s]) \in Int
    <3> HIDE DEF rank, f, N
    <3> QED BY <1>1, <2>1
  <2>2. \A s, t \in S : rank[s] = rank[t] => s = t
    <3> SUFFICES ASSUME NEW s \in S, NEW t \in S, rank[s] = rank[t] PROVE s = t
      OBVIOUS
    <3>1. Cardinality(ahead[s]) \in Int /\ Cardinality(ahead[t]) \in Int
      BY <2>3
    <3>2. Cardinality(ahead[s]) + 1 = Cardinality(ahead[t]) + 1
      OBVIOUS
    <3>3. Cardinality(ahead[s]) = Cardinality(ahead[t])
      BY <3>1, <3>2
    <3> QED BY <3>3, RankOfOne
  <2> QED BY <1>1, <2>1, <2>2 DEF Injection, IsInjective
<1>3. IsFiniteSet(1..N) /\ Cardinality(1..N) = N
  BY <1>1, FS_Interval
<1>4. rank \in Surjection(S, 1..N)
  BY <1>2, <1>3, FS_Injection
<1>5. \A k \in 1..N : f[k] \in S /\ Cardinality(ahead[f[k]]) = k - 1
  <2> SUFFICES ASSUME NEW k \in 1..N PROVE f[k] \in S /\ Cardinality(ahead[f[k]]) = k - 1
    OBVIOUS
  <2>1. PICK s \in S : rank[s] = k
    BY <1>4 DEF Surjection
  <2>2. Cardinality(ahead[s]) = k - 1
    BY <2>1, <1>1, RankOfOne
  <2> QED BY <2>2
<1>6. f \in Seq(S) /\ Len(f) = N /\ DOMAIN f = 1..N
  BY <1>1, <1>5
<1>7. Ordered[S][ahead] = f
  <2>1. Ordered[S] = [g \in [S -> SUBSET S] |->
          Once([k \in 1..N |-> CHOOSE s \in S : Cardinality(g[s]) = k - 1])]
    BY DEF Ordered
  <2>2. Ordered[S][ahead] = Once(f)
    BY <2>1 DEF IsOrder
  <2> QED BY <2>2, <1>6, OnceIsIt
<1>8. \A s \in S : \E k \in 1..N : f[k] = s
  <2> SUFFICES ASSUME NEW s \in S PROVE \E k \in 1..N : f[k] = s
    OBVIOUS
  <2>1. Cardinality(ahead[s]) + 1 \in 1..N /\ Cardinality(ahead[s]) \in Nat
    BY <1>1, RankOfOne
  <2>2. Cardinality(ahead[f[Cardinality(ahead[s]) + 1]]) = Cardinality(ahead[s])
    BY <2>1, <1>5
  <2>3. f[Cardinality(ahead[s]) + 1] = s
    BY <2>1, <2>2, <1>5, RankOfOne
  <2> QED BY <2>1, <2>3
<1>9. \A j, k \in 1..N : f[j] = f[k] => j = k
  BY <1>1, <1>5
<1> QED BY <1>1, <1>5, <1>6, <1>7, <1>8, <1>9

(* The members of a set of numbers below one of them.                      *)
Below(S, n) == {r \in S : r < n}

(* Ascending has the elements of a set of numbers by their size.           *)
LEMMA AscendingIsSorted ==
  ASSUME NEW S \in SUBSET Nat, IsFiniteSet(S)
  PROVE  LET o == Ascending(S) IN
         /\ o \in Seq(S) /\ Len(o) = Cardinality(S) /\ Cardinality(S) \in Nat
         /\ \A k \in 1..Cardinality(S) : o[k] \in S /\ Cardinality(Below(S, o[k])) = k - 1
         /\ \A s \in S : \E k \in 1..Cardinality(S) : o[k] = s
         /\ \A j, k \in 1..Cardinality(S) : o[j] = o[k] => j = k
<1> DEFINE ahead == [s \in S |-> {r \in S : r < s}]
<1>2. Ascending(S) = Ordered[S][ahead]
  BY DEF Ascending
<1>3. \A s \in S : ahead[s] = {r \in S : r < s}
  OBVIOUS
<1>4. ahead \in [S -> SUBSET S]
  OBVIOUS
<1> HIDE DEF ahead
<1>5. IsOrder(S, ahead)
  <2>1. \A s \in S : \A r \in S : r \in ahead[s] <=> r < s
    BY <1>3
  <2>2. \A s \in S : s \in Nat
    OBVIOUS
  <2>3. ASSUME NEW s \in S, NEW t \in S, t \in ahead[s], NEW r \in ahead[t]
        PROVE  r \in ahead[s]
    <3>1. r \in S /\ r \in Nat /\ s \in Nat /\ t \in Nat
      BY <1>4
    <3>2. r < t /\ t < s
      BY <3>1, <2>1, <2>3
    <3>3. r < s
      BY <3>1, <3>2
    <3> QED BY <3>1, <3>3, <2>1
  <2>4. ASSUME NEW s \in S, NEW t \in S, s # t
        PROVE  s \in ahead[t] \/ t \in ahead[s]
    <3>1. s \in Nat /\ t \in Nat
      OBVIOUS
    <3>2. s < t \/ t < s
      BY <3>1, <2>4
    <3> QED BY <3>2, <2>1
  <2>5. ASSUME NEW s \in S PROVE s \notin ahead[s]
    <3>1. s \in Nat /\ ~(s < s)
      OBVIOUS
    <3> QED BY <3>1, <2>1
  <2> QED BY <2>3, <2>4, <2>5, <1>4 DEF IsOrder
<1> DEFINE o == Ascending(S)
<1>6. /\ o \in Seq(S) /\ Len(o) = Cardinality(S) /\ Cardinality(S) \in Nat
      /\ \A k \in 1..Cardinality(S) : o[k] \in S /\ Cardinality(ahead[o[k]]) = k - 1
      /\ \A s \in S : \E k \in 1..Cardinality(S) : o[k] = s
      /\ \A j, k \in 1..Cardinality(S) : o[j] = o[k] => j = k
  BY <1>2, <1>5, OrderedIsSorted
<1>7. \A k \in 1..Cardinality(S) : Below(S, o[k]) = ahead[o[k]]
  BY <1>3, <1>6 DEF Below
<1> QED BY <1>6, <1>7

(* What is above what: two elements may be equal.                          *)
IsWeakOrder(T, above) ==
  /\ \A a, b \in T : <<a, b>> \in above => <<b, a>> \notin above
  /\ \A a, b, c \in T : <<a, b>> \notin above /\ <<b, c>> \notin above => <<a, c>> \notin above

(* The places of q that an order puts before one of them.                  *)
AheadOf(q, places, above) ==
  [k \in places |-> {j \in places : \/ <<q[j], q[k]>> \in above
                                    \/ <<q[k], q[j]>> \notin above /\ j < k}]

(* The places of a sequence, by what is above, then by where they are, are *)
(* in a strict total order.                                                *)
LEMMA PlacesInOrder ==
  ASSUME NEW T, NEW q \in Seq(T), NEW places \in SUBSET (DOMAIN q),
         NEW above, IsWeakOrder(T, above)
  PROVE  IsOrder(places, AheadOf(q, places, above))
<1> DEFINE ahead == AheadOf(q, places, above)
           Before(j, k) == \/ <<q[j], q[k]>> \in above
                           \/ <<q[k], q[j]>> \notin above /\ j < k
<1>1. \A j, k \in places : j \in ahead[k] <=> Before(j, k)
  <2> SUFFICES ASSUME NEW k \in places PROVE \A j \in places : j \in ahead[k] <=> Before(j, k)
    OBVIOUS
  <2>1. ahead[k] = {j \in places : Before(j, k)}
    BY DEF AheadOf
  <2> QED BY <2>1
<1>2. ahead \in [places -> SUBSET places]
  BY DEF AheadOf
<1>3. \A k \in places : q[k] \in T /\ k \in Nat
  OBVIOUS
<1>4. \A k \in places : ~Before(k, k)
  BY <1>3 DEF IsWeakOrder
<1>5. \A j, k \in places : j # k => Before(j, k) \/ Before(k, j)
  BY <1>3 DEF IsWeakOrder
<1>6. ASSUME NEW i \in places, NEW j \in places, NEW k \in places, Before(i, j), Before(j, k)
      PROVE  Before(i, k)
  <2>1. q[i] \in T /\ q[j] \in T /\ q[k] \in T /\ i \in Nat /\ j \in Nat /\ k \in Nat
    BY <1>3
  <2>2. CASE <<q[i], q[j]>> \in above
    <3>1. <<q[k], q[j]>> \notin above
      BY <1>6, <2>1 DEF IsWeakOrder
    <3> QED BY <2>1, <2>2, <3>1 DEF IsWeakOrder
  <2>3. CASE <<q[j], q[i]>> \notin above /\ i < j
    <3>1. CASE <<q[j], q[k]>> \in above
      BY <2>1, <2>3, <3>1 DEF IsWeakOrder
    <3>2. CASE <<q[k], q[j]>> \notin above /\ j < k
      BY <2>1, <2>3, <3>2 DEF IsWeakOrder
    <3> QED BY <1>6, <3>1, <3>2
  <2> QED BY <1>6, <2>2, <2>3
<1> HIDE DEF ahead, Before
<1>7. \A s, t \in places : t \in ahead[s] => ahead[t] \subseteq ahead[s]
  <2> SUFFICES ASSUME NEW s \in places, NEW t \in places, t \in ahead[s], NEW r \in ahead[t]
               PROVE  r \in ahead[s]
    OBVIOUS
  <2>1. r \in places
    BY <1>2
  <2> QED BY <2>1, <1>1, <1>6
<1>8. IsOrder(places, ahead)
  BY <1>1, <1>2, <1>4, <1>5, <1>7 DEF IsOrder
<1> QED BY <1>8 DEF ahead

(* What Arranged returns: the elements at the places, in another order.    *)
LEMMA ArrangedIsPermutation ==
  ASSUME NEW T, NEW q \in Seq(T), NEW places \in SUBSET (DOMAIN q),
         NEW above, IsWeakOrder(T, above)
  PROVE  LET o == Ordered[places][AheadOf(q, places, above)] IN
         /\ o \in Seq(places) /\ Len(o) = Cardinality(places) /\ Cardinality(places) \in Nat
         /\ \A k \in 1..Cardinality(places) :
              o[k] \in places /\ Cardinality(AheadOf(q, places, above)[o[k]]) = k - 1
         /\ \A s \in places : \E k \in 1..Cardinality(places) : o[k] = s
         /\ \A j, k \in 1..Cardinality(places) : o[j] = o[k] => j = k
         /\ Arranged(q, places, above) \in Seq(T)
         /\ Len(Arranged(q, places, above)) = Cardinality(places)
         /\ \A n \in 1..Cardinality(places) : Arranged(q, places, above)[n] = q[o[n]]
<1> DEFINE o == Ordered[places][AheadOf(q, places, above)]
           N == Cardinality(places)
           r == [n \in 1..N |-> q[o[n]]]
<1>1. places \in SUBSET Nat /\ IsFiniteSet(places)
  BY PlacesAreFinite
<1>2. /\ o \in Seq(places) /\ Len(o) = N /\ N \in Nat
      /\ \A k \in 1..N : o[k] \in places /\ Cardinality(AheadOf(q, places, above)[o[k]]) = k - 1
      /\ \A s \in places : \E k \in 1..N : o[k] = s
      /\ \A j, k \in 1..N : o[j] = o[k] => j = k
  BY <1>1, PlacesInOrder, OrderedIsSorted
<1>3. o \in Seq(Nat) /\ DOMAIN o = 1..N
  BY <1>1, <1>2
<1>4. r \in Seq(T)
  <2> HIDE DEF o, N
  <2>1. \A n \in 1..N : q[o[n]] \in T
    BY <1>2
  <2> QED BY <1>2, <2>1
<1>5. Arranged(q, places, above) = Once(r)
  <2>1. Arranged(q, places, above)
          = [order \in Seq(Nat) |-> Once([n \in DOMAIN order |-> q[order[n]]])][o]
    BY DEF Arranged, AheadOf
  <2> HIDE DEF o
  <2> QED BY <2>1, <1>3
<1>6. Arranged(q, places, above) = r
  BY <1>4, <1>5, OnceIsIt
<1>7. Len(r) = N /\ \A n \in 1..N : r[n] = q[o[n]]
  BY <1>2
<1> HIDE DEF r
<1> QED BY <1>2, <1>4, <1>6, <1>7

(* Arranged has just the elements at the places.                           *)
LEMMA ArrangedElements ==
  ASSUME NEW T, NEW q \in Seq(T), NEW places \in SUBSET (DOMAIN q),
         NEW above, IsWeakOrder(T, above)
  PROVE  LET r == Arranged(q, places, above) IN
         /\ r \in Seq(T) /\ Len(r) = Cardinality(places)
         /\ \A i : i \in ToSet(r) <=> \E k \in places : q[k] = i
         /\ (\A j, k \in places : q[j] = q[k] => j = k) => IsInjective(r)
<1> DEFINE o == Ordered[places][AheadOf(q, places, above)]
           N == Cardinality(places)
           r == Arranged(q, places, above)
<1>0. r \in Seq(T) /\ Len(r) = N /\ \A n \in 1..N : r[n] = q[o[n]]
  BY ArrangedIsPermutation
<1>1. /\ N \in Nat /\ \A k \in 1..N : o[k] \in places
      /\ \A s \in places : \E k \in 1..N : o[k] = s
      /\ \A j, k \in 1..N : o[j] = o[k] => j = k
  <2>1. N \in Nat
    BY ArrangedIsPermutation
  <2>2. \A k \in 1..N : o[k] \in places
    BY ArrangedIsPermutation
  <2>3. \A s \in places : \E k \in 1..N : o[k] = s
    BY ArrangedIsPermutation, SMTT(60)
  <2>4. \A j, k \in 1..N : o[j] = o[k] => j = k
    BY ArrangedIsPermutation
  <2> QED BY <2>1, <2>2, <2>3, <2>4
<1> HIDE DEF o, N, r
<1>2. DOMAIN r = 1..N /\ Len(r) = N /\ \A n \in 1..N : r[n] = q[o[n]]
  BY <1>0, <1>1
<1>3. \A i : i \in ToSet(r) <=> \E k \in places : q[k] = i
  <2>1. \A i : i \in ToSet(r) <=> \E n \in 1..N : r[n] = i
    BY <1>2 DEF ToSet
  <2>2. \A n \in 1..N : r[n] = q[o[n]] /\ o[n] \in places
    BY <1>1, <1>2
  <2>3. \A k \in places : \E n \in 1..N : r[n] = q[k]
    BY <1>1, <1>2
  <2> QED BY <2>1, <2>2, <2>3
<1>4. (\A j, k \in places : q[j] = q[k] => j = k) => IsInjective(r)
  BY <1>1, <1>2 DEF IsInjective
<1> QED BY <1>0, <1>2, <1>3, <1>4 DEF r, N

(* A sequence without repetition has none when it is arranged.             *)
LEMMA AllArranged ==
  ASSUME NEW T, NEW q \in Seq(T), NEW above, IsWeakOrder(T, above), IsInjective(q)
  PROVE  IsInjective(Arranged(q, DOMAIN q, above))
<1>1. \A j, k \in DOMAIN q : q[j] = q[k] => j = k
  BY DEF IsInjective
<1>2. \A places \in SUBSET (DOMAIN q) :
        (\A j, k \in places : q[j] = q[k] => j = k) => IsInjective(Arranged(q, places, above))
  BY ArrangedElements
<1> QED BY <1>1, <1>2

(* A sequence over a set is one over a larger set.                         *)
LEMMA LargerSeq ==
  ASSUME NEW S, NEW T, S \subseteq T, NEW q \in Seq(S)
  PROVE  q \in Seq(T)
<1>1. \A k \in 1..Len(q) : q[k] \in T
  OBVIOUS
<1> QED BY <1>1

(* An order that prefers nothing to anything.                              *)
LEMMA NothingAbove == \A T : IsWeakOrder(T, {})
BY DEF IsWeakOrder

(* Kept has just the elements at the places.                               *)
LEMMA KeptElements ==
  ASSUME NEW T, NEW q \in Seq(T), NEW places \in SUBSET (DOMAIN q)
  PROVE  LET r == Kept(q, places) IN
         /\ r \in Seq(T) /\ Len(r) = Cardinality(places)
         /\ \A i : i \in ToSet(r) <=> \E k \in places : q[k] = i
         /\ (\A j, k \in places : q[j] = q[k] => j = k) => IsInjective(r)
BY NothingAbove, ArrangedElements DEF Kept

(* The largest and the smallest of two numbers.                            *)
LEMMA MinMax ==
  ASSUME NEW a \in Int, NEW b \in Int
  PROVE  /\ Min({a, b}) = IF a <= b THEN a ELSE b
         /\ Max({a, b}) = IF a <= b THEN b ELSE a
<1>1. Min({a, b}) = IF a <= b THEN a ELSE b
  BY DEF Min
<1>2. Max({a, b}) = IF a <= b THEN b ELSE a
  BY DEF Max
<1> QED BY <1>1, <1>2

(* The larger of two numbers is their maximum.                             *)
LEMMA LargerIsMax ==
  ASSUME NEW a \in Int, NEW b \in Int, b <= a
  PROVE  Max({a, b}) = a
<1>1. Max({a, b}) = IF a <= b THEN b ELSE a
  BY MinMax
<1>2. a <= b => a = b
  OBVIOUS
<1> QED BY <1>1, <1>2

(* The beginning of a sequence is it, up to a length.                      *)
LEMMA TopElements ==
  ASSUME NEW T, NEW q \in Seq(T), NEW n \in Nat
  PROVE  LET top == Top(n, q) IN
         /\ top \in Seq(T) /\ Len(top) = IF n <= Len(q) THEN n ELSE Len(q)
         /\ \A k \in 1..Len(top) : top[k] = q[k]
         /\ ToSet(top) \subseteq ToSet(q)
         /\ IsInjective(q) => IsInjective(top)
         /\ Len(q) <= n => top = q
<1> DEFINE m == IF n <= Len(q) THEN n ELSE Len(q)
           top == Top(n, q)
<1>1. Len(q) \in Nat /\ m \in Nat /\ m <= Len(q) /\ DOMAIN q = 1..Len(q)
  OBVIOUS
<1>2. top = SubSeq(q, 1, m)
  BY <1>1, MinMax DEF Top
<1> HIDE DEF top
<1>3. top \in Seq(T) /\ Len(top) = m /\ \A k \in 1..m : top[k] = q[k]
  <2>1. \A k \in 1..m : q[k] \in T
    BY <1>1
  <2> QED BY <1>1, <1>2, <2>1, SubSeqProperties
<1>4. DOMAIN top = 1..m
  BY <1>3
<1>5. ToSet(top) \subseteq ToSet(q)
  BY <1>1, <1>3, <1>4 DEF ToSet
<1>6. IsInjective(q) => IsInjective(top)
  BY <1>1, <1>3, <1>4 DEF IsInjective
<1>7. Len(q) <= n => top = q
  <2> SUFFICES ASSUME Len(q) <= n PROVE top = q
    OBVIOUS
  <2>0. Len(q) \in Nat
    OBVIOUS
  <2>1. m = Len(q)
    BY <2>0
  <2>2. top = SubSeq(q, 1, Len(q))
    BY <1>2, <2>1
  <2> QED BY <2>2, SubSeqFull
<1>8. /\ top \in Seq(T) /\ Len(top) = IF n <= Len(q) THEN n ELSE Len(q)
      /\ \A k \in 1..Len(top) : top[k] = q[k]
  BY <1>3
<1> QED BY <1>5, <1>6, <1>7, <1>8 DEF top

(* Two sequences of one length that agree at each place.                   *)
LEMMA SameSequence ==
  ASSUME NEW T, NEW p \in Seq(T), NEW q \in Seq(T), Len(p) = Len(q),
         \A k \in 1..Len(p) : p[k] = q[k]
  PROVE  p = q
BY SeqEqual

(* The beginning of a longer beginning is the beginning.                   *)
LEMMA TopOfTop ==
  ASSUME NEW T, NEW q \in Seq(T), NEW n \in Nat, NEW m \in Nat, n <= m
  PROVE  Top(n, Top(m, q)) = Top(n, q)
<1>1. Top(m, q) \in Seq(T)
  BY TopElements
<1>2. /\ Top(n, Top(m, q)) \in Seq(T) /\ Top(n, q) \in Seq(T)
      /\ Len(Top(n, Top(m, q))) = Len(Top(n, q)) /\ Len(Top(n, q)) <= Len(Top(m, q))
      /\ \A k \in 1..Len(Top(n, q)) : Top(n, Top(m, q))[k] = Top(m, q)[k]
  BY <1>1, TopElements
<1>3. \A k \in 1..Len(Top(n, q)) : Top(n, Top(m, q))[k] = Top(n, q)[k]
  BY <1>2, TopElements
<1> QED BY <1>2, <1>3, SameSequence

-----------------------------------------------------------------------------
(* What is taken once, and its beginning.                                  *)

LEMMA LeastNumber ==
  ASSUME NEW S \in SUBSET Nat, IsFiniteSet(S), NEW n \in S
  PROVE  \E m \in S : \A k \in S : m <= k
<1> DEFINE o == Ascending(S)
<1>1. Cardinality(S) \in Nat /\ Cardinality(S) # 0
  BY FS_CardinalityType, FS_EmptySet
<1>2. o[1] \in S /\ Cardinality(Below(S, o[1])) = 0
  BY <1>1, AscendingIsSorted
<1>3. Below(S, o[1]) = {}
  <2>1. IsFiniteSet(Below(S, o[1]))
    BY FS_Subset DEF Below
  <2> QED BY <1>2, <2>1, FS_EmptySet
<1> HIDE DEF o
<1>4. \A k \in S : o[1] <= k
  <2> SUFFICES ASSUME NEW k \in S PROVE o[1] <= k
    OBVIOUS
  <2>1. k \in Nat /\ o[1] \in Nat /\ ~(k < o[1])
    BY <1>2, <1>3 DEF Below
  <2> QED BY <2>1
<1> QED BY <1>2, <1>4

(* Every element stands first at one place.                                *)
LEMMA FirstPlaces ==
  ASSUME NEW T, NEW q \in Seq(T)
  PROVE  /\ Firsts(q) \in SUBSET (DOMAIN q) /\ Firsts(q) \subseteq Nat /\ IsFiniteSet(Firsts(q))
         /\ \A j, k \in Firsts(q) : q[j] = q[k] => j = k
         /\ \A n \in DOMAIN q : \E k \in Firsts(q) : q[k] = q[n]
<1>1. DOMAIN q = 1..Len(q) /\ Len(q) \in Nat
  OBVIOUS
<1>2. Firsts(q) \in SUBSET (DOMAIN q)
  BY DEF Firsts
<1>3. Firsts(q) \subseteq Nat /\ IsFiniteSet(Firsts(q))
  BY <1>2, PlacesAreFinite
<1>4. \A j, k \in Firsts(q) : q[j] = q[k] => j = k
  <2> SUFFICES ASSUME NEW j \in Firsts(q), NEW k \in Firsts(q), j # k PROVE q[j] # q[k]
    OBVIOUS
  <2>1. j \in Nat /\ k \in Nat /\ j >= 1 /\ k >= 1
    BY <1>1, <1>2
  <2>2. CASE j < k
    <3>1. j \in 1..(k - 1)
      BY <2>1, <2>2
    <3> QED BY <3>1 DEF Firsts
  <2>3. CASE k < j
    <3>1. k \in 1..(j - 1)
      BY <2>1, <2>3
    <3> QED BY <3>1 DEF Firsts
  <2> QED BY <2>1, <2>2, <2>3
<1>5. ASSUME NEW n \in DOMAIN q PROVE \E k \in Firsts(q) : q[k] = q[n]
  <2> DEFINE S == {k \in DOMAIN q : q[k] = q[n]}
  <2>1. S \in SUBSET Nat /\ IsFiniteSet(S) /\ n \in S
    BY PlacesAreFinite
  <2>2. PICK m \in S : \A k \in S : m <= k
    BY <2>1, LeastNumber
  <2>3. m \in DOMAIN q /\ q[m] = q[n] /\ m \in Nat
    BY <2>1, <2>2
  <2>4. \A j \in 1..(m - 1) : q[j] # q[m]
    <3> SUFFICES ASSUME NEW j \in 1..(m - 1), q[j] = q[m] PROVE FALSE
      OBVIOUS
    <3>1. j \in DOMAIN q /\ j < m /\ j \in Nat
      BY <1>1, <2>3
    <3>2. j \in S
      BY <2>3, <3>1
    <3> QED BY <2>2, <2>3, <3>1, <3>2
  <2> QED BY <2>3, <2>4 DEF Firsts
<1> QED BY <1>2, <1>3, <1>4, <1>5

(* Distinct has every element of the sequence once.                        *)
LEMMA DistinctElements ==
  ASSUME NEW T, NEW q \in Seq(T)
  PROVE  /\ Distinct(q) \in Seq(T) /\ IsInjective(Distinct(q))
         /\ ToSet(Distinct(q)) = ToSet(q)
<1>1. /\ Distinct(q) \in Seq(T) /\ IsInjective(Distinct(q))
      /\ \A i : i \in ToSet(Distinct(q)) <=> \E k \in Firsts(q) : q[k] = i
  BY FirstPlaces, KeptElements DEF Distinct
<1>2. \A i : i \in ToSet(q) <=> \E n \in DOMAIN q : q[n] = i
  BY DEF ToSet
<1>3. \A i : (\E k \in Firsts(q) : q[k] = i) <=> \E n \in DOMAIN q : q[n] = i
  BY FirstPlaces
<1> QED BY <1>1, <1>2, <1>3

(* Kept leaves the elements in their order.                                *)
LEMMA KeptInPlace ==
  ASSUME NEW T, NEW q \in Seq(T), NEW places \in SUBSET (DOMAIN q)
  PROVE  /\ Kept(q, places) \in Seq(T) /\ Len(Kept(q, places)) = Cardinality(places)
         /\ \A n \in 1..Cardinality(places) : Kept(q, places)[n] = q[Ascending(places)[n]]
<1>1. AheadOf(q, places, {}) = [s \in places |-> {r \in places : r < s}]
  BY DEF AheadOf
<1>2. Ordered[places][AheadOf(q, places, {})] = Ascending(places)
  BY <1>1 DEF Ascending
<1> QED BY <1>2, NothingAbove, ArrangedIsPermutation, SMTT(30) DEF Kept

(* The distinct elements of a beginning are the beginning of the distinct  *)
(* elements.                                                               *)
LEMMA DistinctOfTop ==
  ASSUME NEW T, NEW q \in Seq(T), NEW m \in Nat
  PROVE  LET some == Distinct(Top(m, q)) all == Distinct(q) IN
         /\ Len(some) <= Len(all)
         /\ \A k \in 1..Len(some) : some[k] = all[k]
<1> DEFINE p == Top(m, q)
           F == Firsts(q)
           G == Firsts(p)
<1>1. /\ p \in Seq(T) /\ Len(p) \in Nat /\ Len(p) <= Len(q) /\ Len(q) \in Nat
      /\ DOMAIN p = 1..Len(p) /\ DOMAIN q = 1..Len(q)
      /\ \A k \in 1..Len(p) : p[k] = q[k]
  BY TopElements
<1>2. /\ F \in SUBSET (DOMAIN q) /\ F \in SUBSET Nat /\ IsFiniteSet(F)
      /\ G \in SUBSET (DOMAIN p) /\ G \in SUBSET Nat /\ IsFiniteSet(G)
  BY <1>1, FirstPlaces
<1> HIDE DEF p
<1>3. \A k : k \in G <=> k \in F /\ k <= Len(p)
  <2>1. ASSUME NEW k \in Nat, k >= 1, k <= Len(p)
        PROVE  k \in G <=> k \in F
    <3>1. k \in DOMAIN p /\ k \in DOMAIN q /\ p[k] = q[k]
      BY <1>1, <2>1
    <3>2. \A j \in 1..(k - 1) : p[j] = q[j]
      <4> SUFFICES ASSUME NEW j \in 1..(k - 1) PROVE p[j] = q[j]
        OBVIOUS
      <4>1. j \in 1..Len(p)
        BY <1>1, <2>1
      <4> QED BY <4>1, <1>1
    <3> QED BY <3>1, <3>2 DEF Firsts
  <2>2. \A k \in G : k \in Nat /\ k >= 1 /\ k <= Len(p)
    BY <1>1, <1>2
  <2>3. \A k \in F : k \in Nat /\ k >= 1
    BY <1>1, <1>2
  <2> QED BY <2>1, <2>2, <2>3
<1> DEFINE f == Ascending(F)
           g == Ascending(G)
<1>4. /\ Cardinality(F) \in Nat /\ Cardinality(G) \in Nat /\ Cardinality(G) <= Cardinality(F)
  <2>1. G \in SUBSET F
    BY <1>3
  <2> QED BY <1>2, <2>1, FS_CardinalityType, FS_Subset
<1>5. \A k \in 1..Cardinality(G) : g[k] = f[k]
  <2> SUFFICES ASSUME NEW k \in 1..Cardinality(G) PROVE g[k] = f[k]
    OBVIOUS
  <2>1. g[k] \in G /\ Cardinality(Below(G, g[k])) = k - 1
    BY <1>2, AscendingIsSorted
  <2>2. g[k] \in F /\ g[k] <= Len(p) /\ g[k] \in Nat
    BY <1>2, <1>3, <2>1
  <2>3. PICK j \in 1..Cardinality(F) : f[j] = g[k]
    BY <1>2, <2>2, AscendingIsSorted
  <2>4. Cardinality(Below(F, g[k])) = j - 1
    BY <1>2, <2>3, AscendingIsSorted
  <2>5. Below(F, g[k]) = Below(G, g[k])
    <3>1. ASSUME NEW r \in F, r < g[k] PROVE r \in G
      <4>1. r \in Nat /\ r <= Len(p)
        BY <1>1, <1>2, <2>2, <3>1
      <4> QED BY <4>1, <1>3
    <3>2. G \subseteq F
      BY <1>3
    <3> QED BY <3>1, <3>2 DEF Below
  <2>6. j = k
    BY <1>4, <2>1, <2>4, <2>5
  <2> QED BY <2>3, <2>6
<1>6. /\ Len(Distinct(p)) = Cardinality(G) /\ \A k \in 1..Cardinality(G) : Distinct(p)[k] = p[g[k]]
      /\ Len(Distinct(q)) = Cardinality(F) /\ \A k \in 1..Cardinality(F) : Distinct(q)[k] = q[f[k]]
  BY <1>1, <1>2, KeptInPlace, SMTT(30) DEF Distinct
<1>7. \A k \in 1..Cardinality(G) : g[k] \in 1..Len(p)
  BY <1>1, <1>2, AscendingIsSorted
<1> HIDE DEF f, g, F, G
<1>8. \A k \in 1..Cardinality(G) : Distinct(p)[k] = Distinct(q)[k]
  <2> SUFFICES ASSUME NEW k \in 1..Cardinality(G) PROVE Distinct(p)[k] = Distinct(q)[k]
    OBVIOUS
  <2>1. k \in 1..Cardinality(F)
    BY <1>4
  <2> QED BY <1>1, <1>5, <1>6, <1>7, <2>1
<1> QED BY <1>4, <1>6, <1>8 DEF p

-----------------------------------------------------------------------------
(* Rankings, their fusion and the reranker.                                *)

LEMMA DepthsAreNumbers ==
  ASSUME NEW r, IsRequest(r)
  PROVE  /\ FirstStage(r) \in Nat /\ PoolDepth(r) \in Nat /\ Depth(r) \in Nat
         /\ r.n \in Nat /\ r.n <= FirstStage(r)
<1>1. r.n \in Nat /\ HybridCandidates \in Nat /\ RerankCandidates \in Nat
  BY RetrievalAssumption DEF IsRequest
<1>2. FirstStage(r) \in Nat /\ r.n <= FirstStage(r)
  <2> DEFINE n == r.n
             m == Max({RerankCandidates, n})
  <2>1. FirstStage(r) = IF r.rerank THEN m ELSE n
    BY DEF FirstStage
  <2>2. n \in Nat /\ RerankCandidates \in Nat
    BY <1>1
  <2> HIDE DEF n
  <2>3. m = IF RerankCandidates <= n THEN n ELSE RerankCandidates
    BY <2>2, MinMax
  <2> HIDE DEF m
  <2>4. m \in Nat /\ n <= m
    BY <2>2, <2>3
  <2>5. FirstStage(r) \in Nat /\ n <= FirstStage(r)
    BY <2>1, <2>2, <2>4
  <2> QED BY <2>5 DEF n
<1>3. PoolDepth(r) \in Nat
  <2> DEFINE d == FirstStage(r)
             m == Max({HybridCandidates, d})
  <2>1. PoolDepth(r) = m
    BY DEF PoolDepth
  <2>2. d \in Nat /\ HybridCandidates \in Nat
    BY <1>1, <1>2
  <2> HIDE DEF d
  <2>3. m = IF HybridCandidates <= d THEN d ELSE HybridCandidates
    BY <2>2, MinMax
  <2> HIDE DEF m
  <2> QED BY <2>1, <2>2, <2>3
<1> QED BY <1>1, <1>2, <1>3 DEF Depth

(* A ranking has only chunks that it was given, that are in the rows, and  *)
(* that are within the filters, each once if it was given once.            *)
LEMMA RankingElements ==
  ASSUME NEW r, IsRequest(r), NEW ids \in Seq(Nat), NEW rows
  PROVE  /\ Ranking(ids, rows, r) \in Seq(Nat)
         /\ \A i \in ToSet(Ranking(ids, rows, r)) :
              i \in ToSet(ids) /\ i \in DOMAIN rows /\ Matches(rows[i], r.filter)
         /\ IsInjective(ids) => IsInjective(Ranking(ids, rows, r))
<1> DEFINE places == {k \in DOMAIN ids : ids[k] \in DOMAIN rows /\ Matches(rows[ids[k]], r.filter)}
           kept == Kept(ids, places)
<1>1. places \in SUBSET (DOMAIN ids)
  OBVIOUS
<1>2. \A k \in places :
        ids[k] \in DOMAIN rows /\ Matches(rows[ids[k]], r.filter) /\ k \in DOMAIN ids
  OBVIOUS
<1>3. Ranking(ids, rows, r) = Top(Depth(r), kept)
  BY DEF Ranking
<1> HIDE DEF places
<1>4. /\ kept \in Seq(Nat)
      /\ \A i : i \in ToSet(kept) <=> \E k \in places : ids[k] = i
      /\ (\A j, k \in places : ids[j] = ids[k] => j = k) => IsInjective(kept)
  BY <1>1, KeptElements
<1> HIDE DEF kept
<1>5. \A i \in ToSet(kept) : i \in ToSet(ids) /\ i \in DOMAIN rows /\ Matches(rows[i], r.filter)
  BY <1>2, <1>4 DEF ToSet
<1>6. IsInjective(ids) => IsInjective(kept)
  BY <1>2, <1>4 DEF IsInjective
<1>7. /\ Top(Depth(r), kept) \in Seq(Nat) /\ ToSet(Top(Depth(r), kept)) \subseteq ToSet(kept)
      /\ IsInjective(kept) => IsInjective(Top(Depth(r), kept))
  BY <1>4, TopElements, DepthsAreNumbers
<1> QED BY <1>3, <1>5, <1>6, <1>7

(* A rank is a number, also of what is not in the list.                    *)
LEMMA RankIsNumber ==
  ASSUME NEW q \in Seq(Nat), NEW i
  PROVE  RankIn(q, i) \in Nat
<1>1. CASE i \in ToSet(q)
  <2>1. \E k \in DOMAIN q : q[k] = i
    BY <1>1 DEF ToSet
  <2>2. \A k \in DOMAIN q : k \in Nat
    OBVIOUS
  <2> QED BY <1>1, <2>1, <2>2 DEF RankIn
<1>2. CASE i \notin ToSet(q)
  BY <1>2 DEF RankIn
<1> QED BY <1>1, <1>2

(* What a rank, or a number of results, can be.                            *)
Positive == Nat \ {0}

(* A score is a positive fraction, whose denominator is not 0.             *)
LEMMA ScoreIsFraction ==
  ASSUME NEW rank \in Nat \X Nat
  PROVE  Score[rank] \in Positive \X Positive
<1> DEFINE a == 60 + rank[1]
           b == 60 + rank[2]
<1>1. a \in Positive /\ b \in Positive /\ a + b \in Positive
  BY DEF Positive
<1>2. ASSUME NEW x \in Positive, NEW y \in Positive PROVE x * y \in Positive
  BY <1>2 DEF Positive
<1>3. a * b \in Positive
  BY <1>1, <1>2
<1>4. 1 \in Positive
  BY DEF Positive
<1>5. Score[rank] = IF rank[1] = 0 THEN <<1, b>>
                    ELSE IF rank[2] = 0 THEN <<1, a>> ELSE <<a + b, a * b>>
  BY DEF Score
<1> HIDE DEF a, b
<1> QED BY <1>1, <1>3, <1>4, <1>5

(* Fractions are in order: if s is not above t, and t is not above u, then *)
(* s is not above u.                                                       *)
LEMMA FractionsInOrder ==
  ASSUME NEW s \in Positive \X Positive, NEW t \in Positive \X Positive,
         NEW u \in Positive \X Positive,
         s[1] * t[2] <= t[1] * s[2], t[1] * u[2] <= u[1] * t[2]
  PROVE  s[1] * u[2] <= u[1] * s[2]
<1>1. ASSUME NEW a \in Nat, NEW b \in Nat, NEW c \in Nat, NEW d \in Nat, NEW e \in Nat,
             NEW f \in Nat, d > 0, a * d <= c * b, c * f <= e * d
      PROVE  a * f <= e * b
  <2>2. (a * d) * f <= (c * b) * f
    BY <1>1
  <2>3. (c * f) * b <= (e * d) * b
    BY <1>1
  <2>4. (a * f) * d <= (e * b) * d
    BY <1>1, <2>2, <2>3
  <2> QED BY <1>1, <2>4
<1>2. /\ s[1] \in Nat /\ s[2] \in Nat /\ t[1] \in Nat /\ t[2] \in Nat /\ t[2] > 0
      /\ u[1] \in Nat /\ u[2] \in Nat
  BY DEF Positive
<1> QED BY <1>1, <1>2

(* By their scores the chunks are in a weak order, so the fusion does not  *)
(* depend on how they are compared.                                        *)
LEMMA HigherIsWeakOrder ==
  ASSUME NEW dense \in Seq(Nat), NEW lexical \in Seq(Nat), NEW T
  PROVE  IsWeakOrder(T, {p \in T \X T :
           Score[Ranks(dense, lexical, p[2])] \in Higher[Score[Ranks(dense, lexical, p[1])]]})
<1> DEFINE score(i) == Score[Ranks(dense, lexical, i)]
           above == {p \in T \X T : score(p[2]) \in Higher[score(p[1])]}
<1>1. \A i : score(i) \in Positive \X Positive
  <2> SUFFICES ASSUME NEW i PROVE score(i) \in Positive \X Positive
    OBVIOUS
  <2>1. Ranks(dense, lexical, i) \in Nat \X Nat
    BY RankIsNumber DEF Ranks
  <2> QED BY <2>1, ScoreIsFraction
<1>2. \A i, j \in T : <<i, j>> \in above <=> score(j) \in Higher[score(i)]
  OBVIOUS
<1>3. ASSUME NEW s \in Positive \X Positive, NEW t \in Positive \X Positive
      PROVE  t \in Higher[s] <=> s[1] * t[2] > t[1] * s[2]
  <2>1. s \in Nat \X Nat /\ t \in Nat \X Nat
    BY DEF Positive
  <2> QED BY <2>1 DEF Higher
<1> HIDE DEF score, above
<1>4. \A a, b \in T : <<a, b>> \in above => <<b, a>> \notin above
  <2> SUFFICES ASSUME NEW a \in T, NEW b \in T, <<a, b>> \in above, <<b, a>> \in above PROVE FALSE
    OBVIOUS
  <2> DEFINE s == score(a)
             t == score(b)
  <2>1. s \in Positive \X Positive /\ t \in Positive \X Positive
    BY <1>1
  <2>2. s[1] * t[2] > t[1] * s[2] /\ t[1] * s[2] > s[1] * t[2]
    BY <1>2, <1>3, <2>1
  <2>3. ASSUME NEW x \in Positive, NEW y \in Positive PROVE x * y \in Int
    BY <2>3 DEF Positive
  <2>4. s[1] * t[2] \in Int /\ t[1] * s[2] \in Int
    BY <2>1, <2>3
  <2> HIDE DEF s, t
  <2> QED BY <2>2, <2>4
<1>5. ASSUME NEW a \in T, NEW b \in T, NEW c \in T, <<a, b>> \notin above, <<b, c>> \notin above
      PROVE  <<a, c>> \notin above
  <2> DEFINE s == score(a)
             t == score(b)
             u == score(c)
  <2>1. s \in Positive \X Positive /\ t \in Positive \X Positive /\ u \in Positive \X Positive
    BY <1>1
  <2>2. ~(s[1] * t[2] > t[1] * s[2]) /\ ~(t[1] * u[2] > u[1] * t[2])
    BY <1>2, <1>3, <1>5, <2>1
  <2>3. ASSUME NEW x \in Positive, NEW y \in Positive PROVE x * y \in Int
    BY <2>3 DEF Positive
  <2>4. /\ s[1] \in Positive /\ s[2] \in Positive /\ t[1] \in Positive /\ t[2] \in Positive
        /\ u[1] \in Positive /\ u[2] \in Positive
    BY <2>1
  <2>5. /\ s[1] * t[2] \in Int /\ t[1] * s[2] \in Int /\ t[1] * u[2] \in Int /\ u[1] * t[2] \in Int
        /\ s[1] * u[2] \in Int /\ u[1] * s[2] \in Int
    BY <2>3, <2>4
  <2> HIDE DEF s, t, u
  <2>6. s[1] * t[2] <= t[1] * s[2] /\ t[1] * u[2] <= u[1] * t[2]
    BY <2>2, <2>5
  <2>7. s[1] * u[2] <= u[1] * s[2]
    BY <2>1, <2>6, FractionsInOrder
  <2>8. ~(s[1] * u[2] > u[1] * s[2])
    BY <2>5, <2>7
  <2> QED BY <1>2, <1>3, <2>1, <2>8 DEF s, u
<1>6. IsWeakOrder(T, above)
  BY <1>4, <1>5 DEF IsWeakOrder
<1> QED BY <1>6 DEF above, score

(* A sequence is one over its own elements.                                *)
LEMMA OwnElements ==
  ASSUME NEW T, NEW q \in Seq(T)
  PROVE  q \in Seq(ToSet(q)) /\ ToSet(q) \subseteq T
<1>1. \A k \in 1..Len(q) : q[k] \in T /\ q[k] \in ToSet(q)
  BY DEF ToSet
<1>2. ToSet(q) \subseteq T
  BY DEF ToSet
<1> QED BY <1>1, <1>2

(* The fusion has each chunk once, from one of the two rankings.           *)
LEMMA FusedElements ==
  ASSUME NEW dense \in Seq(Nat), NEW lexical \in Seq(Nat)
  PROVE  /\ Fused(dense, lexical) \in Seq(Nat) /\ IsInjective(Fused(dense, lexical))
         /\ ToSet(Fused(dense, lexical)) \subseteq ToSet(dense) \cup ToSet(lexical)
<1> DEFINE all == dense \o lexical
           T == ToSet(all)
           above == {p \in T \X T : Score[Ranks(dense, lexical, p[2])]
                                      \in Higher[Score[Ranks(dense, lexical, p[1])]]}
<1>1. all \in Seq(Nat)
  OBVIOUS
<1>2. T \subseteq ToSet(dense) \cup ToSet(lexical)
  <2> SUFFICES ASSUME NEW i \in T PROVE i \in ToSet(dense) \cup ToSet(lexical)
    OBVIOUS
  <2>1. PICK k \in DOMAIN all : all[k] = i
    BY DEF ToSet
  <2>2. CASE k <= Len(dense)
    <3>1. k \in DOMAIN dense /\ dense[k] = i
      BY <2>1, <2>2
    <3> QED BY <3>1 DEF ToSet
  <2>3. CASE k > Len(dense)
    <3>1. k - Len(dense) \in DOMAIN lexical /\ lexical[k - Len(dense)] = i
      BY <2>1, <2>3
    <3> QED BY <3>1 DEF ToSet
  <2>4. k \in Int /\ Len(dense) \in Int
    BY <2>1
  <2> QED BY <2>2, <2>3, <2>4
<1>3. all \in Seq(T) /\ T \subseteq Nat
  BY <1>1, OwnElements
<1>4. IsWeakOrder(T, above)
  BY HigherIsWeakOrder
<1>5. Fused(dense, lexical) = Arranged(all, Firsts(all), above)
  BY DEF Fused
<1> HIDE DEF all, T, above
<1>6. /\ Firsts(all) \in SUBSET (DOMAIN all)
      /\ \A j, k \in Firsts(all) : all[j] = all[k] => j = k
  BY <1>3, FirstPlaces
<1> DEFINE places == Firsts(all)
           fused == Arranged(all, places, above)
<1> HIDE DEF places
<1>7. fused \in Seq(T)
  BY <1>3, <1>4, <1>6, ArrangedElements DEF places
<1>8. IsInjective(fused)
  BY <1>3, <1>4, <1>6, ArrangedElements DEF places
<1>9. ToSet(fused) \subseteq T
  BY <1>7, OwnElements
<1>10. fused \in Seq(Nat)
  BY <1>3, <1>7, LargerSeq
<1>11. Fused(dense, lexical) = fused
  BY <1>5 DEF places
<1> HIDE DEF fused
<1> QED BY <1>2, <1>8, <1>9, <1>10, <1>11

(* The reranker returns the hits it was given in another order.            *)
LEMMA RerankedElements ==
  ASSUME NEW r, NEW hits \in Seq(Nat), \A i \in ToSet(hits) : r.score[i] \in Int
  PROVE  /\ Reranked(r, hits) \in Seq(Nat)
         /\ IsInjective(hits) => IsInjective(Reranked(r, hits))
         /\ ToSet(Reranked(r, hits)) \subseteq ToSet(hits)
<1> DEFINE T == ToSet(hits)
           above == {p \in T \X T : r.score[p[1]] > r.score[p[2]]}
<1>1. hits \in Seq(T) /\ T \subseteq Nat
  BY OwnElements
<1>2. IsWeakOrder(T, above)
  <2>1. \A i, j \in T : <<i, j>> \in above <=> r.score[i] > r.score[j]
    OBVIOUS
  <2>2. \A i \in T : r.score[i] \in Int
    OBVIOUS
  <2> HIDE DEF above, T
  <2>3. ASSUME NEW a \in T, NEW b \in T, <<a, b>> \in above PROVE <<b, a>> \notin above
    <3>1. r.score[a] \in Int /\ r.score[b] \in Int /\ r.score[a] > r.score[b]
      BY <2>1, <2>2, <2>3
    <3>2. ~(r.score[b] > r.score[a])
      BY <3>1
    <3> QED BY <3>2, <2>1
  <2>4. ASSUME NEW a \in T, NEW b \in T, NEW c \in T, <<a, b>> \notin above, <<b, c>> \notin above
        PROVE  <<a, c>> \notin above
    <3>1. /\ r.score[a] \in Int /\ r.score[b] \in Int /\ r.score[c] \in Int
          /\ ~(r.score[a] > r.score[b]) /\ ~(r.score[b] > r.score[c])
      BY <2>1, <2>2, <2>4
    <3>2. ~(r.score[a] > r.score[c])
      BY <3>1
    <3> QED BY <3>2, <2>1
  <2> QED BY <2>3, <2>4 DEF IsWeakOrder
<1> DEFINE order == Arranged(hits, DOMAIN hits, above)
<1>3. RerankOrder(r, hits) = order
  BY DEF RerankOrder
<1> HIDE DEF T, above
<1>4. order \in Seq(T)
  BY <1>1, <1>2, ArrangedElements
<1>5. IsInjective(hits) => IsInjective(RerankOrder(r, hits))
  <2> SUFFICES ASSUME IsInjective(hits) PROVE IsInjective(RerankOrder(r, hits))
    OBVIOUS
  <2>1. hits \in Seq(T)
    BY <1>1
  <2>2. IsInjective(order)
    BY <1>2, <2>1, AllArranged
  <2> HIDE DEF order
  <2> QED BY <1>3, <2>2
<1> HIDE DEF order
<1>6. RerankOrder(r, hits) \in Seq(Nat) /\ ToSet(RerankOrder(r, hits)) \subseteq T
  BY <1>1, <1>3, <1>4, OwnElements, LargerSeq
<1> QED BY <1>5, <1>6 DEF Reranked, T

-----------------------------------------------------------------------------
(* The inductive invariant, in parts.                                      *)

(* What is stored of a generation is some of its chunks; a keyword index   *)
(* is complete, or it came from outside.                                   *)
StoreInv ==
  /\ DOMAIN collection = Versions /\ DOMAIN sidecar = Versions /\ told \subseteq Versions
  /\ \A v \in Versions : collection[v] # None =>
       DOMAIN collection[v] \subseteq DOMAIN Content[v]
         /\ collection[v] \in [DOMAIN collection[v] -> Chunks]
  /\ \A v \in Versions : sidecar[v] # None => Complete(sidecar[v], v)
  /\ \A v \in told : sidecar[v] # None

(* A row of a chunk of v, with the text it was built with.                 *)
OwnRow(row, v) ==
  row \in Nat \X Chunks /\ row[1] \in DOMAIN Content[v] /\ row[2].text = Content[v][row[1]].text

OwnRows(v, rows) == rows \in Seq(Nat \X Chunks) /\ \A k \in 1..Len(rows) : OwnRow(rows[k], v)

(* A command has read rows of the generation that it found active, with    *)
(* the text they were built with.                                          *)
ToolInv ==
  /\ DOMAIN tool = Tools
  /\ \A t \in Tools :
       /\ tool[t] = [at |-> tool[t].at, gen |-> tool[t].gen, rows |-> tool[t].rows]
       /\ tool[t].at # "idle" => tool[t].gen \in Versions /\ OwnRows(tool[t].gen, tool[t].rows)

(* A server that answers has pinned a generation, and opened a whole index.*)
ServerInv ==
  /\ server = [at |-> server.at, pinned |-> server.pinned,
               lexical |-> server.lexical, pages |-> server.pages]
  /\ server.pinned \in Versions \cup {None}
  /\ server.at \in {"pinned", "opened"} => server.pinned \in Versions
  /\ server.lexical # None =>
       /\ server.at = "ready" /\ server.pinned \in Versions
       /\ Complete(server.lexical, server.pinned)
       /\ Fits(server.lexical, server.pinned) \/ server.lexical.by = "outside"

(* A request is served by a server that is ready; what is found has been   *)
(* proposed by a ranking, each chunk once, and what is left to be verified *)
(* is within the filters.                                                  *)
Searching ==
  /\ work.at \in {"dense", "lexical", "fetch", "verify"} /\ server.pinned \in Versions
  /\ work.hits \in Seq(Nat) /\ IsInjective(work.hits)
  /\ ToSet(work.hits) \subseteq ToSet(request.dense) \cup ToSet(request.lexical)
  /\ work.at = "verify" => \A i \in ToSet(work.hits) : Matches(work.rows[i], request.filter)

(* A search for notes has asked for its number of sections, or for more.   *)
Listing ==
  /\ work.at = "notes" /\ work.requested \in Nat
  /\ work.requested >= request.count \/ work.requested >= request.n

(* A search in hand is a request to a ready server.                        *)
WorkInv ==
  /\ world \in Worlds
  /\ reply # None => server.at = "ready"
  /\ request # None =>
       /\ server.at = "ready" /\ IsRequest(request)
       /\ work = [at |-> work.at, hits |-> work.hits, rows |-> work.rows,
                  requested |-> work.requested]
       /\ \/ request.kind = "papers" /\ Searching
          \/ request.kind = "notes" /\ Listing
          \/ request.kind = "note" /\ work.at = "note"

(* The parts together.                                                     *)
RetrievalInv == StoreInv /\ ToolInv /\ ServerInv /\ WorkInv

-----------------------------------------------------------------------------
(* Proof of the invariant: the store and the commands.                     *)

Saved(v, rows) ==
  [of |-> v, count |-> Len(rows), by |-> "command",
   rows |-> [i \in {r[1] : r \in ToSet(rows)} |-> (CHOOSE r \in ToSet(rows) : r[1] = i)[2]]]

(* What a command saves is the whole generation, with its text.            *)
LEMMA SavedIsComplete ==
  ASSUME NEW v \in Versions, NEW rows, OwnRows(v, rows), AllRows(v, rows)
  PROVE  /\ Saved(v, rows) # None /\ Complete(Saved(v, rows), v)
         /\ Fits(Saved(v, rows), v)
<1> DEFINE ids == {r[1] : r \in ToSet(rows)}
           own == DOMAIN Content[v]
           row(i) == CHOOSE r \in ToSet(rows) : r[1] = i
           index == Saved(v, rows)
<1>1. IsFiniteSet(own) /\ Cardinality(own) \in Nat
  BY RetrievalAssumption, FS_CardinalityType
<1>2. \A r \in ToSet(rows) : OwnRow(r, v)
  BY DEF OwnRows, ToSet
<1>3. ids \subseteq own
  BY <1>2 DEF OwnRow
<1>4. ids = own
  BY <1>1, <1>3, FS_Subset DEF AllRows
<1>5. \A i \in own : row(i) \in ToSet(rows) /\ row(i)[1] = i
  BY <1>4
<1>6. \A i \in own : row(i)[2] \in Chunks /\ row(i)[2].text = Content[v][i].text
  BY <1>2, <1>5 DEF OwnRow
<1>7. index.rows = [i \in own |-> row(i)[2]]
  BY <1>4 DEF Saved
<1>8. Len(rows) \in Nat /\ Len(rows) = Cardinality(own)
  BY <1>1 DEF AllRows
<1> HIDE DEF row, ids, own
<1>9. index \in [of : {v}, count : Nat, by : {"command"}, rows : [own -> Chunks]]
  BY <1>6, <1>7, <1>8 DEF Saved
<1>10. index # None
  BY <1>9, RetrievalAssumption DEF own
<1>11. Complete(index, v)
  BY <1>6, <1>7 DEF Saved, Complete, own
<1>12. Fits(index, v)
  BY <1>8, <1>10 DEF Fits, Saved, own
<1> QED BY <1>10, <1>11, <1>12

(* What was built of a generation is chunks.                               *)
LEMMA BuiltIsChunks ==
  ASSUME NEW v \in Versions
  PROVE  Content[v] \in [DOMAIN Content[v] -> Chunks]
BY RetrievalAssumption

(* Every step keeps StoreInv.                                              *)
LEMMA StoreNext == RetrievalInv /\ [Next]_vars => StoreInv'
<1> SUFFICES ASSUME StoreInv, ToolInv, WorkInv, [Next]_vars PROVE StoreInv'
  BY DEF RetrievalInv
<1>1. CASE Maintain
  <2>1. CASE RollBack
    BY <2>1 DEF RollBack, store, StoreInv, Complete
  <2>2. ASSUME NEW v \in Versions, PublishGeneration(v) PROVE StoreInv'
    <3>1. collection' = [collection EXCEPT ![v] = Content[v]] /\ UNCHANGED <<sidecar, told>>
      BY <2>2 DEF PublishGeneration
    <3> QED BY <3>1, BuiltIsChunks DEF StoreInv, Complete
  <2>3. ASSUME NEW v \in Versions, PruneCollection(v) PROVE StoreInv'
    BY <2>3 DEF PruneCollection, StoreInv, Complete
  <2>4. ASSUME NEW v \in Versions, PruneFiles(v) PROVE StoreInv'
    BY <2>4 DEF PruneFiles, StoreInv, Complete
  <2> QED BY <1>1, <2>1, <2>2, <2>3, <2>4 DEF Maintain
<1>2. CASE BuildKeywords
  <2> PICK t \in Tools : \/ ReadActive(t) \/ OpenIndex(t) \/ ReadRows(t) \/ ToolFails(t)
                         \/ SaveSidecar(t)
    BY <1>2, RetrievalAssumption DEF BuildKeywords, WorkInv
  <2>1. CASE ReadActive(t) \/ OpenIndex(t) \/ ReadRows(t) \/ ToolFails(t)
    <3>1. UNCHANGED <<collection, sidecar, told>>
      BY <2>1 DEF ReadActive, OpenIndex, ReadRows, ToolFails, Goes
    <3> QED BY <3>1 DEF StoreInv, Complete
  <2>2. CASE SaveSidecar(t)
    <3> DEFINE v == tool[t].gen
               rows == tool[t].rows
    <3>1. v \in Versions /\ OwnRows(v, rows) /\ collection' = collection
      BY <2>2 DEF SaveSidecar, ToolInv, Goes
    <3>2. CASE UNCHANGED <<sidecar, told>>
      BY <3>1, <3>2 DEF StoreInv, Complete
    <3>3. CASE AllRows(v, rows) /\ sidecar' = [sidecar EXCEPT ![v] = Saved(v, rows)]
               /\ told' = told \cup {v}
      <4>1. Saved(v, rows) # None /\ Complete(Saved(v, rows), v)
        BY <3>1, <3>3, SavedIsComplete
      <4> HIDE DEF v, rows
      <4> QED BY <3>1, <3>3, <4>1 DEF StoreInv, Complete
    <3> QED BY <2>2, <3>2, <3>3 DEF SaveSidecar, Saved
  <2> QED BY <2>1, <2>2
<1>3. CASE Serve
  <2>1. UNCHANGED <<collection, sidecar, told>>
    BY <1>3 DEF Serve, Pin, OpenPapers, OpenKeywords, Restart, Serving, Ask, Answering, SearchDense,
                SearchLexical, Fetch, RerankFails, Verify, SearchNotes, GetNote, Receive, Others,
                store
  <2> QED BY <2>1 DEF StoreInv, Complete
<1>4. CASE Harm
  <2>1. ASSUME NEW v, NEW i, DamageChunk(v, i), UNCHANGED told PROVE StoreInv'
    <3>1. sidecar' = sidecar
      BY <2>1 DEF DamageChunk
    <3>2. CASE v \notin Versions
      <4>1. DOMAIN collection' = Versions /\ \A u \in Versions : collection'[u] = collection[u]
        BY <2>1, <3>2 DEF DamageChunk, StoreInv
      <4> QED BY <2>1, <3>1, <4>1 DEF StoreInv, Complete
    <3>3. CASE v \in Versions
      <4>1. /\ collection[v] \in [DOMAIN collection[v] -> Chunks]
            /\ DOMAIN collection[v] \subseteq DOMAIN Content[v]
            /\ i \in DOMAIN collection[v]
        BY <2>1, <3>3 DEF DamageChunk, StoreInv
      <4>2. /\ [collection[v][i] EXCEPT !.text = "other"] \in Chunks
            /\ [collection[v][i] EXCEPT !.paper = "other"] \in Chunks
        BY <4>1 DEF Chunks
      <4>3. \A u \in Versions \ {v} : collection'[u] = collection[u]
        BY <2>1 DEF DamageChunk, StoreInv
      <4>4. DOMAIN collection' = Versions
        BY <2>1 DEF DamageChunk, StoreInv
      <4>5. /\ DOMAIN collection'[v] \subseteq DOMAIN Content[v]
            /\ collection'[v] \in [DOMAIN collection'[v] -> Chunks]
        BY <2>1, <3>3, <4>1, <4>2 DEF DamageChunk, StoreInv
      <4> QED BY <2>1, <3>1, <4>3, <4>4, <4>5 DEF StoreInv, Complete
    <3> QED BY <3>2, <3>3
  <2>2. ASSUME NEW v \in Versions, NEW index \in Forged, DamageKeywords(v, index), UNCHANGED told
        PROVE  StoreInv'
    <3>1. index # None /\ index.by # "command"
      BY RetrievalAssumption
    <3> QED BY <2>2, <3>1 DEF DamageKeywords, StoreInv, Complete
  <2>3. ASSUME NEW note, ChangeNote(note), UNCHANGED told PROVE StoreInv'
    BY <2>3 DEF ChangeNote, StoreInv, Complete
  <2> QED BY <1>4, <2>1, <2>2, <2>3 DEF Harm
<1>5. CASE UNCHANGED vars
  BY <1>5 DEF vars, store, StoreInv, Complete
<1> QED BY <1>1, <1>2, <1>3, <1>4, <1>5 DEF Next

(* The ids of a stored generation are places of it.                        *)
LEMMA IdsInPlace ==
  ASSUME NEW v \in Versions, StoreInv, collection[v] # None
  PROVE  Ids(v) \in Seq(DOMAIN collection[v])
<1>1. DOMAIN collection[v] \in SUBSET Nat /\ IsFiniteSet(DOMAIN collection[v])
  BY RetrievalAssumption, FS_Subset DEF StoreInv
<1> QED BY <1>1, AscendingIsSorted DEF Ids

(* What a command reads next are chunks of the collection.                 *)
LEMMA NextInPlace ==
  ASSUME NEW t \in Tools, StoreInv, tool[t].gen \in Versions, collection[tool[t].gen] # None,
         OwnRows(tool[t].gen, tool[t].rows)
  PROVE  NextRows(t) \in Seq(DOMAIN collection[tool[t].gen])
<1> DEFINE ids == Ids(tool[t].gen)
           offset == Len(tool[t].rows)
           last == Min({offset + RowBatch, Len(ids)})
           S == DOMAIN collection[tool[t].gen]
<1>1. ids \in Seq(S)
  BY IdsInPlace
<1>2. offset \in Nat /\ Len(ids) \in Nat /\ RowBatch \in Nat
  BY <1>1, RetrievalAssumption DEF OwnRows
<1>3. last \in Int /\ last <= Len(ids)
  <2> DEFINE a == offset + RowBatch
             b == Len(ids)
             least == Min({a, b})
  <2>1. a \in Int /\ b \in Int /\ last = least
    BY <1>2
  <2> HIDE DEF a, b
  <2>2. least = IF a <= b THEN a ELSE b
    BY <2>1, MinMax
  <2> HIDE DEF least, last
  <2>3. last \in Int /\ last <= b
    BY <2>1, <2>2
  <2> QED BY <2>3 DEF b
<1> HIDE DEF ids, offset, last, S
<1>4. SubSeq(ids, offset + 1, last) \in Seq(S)
  <2>1. \A k \in (offset + 1)..last : ids[k] \in S
    BY <1>1, <1>2, <1>3
  <2> QED BY <1>2, <1>3, <2>1, SubSeqProperties
<1> QED BY <1>4 DEF NextRows, ids, offset, last, S

(* A batch of rows adds rows of the generation.                            *)
LEMMA RowsGrow ==
  ASSUME NEW v \in Versions, StoreInv, collection[v] # None, NEW rows, OwnRows(v, rows),
         NEW next \in Seq(DOMAIN collection[v]),
         \A i \in ToSet(next) : collection[v][i].text = Content[v][i].text
  PROVE  OwnRows(v, rows \o [k \in DOMAIN next |-> <<next[k], collection[v][next[k]]>>])
<1> DEFINE new == [k \in DOMAIN next |-> <<next[k], collection[v][next[k]]>>]
<1>1. /\ DOMAIN collection[v] \subseteq DOMAIN Content[v] /\ DOMAIN Content[v] \subseteq Nat
      /\ collection[v] \in [DOMAIN collection[v] -> Chunks]
  BY RetrievalAssumption DEF StoreInv
<1>2. \A k \in 1..Len(next) : next[k] \in DOMAIN collection[v] /\ next[k] \in ToSet(next)
  BY DEF ToSet
<1>3. \A k \in 1..Len(next) : OwnRow(<<next[k], collection[v][next[k]]>>, v)
  BY <1>1, <1>2 DEF OwnRow
<1>4. /\ DOMAIN new = 1..Len(next) /\ Len(next) \in Nat
      /\ \A k \in 1..Len(next) : new[k] = <<next[k], collection[v][next[k]]>>
  OBVIOUS
<1>5. new \in Seq(Nat \X Chunks) /\ Len(new) = Len(next)
  BY <1>3, <1>4 DEF OwnRow
<1> HIDE DEF new
<1>6. rows \o new \in Seq(Nat \X Chunks) /\ Len(rows \o new) = Len(rows) + Len(new)
      /\ Len(rows) \in Nat
  <2> DEFINE T == Nat \X Chunks
  <2>1. rows \in Seq(T) /\ new \in Seq(T)
    BY <1>5 DEF OwnRows
  <2> HIDE DEF T
  <2>2. rows \o new \in Seq(T) /\ Len(rows \o new) = Len(rows) + Len(new) /\ Len(rows) \in Nat
    BY <2>1
  <2> QED BY <2>2 DEF T
<1>7. \A k \in 1..Len(rows \o new) : OwnRow((rows \o new)[k], v)
  <2> SUFFICES ASSUME NEW k \in 1..Len(rows \o new) PROVE OwnRow((rows \o new)[k], v)
    OBVIOUS
  <2>1. CASE k <= Len(rows)
    <3>1. (rows \o new)[k] = rows[k] /\ k \in 1..Len(rows)
      BY <1>5, <1>6, <2>1 DEF OwnRows
    <3> QED BY <3>1 DEF OwnRows
  <2>2. CASE k > Len(rows)
    <3>1. (rows \o new)[k] = new[k - Len(rows)] /\ k - Len(rows) \in 1..Len(next)
      BY <1>5, <1>6, <2>2 DEF OwnRows
    <3> QED BY <1>3, <1>4, <3>1
  <2> QED BY <1>6, <2>1, <2>2
<1>8. OwnRows(v, rows \o new)
  BY <1>6, <1>7 DEF OwnRows
<1> QED BY <1>8 DEF new

(* No rows are rows of any version.                                        *)
LEMMA NoRowsYet == \A v : OwnRows(v, <<>>)
BY DEF OwnRows

(* What the invariant says of the tools, after a step.                      *)
LEMMA ToolsAre ==
  ASSUME DOMAIN tool' = Tools,
         \A t \in Tools :
           /\ tool'[t] = [at |-> tool'[t].at, gen |-> tool'[t].gen, rows |-> tool'[t].rows]
           /\ tool'[t].at # "idle" =>
                tool'[t].gen \in Versions /\ OwnRows(tool'[t].gen, tool'[t].rows)
  PROVE  ToolInv'
BY DEF ToolInv, OwnRows, OwnRow

(* Every step keeps ToolInv.                                               *)
LEMMA ToolNext == RetrievalInv /\ [Next]_vars => ToolInv'
<1> SUFFICES ASSUME StoreInv, ToolInv, WorkInv, [Next]_vars PROVE ToolInv'
  BY DEF RetrievalInv
<1>1. CASE BuildKeywords
  <2> PICK t \in Tools : \/ ReadActive(t) \/ OpenIndex(t) \/ ReadRows(t) \/ ToolFails(t)
                         \/ SaveSidecar(t)
    BY <1>1, RetrievalAssumption DEF BuildKeywords, WorkInv
  <2>1. ASSUME NEW state, Goes(t, state),
               state = [at |-> state.at, gen |-> state.gen, rows |-> state.rows],
               state.at # "idle" => state.gen \in Versions /\ OwnRows(state.gen, state.rows)
        PROVE  ToolInv'
    BY <2>1, ToolsAre DEF Goes, ToolInv
  <2>2. ASSUME Goes(t, Idle) PROVE ToolInv'
    BY <2>1, <2>2 DEF Idle
  <2>3. CASE ReadActive(t)
    <3> DEFINE state == [at |-> "open", gen |-> active, rows |-> <<>>]
    <3>1. Goes(t, state) /\ active \in Versions
      BY <2>3 DEF ReadActive
    <3>2. /\ state = [at |-> state.at, gen |-> state.gen, rows |-> state.rows]
          /\ state.gen = active /\ OwnRows(state.gen, state.rows)
      BY NoRowsYet
    <3> HIDE DEF state
    <3> QED BY <2>1, <3>1, <3>2
  <2>4. CASE OpenIndex(t)
    <3>1. CASE Goes(t, [tool[t] EXCEPT !.at = "read"])
      <4> DEFINE state == [tool[t] EXCEPT !.at = "read"]
      <4>1. /\ state = [at |-> state.at, gen |-> state.gen, rows |-> state.rows]
            /\ state.gen \in Versions /\ OwnRows(state.gen, state.rows)
        BY <2>4 DEF OpenIndex, ToolInv
      <4> HIDE DEF state
      <4> QED BY <2>1, <3>1, <4>1 DEF state
    <3> QED BY <2>2, <2>4, <3>1 DEF OpenIndex
  <2>5. CASE ReadRows(t)
    <3> DEFINE v == tool[t].gen
               next == NextRows(t)
               more == [k \in DOMAIN next |-> <<next[k], collection[v][next[k]]>>]
               state == [tool[t] EXCEPT !.rows = @ \o more]
    <3>1. v \in Versions /\ OwnRows(v, tool[t].rows) /\ collection[v] # None
      BY <2>5 DEF ReadRows, ToolInv
    <3>2. next \in Seq(DOMAIN collection[v])
      BY <3>1, NextInPlace
    <3>3. CASE Goes(t, state) /\ \A i \in ToSet(next) : collection[v][i].text = Content[v][i].text
      <4>1. OwnRows(v, tool[t].rows \o more)
        BY <3>1, <3>2, <3>3, RowsGrow
      <4>2. /\ state = [at |-> state.at, gen |-> state.gen, rows |-> state.rows]
            /\ state.gen = v /\ state.rows = tool[t].rows \o more
        <5>1. ASSUME NEW rows, NEW s, s = [tool[t] EXCEPT !.rows = rows]
              PROVE  /\ s = [at |-> s.at, gen |-> s.gen, rows |-> s.rows]
                     /\ s.gen = tool[t].gen /\ s.rows = rows
          BY <5>1 DEF ToolInv
        <5> DEFINE rows == tool[t].rows \o more
        <5> HIDE DEF rows
        <5>2. state = [tool[t] EXCEPT !.rows = rows]
          BY DEF rows
        <5> HIDE DEF state
        <5> QED BY <5>1, <5>2 DEF rows
      <4> HIDE DEF state, more, v
      <4> QED BY <2>1, <3>1, <3>3, <4>1, <4>2
    <3> QED BY <2>2, <2>5, <3>3 DEF ReadRows
  <2>6. CASE SaveSidecar(t) \/ ToolFails(t)
    BY <2>2, <2>6 DEF SaveSidecar, ToolFails
  <2> QED BY <2>3, <2>4, <2>5, <2>6
<1>2. CASE Maintain
  BY <1>2, ToolsAre DEF Maintain, ToolInv
<1>3. CASE Serve
  <2>1. tool' = tool
    BY <1>3 DEF Serve, Pin, OpenPapers, OpenKeywords, Restart, Serving, Ask, Answering, SearchDense,
                SearchLexical, Fetch, RerankFails, Verify, SearchNotes, GetNote, Receive, Others
  <2> QED BY <2>1 DEF ToolInv, OwnRows, OwnRow
<1>4. CASE Harm
  BY <1>4 DEF Harm, ToolInv, OwnRows, OwnRow
<1>5. CASE UNCHANGED vars
  BY <1>5 DEF vars, ToolInv, OwnRows, OwnRow
<1> QED BY <1>1, <1>2, <1>3, <1>4, <1>5 DEF Next

-----------------------------------------------------------------------------
(* Proof of the invariant: the server.                                     *)

ServerForm(state) ==
  /\ state = [at |-> state.at, pinned |-> state.pinned,
              lexical |-> state.lexical, pages |-> state.pages]
  /\ state.pinned \in Versions \cup {None}
  /\ state.at \in {"pinned", "opened"} => state.pinned \in Versions
  /\ state.lexical # None =>
       /\ state.at = "ready" /\ state.pinned \in Versions
       /\ Complete(state.lexical, state.pinned)
       /\ Fits(state.lexical, state.pinned) \/ state.lexical.by = "outside"

(* ServerInv is the form, of the server now and after a step.              *)
LEMMA ServerFormIsInv ==
  /\ ServerInv <=> ServerForm(server)
  /\ ServerInv' <=> ServerForm(server')
BY DEF ServerInv, ServerForm, Complete, Fits

(* A server that is down, or has just pinned a generation, has the form.   *)
LEMMA PinnedFits ==
  /\ ServerForm(Down) /\ ServerForm(Pinned("ready", None))
  /\ \A v \in Versions : ServerForm(Pinned("pinned", v))
BY DEF Down, Pinned, ServerForm

(* Every step keeps ServerInv.                                             *)
LEMMA ServerNext == RetrievalInv /\ [Next]_vars => ServerInv'
<1> SUFFICES ASSUME StoreInv, ServerInv, [Next]_vars PROVE ServerForm(server')
  BY ServerFormIsInv DEF RetrievalInv
<1>0. ServerForm(server)
  BY ServerFormIsInv
<1>1. CASE server' = server
  BY <1>0, <1>1
<1>2. CASE Pin
  BY <1>2, PinnedFits DEF Pin, Serving
<1>3. CASE OpenPapers
  <2>1. CASE server' = [server EXCEPT !.at = "opened"]
    <3>1. server.at = "pinned"
      BY <1>3 DEF OpenPapers
    <3> QED BY <1>0, <2>1, <3>1 DEF ServerForm
  <2> QED BY <1>3, <2>1, PinnedFits DEF OpenPapers, Serving
<1>4. CASE OpenKeywords
  <2> DEFINE index == IF Fits(sidecar[server.pinned], server.pinned)
                      THEN sidecar[server.pinned] ELSE None
  <2>1. server.at = "opened" /\ server' = [server EXCEPT !.at = "ready", !.lexical = index]
    BY <1>4 DEF OpenKeywords, Serving
  <2>2. server.pinned \in Versions
    BY <1>0, <2>1 DEF ServerForm
  <2>3. index # None => Fits(index, server.pinned) /\ Complete(index, server.pinned)
    BY <2>2 DEF StoreInv, Fits
  <2> HIDE DEF index
  <2>4. /\ server'.at = "ready" /\ server'.pinned = server.pinned /\ server'.lexical = index
        /\ server' = [at |-> server'.at, pinned |-> server'.pinned,
                      lexical |-> server'.lexical, pages |-> server'.pages]
    BY <1>0, <2>1 DEF ServerForm
  <2> QED BY <2>2, <2>3, <2>4 DEF ServerForm
<1>5. CASE Restart
  BY <1>5, PinnedFits DEF Restart, Serving
<1>6. CASE Verify
  <2>1. PICK pages : server' = [server EXCEPT !.pages = pages] \/ server' = server
    BY <1>6 DEF Verify
  <2> QED BY <1>0, <2>1 DEF ServerForm
<1>7. CASE Harm
  <2>1. ASSUME NEW v \in Versions, NEW index \in Forged,
               server' = [server EXCEPT !.lexical = index],
               server.lexical = sidecar[v], server.pinned = v, sidecar[v] # None
        PROVE  ServerForm(server')
    <3>1. index # None /\ index.by = "outside" /\ index.by # "command"
      BY RetrievalAssumption
    <3>2. Complete(index, v)
      BY <3>1 DEF Complete
    <3> QED BY <1>0, <2>1, <3>1, <3>2 DEF ServerForm
  <2>2. ASSUME NEW v, NEW i, DamageChunk(v, i) PROVE server' = server
    BY <2>2 DEF DamageChunk
  <2>3. ASSUME NEW note, ChangeNote(note) PROVE server' = server
    BY <2>3 DEF ChangeNote
  <2>4. ASSUME NEW v \in Versions, NEW index \in Forged, DamageKeywords(v, index)
        PROVE  ServerForm(server')
    BY <2>1, <2>4, <1>1 DEF DamageKeywords
  <2> QED BY <1>1, <1>7, <2>2, <2>3, <2>4 DEF Harm
<1> QED
  <2>1. CASE Maintain \/ BuildKeywords
    BY <1>1, <2>1 DEF Maintain, BuildKeywords
  <2>2. CASE Serve
    <3>1. Pin \/ OpenPapers \/ OpenKeywords \/ Restart \/ Verify \/ server' = server
      BY <2>2 DEF Serve, Ask, Answering, SearchDense, SearchLexical, Fetch, RerankFails,
                  SearchNotes, GetNote, Receive
    <3> QED BY <3>1, <1>1, <1>2, <1>3, <1>4, <1>5, <1>6
  <2>3. CASE UNCHANGED vars
    BY <1>1, <2>3 DEF vars
  <2> QED BY <1>7, <2>1, <2>2, <2>3 DEF Next

-----------------------------------------------------------------------------
(* Proof of the invariant: the searches.                                   *)

(* The first stage returns chunks of the rankings, each once.              *)
LEMMA FirstHitsElements ==
  ASSUME NEW r, IsRequest(r), NEW dense \in Seq(Nat), IsInjective(dense), NEW lexical \in Seq(Nat)
  PROVE  /\ FirstHits(r, dense, lexical) \in Seq(Nat) /\ IsInjective(FirstHits(r, dense, lexical))
         /\ ToSet(FirstHits(r, dense, lexical)) \subseteq ToSet(dense) \cup ToSet(lexical)
<1> DEFINE found == IF Mode(r) = "dense" THEN dense ELSE Fused(dense, lexical)
<1>1. /\ found \in Seq(Nat) /\ IsInjective(found)
      /\ ToSet(found) \subseteq ToSet(dense) \cup ToSet(lexical)
  BY FusedElements
<1>2. FirstHits(r, dense, lexical) = Top(FirstStage(r), found)
  BY DEF FirstHits
<1> HIDE DEF found
<1> QED BY <1>1, <1>2, TopElements, DepthsAreNumbers

(* What is returned are hits, each once, and no more than were asked for.  *)
LEMMA ReturnedHits ==
  ASSUME NEW r, IsRequest(r), NEW hits \in Seq(Nat), IsInjective(hits),
         ToSet(hits) \subseteq ToSet(r.dense) \cup ToSet(r.lexical)
  PROVE  LET top == Top(r.n, Reranked(r, hits)) IN
         /\ top \in Seq(Nat) /\ IsInjective(top) /\ Len(top) <= r.n
         /\ ToSet(top) \subseteq ToSet(hits)
<1>1. \A i \in ToSet(hits) : r.score[i] \in Int
  BY DEF IsRequest
<1>2. /\ Reranked(r, hits) \in Seq(Nat) /\ IsInjective(Reranked(r, hits))
      /\ ToSet(Reranked(r, hits)) \subseteq ToSet(hits)
  BY <1>1, RerankedElements
<1>3. r.n \in Nat
  BY DepthsAreNumbers
<1>4. /\ Top(r.n, Reranked(r, hits)) \in Seq(Nat) /\ IsInjective(Top(r.n, Reranked(r, hits)))
      /\ ToSet(Top(r.n, Reranked(r, hits))) \subseteq ToSet(Reranked(r, hits))
      /\ Len(Top(r.n, Reranked(r, hits))) <= r.n
  BY <1>2, <1>3, TopElements
<1> QED BY <1>2, <1>4

(* While it has a request or a reply in hand, a server keeps what it has   *)
(* pinned, and its keyword index but for damage.                           *)
LEMMA WhileServing ==
  ASSUME ServerInv, WorkInv, [Next]_vars, request # None \/ reply # None
  PROVE  /\ server'.at = "ready" /\ server'.pinned = server.pinned
         /\ server'.lexical = None <=> server.lexical = None
         /\ server'.lexical = server.lexical \/ Harm
<1>0. /\ server.at = "ready"
      /\ server = [at |-> server.at, pinned |-> server.pinned,
                   lexical |-> server.lexical, pages |-> server.pages]
  BY DEF WorkInv, ServerInv
<1>1. CASE server' = server
  BY <1>0, <1>1
<1>2. CASE Verify
  <2>1. PICK pages : server' = [server EXCEPT !.pages = pages] \/ server' = server
    BY <1>2 DEF Verify
  <2> QED BY <1>0, <2>1
<1>3. CASE Harm
  <2> SUFFICES ASSUME server' # server
               PROVE  /\ server'.at = "ready" /\ server'.pinned = server.pinned
                      /\ server'.lexical # None /\ server.lexical # None
    BY <1>1, <1>3
  <2>1. ASSUME NEW v, NEW i, DamageChunk(v, i) PROVE server' = server
    BY <2>1 DEF DamageChunk
  <2>2. ASSUME NEW note, ChangeNote(note) PROVE server' = server
    BY <2>2 DEF ChangeNote
  <2>3. PICK v \in Versions, index \in Forged : DamageKeywords(v, index)
    BY <1>3, <2>1, <2>2 DEF Harm
  <2>4. /\ server.lexical = sidecar[v] /\ sidecar[v] # None
        /\ server' = [server EXCEPT !.lexical = index]
    BY <2>3 DEF DamageKeywords
  <2>5. index # None
    BY RetrievalAssumption
  <2> QED BY <1>0, <2>4, <2>5
<1> QED
  <2>1. CASE Maintain \/ BuildKeywords
    BY <1>1, <2>1 DEF Maintain, BuildKeywords
  <2>2. CASE Serve
    <3>1. Verify \/ server' = server
      BY <1>0, <2>2 DEF Serve, Pin, OpenPapers, OpenKeywords, Restart,
                        Ask, Answering, SearchDense, SearchLexical, Fetch, RerankFails,
                        SearchNotes, GetNote, Receive
    <3> QED BY <3>1, <1>1, <1>2
  <2>3. CASE UNCHANGED vars
    BY <1>1, <2>3 DEF vars
  <2> QED BY <1>3, <2>1, <2>2, <2>3 DEF Next

(* A search in hand has these fields.                                      *)
WorkForm(w) == w = [at |-> w.at, hits |-> w.hits, rows |-> w.rows, requested |-> w.requested]

(* What is asked is a request.                                             *)
LEMMA AskedIsRequest ==
  ASSUME WorkInv, NEW r \in Questions[world.asked]
  PROVE  IsRequest(r)
BY RetrievalAssumption DEF WorkInv

(* A request starts a search of its kind.                                  *)
LEMMA AskStarts ==
  ASSUME WorkInv, ServerInv, server.at = "ready", reply = None,
         NEW r \in Questions[world.asked], Ask(r), world' = world
  PROVE  WorkInv'
<1>1. IsRequest(r) /\ r.kind \in {"papers", "notes", "note"} /\ r.n \in Nat /\ r.count \in Nat
  BY AskedIsRequest DEF IsRequest
<1>2. CASE Refused(r, 503) \/ Refused(r, 409)
  BY <1>2 DEF Refused, Ask, WorkInv, Searching, Listing
<1>3. CASE /\ request' = r /\ reply' = reply /\ server' = server
           /\ r.kind = "papers" => server.pinned # None
           /\ work' = [at |-> IF r.kind # "papers" THEN r.kind
                              ELSE IF Mode(r) = "lexical" THEN "lexical" ELSE "dense",
                       hits |-> <<>>, rows |-> <<>>,
                       requested |-> IF r.kind = "notes" THEN Min({r.count, r.n}) ELSE 0]
  <2>1. WorkForm(work')
    BY <1>3 DEF WorkForm
  <2>2. CASE r.kind = "papers"
    <3>1. work'.at \in {"dense", "lexical"} /\ work'.hits = <<>>
      BY <1>3, <2>2
    <3>2. <<>> \in Seq(Nat) /\ IsInjective(<<>>) /\ ToSet(<<>>) = {}
      BY DEF IsInjective, ToSet
    <3>3. Searching'
      BY <1>3, <2>2, <3>1, <3>2 DEF Searching, ServerInv
    <3> QED BY <1>1, <1>3, <2>1, <2>2, <3>3 DEF WorkInv, WorkForm
  <2>3. CASE r.kind = "notes"
    <3>1. work'.at = "notes" /\ work'.requested = Min({r.count, r.n})
      BY <1>3, <2>3
    <3>2. Listing'
      BY <1>1, <1>3, <3>1, MinMax DEF Listing
    <3> QED BY <1>1, <1>3, <2>1, <2>3, <3>2 DEF WorkInv, WorkForm
  <2>4. CASE r.kind = "note"
    <3>1. work'.at = "note"
      BY <1>3, <2>4
    <3> QED BY <1>1, <1>3, <2>1, <2>4, <3>1 DEF WorkInv, WorkForm
  <2> QED BY <1>1, <2>2, <2>3, <2>4
<1> QED BY <1>2, <1>3 DEF Ask, Others

(* What is in hand when a step of a search leaves it in hand.              *)
LEMMA StillSearching ==
  ASSUME WorkInv, request # None, UNCHANGED <<world, reply, request>>, server'.at = "ready",
         server'.pinned = server.pinned, WorkForm(work'),
         request.kind = "papers" => Searching', request.kind = "notes" => Listing',
         request.kind = "note" => work'.at = "note"
  PROVE  WorkInv'
BY DEF WorkInv, WorkForm

(* The next prefix of the sections is longer.                              *)
LEMMA MoreGrows ==
  ASSUME NEW n \in Nat, NEW count \in Nat, n < count
  PROVE  More(n, count) \in Nat /\ More(n, count) > n
<1> DEFINE a == n + 1
           b == 2 * n
           m == Max({a, b})
<1>1. a \in Int /\ b \in Int /\ a > n /\ a \in Nat
  OBVIOUS
<1> HIDE DEF a, b
<1>2. m \in Int /\ m >= a
  <2>1. m = IF a <= b THEN b ELSE a
    BY <1>1, MinMax
  <2> HIDE DEF m
  <2> QED BY <1>1, <2>1
<1> HIDE DEF m
<1>3. Min({count, m}) = IF count <= m THEN count ELSE m
  BY <1>2, MinMax
<1> QED BY <1>1, <1>2, <1>3 DEF More, m, a, b

(* A step of a search that is not its last is one of its kind.             *)
LEMMA SearchesGoOn ==
  ASSUME ServerInv, WorkInv, [Next]_vars, request # None,
         SearchDense \/ SearchLexical \/ Fetch \/ Verify \/ SearchNotes, request' # None
  PROVE  WorkInv'
<1> DEFINE r == request
<1>0. /\ IsRequest(r) /\ WorkForm(work) /\ server'.at = "ready" /\ server'.pinned = server.pinned
      /\ r.dense \in Seq(Nat) /\ IsInjective(r.dense) /\ r.lexical \in Seq(Nat)
  BY WhileServing DEF WorkInv, WorkForm, IsRequest
<1>1. world' = world /\ reply' = reply /\ request' = request
  BY DEF SearchDense, SearchLexical, Fetch, Verify, SearchNotes, Answered, Others
<1>2. CASE SearchDense
  <2>1. r.kind = "papers" /\ Searching /\ work.at = "dense"
    BY <1>2 DEF SearchDense, WorkInv, Searching, Listing
  <2> DEFINE found == Ranking(r.dense, Stored, r)
  <2>2. /\ work' = [work EXCEPT !.hits = found, !.rows = [i \in ToSet(found) |-> Stored[i]],
                      !.at = IF Mode(r) = "dense" THEN "verify" ELSE "lexical"]
    BY <1>2 DEF SearchDense, Answered
  <2>3. /\ found \in Seq(Nat) /\ IsInjective(found)
        /\ \A i \in ToSet(found) : i \in ToSet(r.dense) /\ Matches(Stored[i], r.filter)
    BY <1>0, RankingElements
  <2> HIDE DEF found
  <2>4. /\ work'.at \in {"verify", "lexical"} /\ work'.hits = found
        /\ work'.rows = [i \in ToSet(found) |-> Stored[i]] /\ WorkForm(work')
    BY <1>0, <2>2 DEF WorkForm
  <2>5. \A i \in ToSet(found) : Matches(work'.rows[i], r.filter)
    BY <2>3, <2>4
  <2>6. Searching'
    BY <1>0, <1>1, <2>1, <2>3, <2>4, <2>5 DEF Searching, Matches
  <2> QED BY <1>0, <1>1, <2>1, <2>4, <2>6, StillSearching
<1>3. CASE SearchLexical
  <2>1. r.kind = "papers" /\ Searching /\ work.at = "lexical"
    BY <1>3 DEF SearchLexical, WorkInv, Searching, Listing
  <2> DEFINE found == Ranking(r.lexical, server.lexical.rows, r)
             hits == FirstHits(r, work.hits, found)
  <2>2. work' = [work EXCEPT !.hits = hits, !.at = "fetch"]
    BY <1>3 DEF SearchLexical
  <2>3. found \in Seq(Nat) /\ \A i \in ToSet(found) : i \in ToSet(r.lexical)
    BY <1>0, RankingElements
  <2>4. /\ hits \in Seq(Nat) /\ IsInjective(hits)
        /\ ToSet(hits) \subseteq ToSet(work.hits) \cup ToSet(found)
    <3> HIDE DEF found
    <3> QED BY <1>0, <2>1, <2>3, FirstHitsElements DEF Searching
  <2> HIDE DEF found, hits
  <2>5. work'.at = "fetch" /\ work'.hits = hits /\ WorkForm(work')
    BY <1>0, <2>2 DEF WorkForm
  <2>6. Searching'
    BY <1>0, <1>1, <2>1, <2>3, <2>4, <2>5 DEF Searching
  <2> QED BY <1>0, <1>1, <2>1, <2>5, <2>6, StillSearching
<1>4. CASE Fetch
  <2>1. r.kind = "papers" /\ Searching /\ work.at = "fetch"
    BY <1>4 DEF Fetch, WorkInv, Searching, Listing
  <2> DEFINE hits == ToSet(work.hits)
             rows == [i \in hits |->
                        IF i \in hits \ DOMAIN work.rows THEN Stored[i] ELSE work.rows[i]]
  <2>2. work' = [work EXCEPT !.rows = rows, !.at = "verify"] /\ AllMatch(rows, r.filter)
    BY <1>4 DEF Fetch, Answered
  <2>3. DOMAIN rows = hits
    OBVIOUS
  <2> HIDE DEF rows
  <2>4. work'.at = "verify" /\ work'.hits = work.hits /\ work'.rows = rows /\ WorkForm(work')
    BY <1>0, <2>2 DEF WorkForm
  <2>5. \A i \in ToSet(work.hits) : Matches(work'.rows[i], r.filter)
    BY <2>2, <2>3, <2>4 DEF AllMatch
  <2>6. Searching'
    BY <1>0, <1>1, <2>1, <2>4, <2>5 DEF Searching, Matches
  <2> QED BY <1>0, <1>1, <2>1, <2>4, <2>6, StillSearching
<1>5. CASE Verify
  <2>1. FALSE
    BY <1>5 DEF Verify, Answered
  <2> QED BY <2>1
<1>6. CASE SearchNotes
  <2>1. r.kind = "notes" /\ Listing /\ work.at = "notes"
    BY <1>6 DEF SearchNotes, WorkInv, Searching, Listing
  <2>2. /\ work' = [work EXCEPT !.requested = More(@, r.count)]
        /\ work.requested < r.count
    BY <1>0, <1>6, <2>1 DEF SearchNotes, Answered, Listing, IsRequest
  <2>3. /\ work'.at = "notes" /\ work'.requested = More(work.requested, r.count) /\ WorkForm(work')
    BY <1>0, <2>1, <2>2 DEF WorkForm
  <2>4. work.requested \in Nat /\ r.count \in Nat /\ r.n \in Nat
    BY <1>0, <2>1 DEF Listing, IsRequest
  <2>5. /\ More(work.requested, r.count) \in Nat
        /\ More(work.requested, r.count) > work.requested
    BY <2>2, <2>4, MoreGrows
  <2>6. Listing'
    BY <1>1, <2>1, <2>3, <2>4, <2>5 DEF Listing
  <2> QED BY <1>0, <1>1, <2>1, <2>3, <2>6, StillSearching
<1> QED BY <1>2, <1>3, <1>4, <1>5, <1>6

(* Every step keeps WorkInv.                                               *)
LEMMA WorkNext == RetrievalInv /\ [Next]_vars => WorkInv'
<1> SUFFICES ASSUME StoreInv, ServerInv, WorkInv, [Next]_vars PROVE WorkInv'
  BY DEF RetrievalInv
<1>1. ASSUME UNCHANGED <<world, request, work, reply>> PROVE WorkInv'
  <2>1. request # None \/ reply # None => server'.at = "ready" /\ server'.pinned = server.pinned
    BY WhileServing
  <2> QED BY <1>1, <2>1 DEF WorkInv, Searching, Listing, Matches
<1>2. CASE Maintain \/ BuildKeywords \/ Harm \/ UNCHANGED vars
  BY <1>1, <1>2 DEF Maintain, BuildKeywords, Harm, vars
<1>3. CASE Pin \/ OpenPapers \/ OpenKeywords \/ Restart
  BY <1>1, <1>3 DEF Pin, OpenPapers, OpenKeywords, Restart, Serving
<1>4. ASSUME server.at = "ready", request = None, reply = None,
             NEW r \in Questions[world.asked], Ask(r)
      PROVE  WorkInv'
  BY <1>4, AskStarts DEF Ask, Others
<1>5. CASE Answering
  <2>1. request # None /\ server'.at = "ready" /\ world' = world
    BY <1>5, WhileServing DEF Answering, Others, SearchDense, SearchLexical, Fetch, RerankFails,
                              Verify, SearchNotes, GetNote
  <2>2. CASE request' = None
    BY <2>1, <2>2 DEF WorkInv
  <2>3. CASE request' # None
    <3>1. SearchDense \/ SearchLexical \/ Fetch \/ Verify \/ SearchNotes
      BY <1>5, <2>3 DEF Answering, RerankFails, GetNote, Answered
    <3> QED BY <2>1, <2>3, <3>1, SearchesGoOn
  <2> QED BY <2>2, <2>3
<1>6. CASE Receive
  <2>1. /\ UNCHANGED <<world, request, work, server>> /\ reply' = None
    BY <1>6 DEF Receive, Others
  <2> QED BY <2>1 DEF WorkInv, Searching, Listing, Matches
<1> QED BY <1>2, <1>3, <1>4, <1>5, <1>6 DEF Next, Serve

(* The invariant holds in the beginning.                                   *)
LEMMA RetrievalStart == Init => RetrievalInv
<1> SUFFICES ASSUME Init PROVE RetrievalInv
  OBVIOUS
<1>1. StoreInv
  BY DEF Init, StoreInv
<1>2. ToolInv
  BY DEF Init, ToolInv, Idle
<1>3. ServerInv
  BY PinnedFits, ServerFormIsInv DEF Init
<1>4. WorkInv
  BY DEF Init, WorkInv
<1> QED BY <1>1, <1>2, <1>3, <1>4 DEF RetrievalInv

(* In every reachable state what is stored of a generation is part of it,  *)
(* a keyword index is complete, and a search in hand has a ready server.   *)
THEOREM RetrievalInvariance == Spec => []RetrievalInv
<1>1. RetrievalInv /\ [Next]_vars => RetrievalInv'
  BY StoreNext, ToolNext, ServerNext, WorkNext DEF RetrievalInv
<1> QED BY <1>1, RetrievalStart, PTL DEF Spec

(* A keyword index that a command reported, or a server has opened, holds  *)
(* its whole generation as it was built (KeywordsWhole): for every number  *)
(* of commands, and whatever is published, pruned or lost while they read. *)
THEOREM KeywordIndexIsWhole == Spec => []KeywordsWhole
<1>1. RetrievalInv => KeywordsWhole
  BY RetrievalAssumption DEF RetrievalInv, StoreInv, ServerInv, KeywordsWhole
<1> QED BY <1>1, RetrievalInvariance, PTL

-----------------------------------------------------------------------------
(* What is returned.                                                       *)

(* The verification of a hit compares it with what was built.              *)
LEMMA VerifiedAnswer ==
  ASSUME ServerInv, WorkInv, request # None, Verify, reply' # None, reply'.status = 200
  PROVE  /\ server'.pinned = server.pinned /\ reply'.to = request /\ request.kind = "papers"
         /\ LET hits == Top(request.n, Reranked(request, work.hits))
                own == Content[server.pinned] IN
            /\ hits \in Seq(Nat) /\ IsInjective(hits) /\ Len(hits) <= request.n
            /\ reply'.hits = [k \in DOMAIN hits |-> [id |-> hits[k], row |-> work.rows[hits[k]]]]
            /\ \A k \in DOMAIN hits :
                 /\ hits[k] \in DOMAIN own /\ work.rows[hits[k]] = own[hits[k]]
                 /\ Matches(own[hits[k]], request.filter)
<1> DEFINE hits == Top(request.n, Reranked(request, work.hits))
           own == Content[server.pinned]
<1>1. request.kind = "papers" /\ Searching /\ work.at = "verify" /\ IsRequest(request)
  BY DEF Verify, WorkInv, Searching, Listing
<1>2. /\ hits \in Seq(Nat) /\ IsInjective(hits) /\ Len(hits) <= request.n
      /\ ToSet(hits) \subseteq ToSet(work.hits)
  BY <1>1, ReturnedHits DEF Searching
<1>3. /\ \A k \in DOMAIN hits : Verified(server.pinned, hits[k], work.rows[hits[k]])
      /\ server' = [server EXCEPT !.pages = @ \/ hits # <<>>]
      /\ reply' = [status |-> 200, to |-> request,
                   hits |-> [k \in DOMAIN hits |-> [id |-> hits[k], row |-> work.rows[hits[k]]]]]
  BY DEF Verify, Answered
<1> HIDE DEF hits
<1>4. \A k \in DOMAIN hits : hits[k] \in ToSet(work.hits)
  <2>1. \A k \in DOMAIN hits : hits[k] \in ToSet(hits)
    BY DEF ToSet
  <2> QED BY <1>2, <2>1
<1>5. \A k \in DOMAIN hits : Matches(work.rows[hits[k]], request.filter)
  BY <1>1, <1>4 DEF Searching
<1>6. server'.pinned = server.pinned
  BY <1>3 DEF ServerInv
<1>7. reply'.to = request
      /\ reply'.hits = [k \in DOMAIN hits |-> [id |-> hits[k], row |-> work.rows[hits[k]]]]
  BY <1>3
<1>8. \A k \in DOMAIN hits :
        /\ hits[k] \in DOMAIN own /\ work.rows[hits[k]] = own[hits[k]]
        /\ Matches(own[hits[k]], request.filter)
  BY <1>3, <1>5 DEF Verified
<1> QED BY <1>1, <1>2, <1>6, <1>7, <1>8 DEF hits

(* Where a reply comes from: it is the one there was, or a search has just *)
(* ended with it.                                                          *)
LEMMA WhereRepliesComeFrom ==
  ASSUME [Next]_vars, reply' # None, reply'.status = 200, reply' # reply
  PROVE  request # None /\ (Verify \/ SearchNotes \/ GetNote)
<1>1. CASE Maintain \/ BuildKeywords \/ Harm \/ UNCHANGED vars
  BY <1>1 DEF Maintain, BuildKeywords, Harm, vars
<1>2. CASE Pin \/ OpenPapers \/ OpenKeywords \/ Restart \/ Receive
  BY <1>2 DEF Pin, OpenPapers, OpenKeywords, Restart, Serving, Receive
<1>3. ASSUME NEW r, Ask(r) PROVE FALSE
  <2>1. reply' = reply \/ reply'.status \in {503, 409}
    BY <1>3 DEF Ask, Refused
  <2> QED BY <2>1
<1>4. CASE Answering
  <2>1. CASE SearchDense \/ SearchLexical \/ Fetch \/ RerankFails
    <3>1. reply' = reply \/ reply'.status \in {500, 409}
      BY <2>1 DEF SearchDense, SearchLexical, Fetch, RerankFails, Answered
    <3> QED BY <3>1
  <2> QED BY <1>4, <2>1 DEF Answering
<1> QED BY <1>1, <1>2, <1>3, <1>4 DEF Next, Serve

(* No step returns anything else.                                          *)
LEMMA PinnedNext == RetrievalInv /\ AnswersPinned /\ [Next]_vars => AnswersPinned'
<1> SUFFICES ASSUME StoreInv, ServerInv, WorkInv, AnswersPinned, [Next]_vars,
                    reply' # None, reply'.status = 200, reply'.to.kind = "papers"
             PROVE  LET own == Content[server'.pinned]
                    IN /\ Len(reply'.hits) <= reply'.to.n
                       /\ \A j, k \in DOMAIN reply'.hits :
                            reply'.hits[j].id = reply'.hits[k].id => j = k
                       /\ \A hit \in ToSet(reply'.hits) :
                            /\ hit.id \in DOMAIN own /\ hit.row = own[hit.id]
                            /\ Matches(own[hit.id], reply'.to.filter)
  BY DEF RetrievalInv, AnswersPinned, Matches
<1>1. CASE reply' = reply
  <2>1. server'.pinned = server.pinned
    BY <1>1, WhileServing
  <2> QED BY <1>1, <2>1 DEF AnswersPinned
<1>2. CASE reply' # reply
  <2>1. request # None /\ (Verify \/ SearchNotes \/ GetNote)
    BY <1>2, WhereRepliesComeFrom
  <2>2. CASE Verify
    <3> DEFINE hits == Top(request.n, Reranked(request, work.hits))
               own == Content[server.pinned]
    <3>1. /\ server'.pinned = server.pinned /\ reply'.to = request
          /\ hits \in Seq(Nat) /\ IsInjective(hits) /\ Len(hits) <= request.n
          /\ reply'.hits = [k \in DOMAIN hits |-> [id |-> hits[k], row |-> work.rows[hits[k]]]]
          /\ \A k \in DOMAIN hits :
               /\ hits[k] \in DOMAIN own /\ work.rows[hits[k]] = own[hits[k]]
               /\ Matches(own[hits[k]], request.filter)
      BY <2>1, <2>2, VerifiedAnswer
    <3> HIDE DEF hits
    <3>2. DOMAIN hits = 1..Len(hits) /\ Len(hits) \in Nat /\ Len(reply'.hits) = Len(hits)
      BY <3>1
    <3>3. \A j, k \in DOMAIN hits : hits[j] = hits[k] => j = k
      BY <3>1 DEF IsInjective
    <3> QED BY <3>1, <3>2, <3>3 DEF ToSet
  <2>3. CASE SearchNotes \/ GetNote
    <3>1. request.kind # "papers"
      <4>1. work.at \in {"notes", "note"}
        BY <2>3 DEF SearchNotes, GetNote
      <4> QED BY <2>1, <4>1 DEF WorkInv, Searching
    <3>2. reply'.to = request
      <4>1. CASE SearchNotes
        <5>1. reply'.to = request \/ reply' = reply
          BY <4>1 DEF SearchNotes, Answered
        <5> QED BY <1>2, <5>1
      <4>2. CASE GetNote
        BY <4>2 DEF GetNote, Answered
      <4> QED BY <2>3, <4>1, <4>2
    <3> QED BY <3>1, <3>2
  <2> QED BY <2>1, <2>2, <2>3
<1> QED BY <1>1, <1>2

(* What a search returns is of the generation that the server pinned, as   *)
(* it was built, once, and within the filters of the request               *)
(* (AnswersPinned): for every content of the stores, every ranking, and    *)
(* any number of damaged chunks and keyword indexes.                       *)
THEOREM AnswersComeFromThePin == Spec => []AnswersPinned
<1>1. Init => AnswersPinned
  BY DEF Init, AnswersPinned
<1> QED BY <1>1, PinnedNext, RetrievalInvariance, PTL DEF Spec

-----------------------------------------------------------------------------
(* The beginning of what others get.                                       *)

(* What a search does, as of the keyword index and the generation it is    *)
(* asked of: its mode, its rankings, its first stage and its answer.       *)
ModeOf(index, r) == IF r.mode # "auto" THEN r.mode ELSE IF index # None THEN "hybrid" ELSE "dense"
RankingOf(index, ids, rows, r) ==
  Top(IF ModeOf(index, r) = "dense" THEN FirstStage(r) ELSE PoolDepth(r),
      Kept(ids, {k \in DOMAIN ids : ids[k] \in DOMAIN rows /\ Matches(rows[ids[k]], r.filter)}))
DenseOf(index, v, r) ==
  IF ModeOf(index, r) = "lexical" THEN <<>> ELSE RankingOf(index, r.dense, Content[v], r)
LexicalOf(index, r) ==
  IF ModeOf(index, r) = "dense" THEN <<>> ELSE RankingOf(index, r.lexical, index.rows, r)
FirstOf(index, v, r) ==
  Top(FirstStage(r), IF ModeOf(index, r) = "dense" THEN DenseOf(index, v, r)
                     ELSE Fused(DenseOf(index, v, r), LexicalOf(index, r)))
AnswerOf(index, v, r) == Top(r.n, Reranked(r, FirstOf(index, v, r)))
LimitOf(index, r) ==
  IF r.rerank THEN RerankCandidates
  ELSE IF ModeOf(index, r) = "dense" THEN r.n ELSE HybridCandidates

(* What TopStable says of a reply, of a server with a keyword index and a  *)
(* generation.                                                             *)
TopOf(answer, count, index, v) ==
  answer # None /\ answer.status = 200 =>
    LET r == answer.to
        ids == [k \in DOMAIN answer.hits |-> answer.hits[k].id]
    IN /\ r.kind = "papers" /\ count = 0 /\ r.n <= LimitOf(index, r) =>
            ids = Top(r.n, AnswerOf(index, v, [r EXCEPT !.n = LimitOf(index, r)]))
       /\ r.kind = "notes" =>
            answer.hits = Top(r.n, IF r.dedupe THEN Distinct(r.sections) ELSE r.sections)
       /\ r.kind = "note" => ToSet(answer.hits) = ToSet(r.sections)

(* TopStable is this, of the server now and after a step.                  *)
LEMMA TopIsTopOf ==
  /\ TopStable <=> TopOf(reply, faults, server.lexical, server.pinned)
  /\ TopStable' <=> TopOf(reply', faults', server'.lexical, server'.pinned)
<1>1. TopStable <=> TopOf(reply, faults, server.lexical, server.pinned)
  BY DEF TopStable, TopOf, Answer, AnswerOf, PoolLimit, LimitOf, Mode, ModeOf, Ranking, RankingOf,
         Depth, FirstHits, FirstOf, DenseOf, LexicalOf
<1>2. TopStable' <=> TopOf(reply', faults', server'.lexical, server'.pinned)
  BY DEF TopStable, TopOf, Answer, AnswerOf, PoolLimit, LimitOf, Mode, ModeOf, Ranking, RankingOf,
         Depth, FirstHits, FirstOf, DenseOf, LexicalOf
<1> QED BY <1>1, <1>2

(* What a search sees of the server is what these say of its index.        *)
LEMMA Views ==
  ASSUME NEW r
  PROVE  /\ Mode(r) = ModeOf(server.lexical, r)
         /\ \A ids, rows : Ranking(ids, rows, r) = RankingOf(server.lexical, ids, rows, r)
         /\ FirstHits(r, DenseOf(server.lexical, server.pinned, r), LexicalOf(server.lexical, r))
              = FirstOf(server.lexical, server.pinned, r)
<1>1. Mode(r) = ModeOf(server.lexical, r)
  BY DEF Mode, ModeOf
<1>2. ASSUME NEW ids, NEW rows
      PROVE  Ranking(ids, rows, r) = RankingOf(server.lexical, ids, rows, r)
  BY DEF Mode, ModeOf, Ranking, RankingOf, Depth
<1>3. FirstHits(r, DenseOf(server.lexical, server.pinned, r), LexicalOf(server.lexical, r))
        = FirstOf(server.lexical, server.pinned, r)
  BY <1>1 DEF FirstHits, FirstOf
<1> QED BY <1>1, <1>2, <1>3

(* With nothing damaged, what is stored is what was built, and the hits in *)
(* hand are those that the answer is made of.                              *)
PaperHits ==
  /\ work.at = "dense" => ModeOf(server.lexical, request) # "lexical"
  /\ work.at = "lexical" =>
       /\ ModeOf(server.lexical, request) # "dense"
       /\ work.hits = DenseOf(server.lexical, server.pinned, request)
  /\ work.at \in {"fetch", "verify"} =>
       work.hits = FirstOf(server.lexical, server.pinned, request)

(* With nothing damaged, stores are whole and a search has what it should. *)
TopInv ==
  /\ faults \in Nat
  /\ faults = 0 =>
       /\ \A v \in Versions : collection[v] \in {None, Content[v]}
       /\ request # None /\ request.kind = "papers" => PaperHits

(* Only damage counts as such.                                             *)
LEMMA FaultsCount ==
  ASSUME faults \in Nat, [Next]_vars
  PROVE  faults' \in Nat /\ (faults' = 0 => faults = 0 /\ ~Harm)
<1>1. CASE Harm
  BY <1>1 DEF Harm
<1>2. CASE ~Harm
  <2>1. faults' = faults
    BY <1>2 DEF Next, Maintain, BuildKeywords, Serve, Pin, OpenPapers, OpenKeywords, Restart,
                Serving, Ask, Answering, SearchDense, SearchLexical, Fetch, RerankFails,
                Verify, SearchNotes, GetNote, Receive, Others, vars
  <2> QED BY <1>2, <2>1
<1> QED BY <1>1, <1>2

(* Without damage what is stored of a generation is all of it, or nothing. *)
LEMMA UndamagedStore ==
  ASSUME StoreInv, \A v \in Versions : collection[v] \in {None, Content[v]}, [Next]_vars, ~Harm
  PROVE  \A v \in Versions : collection'[v] \in {None, Content[v]}
<1>1. CASE collection' = collection
  BY <1>1
<1>2. CASE Maintain
  BY <1>2 DEF Maintain, RollBack, PublishGeneration, PruneCollection, PruneFiles, StoreInv, store
<1>3. CASE BuildKeywords
  BY <1>1, <1>3 DEF BuildKeywords, ReadActive, OpenIndex, ReadRows, SaveSidecar, ToolFails, Goes
<1>4. CASE Serve
  BY <1>1, <1>4, ZenonT(30) DEF Serve, Pin, OpenPapers, OpenKeywords, Restart, Serving, Ask, Answering,
                    SearchDense, SearchLexical, Fetch, RerankFails, Verify, SearchNotes, GetNote,
                    Receive, Others, store
<1>5. CASE UNCHANGED vars
  BY <1>1, <1>5 DEF vars, store
<1> QED BY <1>2, <1>3, <1>4, <1>5 DEF Next

(* In dense mode the first stage takes all that the embedding ranked.      *)
LEMMA DenseIsFirst ==
  ASSUME NEW r, IsRequest(r), Mode(r) = "dense"
  PROVE  FirstOf(server.lexical, server.pinned, r) = Ranking(r.dense, Content[server.pinned], r)
<1> DEFINE ids == r.dense
           rows == Content[server.pinned]
           found == Ranking(ids, rows, r)
<1>1. DenseOf(server.lexical, server.pinned, r) = found
  BY Views DEF DenseOf
<1>2. FirstOf(server.lexical, server.pinned, r) = Top(FirstStage(r), found)
  BY <1>1, Views DEF FirstOf
<1>3. found \in Seq(Nat)
  BY RankingElements DEF IsRequest
<1>4. Len(found) <= FirstStage(r)
  <2> DEFINE places == {k \in DOMAIN ids :
                          ids[k] \in DOMAIN rows /\ Matches(rows[ids[k]], r.filter)}
  <2>1. found = Top(FirstStage(r), Kept(ids, places))
    BY DEF Ranking, Depth
  <2>2. ids \in Seq(Nat) /\ places \in SUBSET (DOMAIN ids)
    BY DEF IsRequest
  <2> HIDE DEF places
  <2>3. Kept(ids, places) \in Seq(Nat)
    BY <2>2, KeptElements
  <2>4. FirstStage(r) \in Nat
    BY DepthsAreNumbers
  <2> QED BY <2>1, <2>3, <2>4, TopElements
<1>5. Top(FirstStage(r), found) = found
  BY <1>3, <1>4, TopElements, DepthsAreNumbers
<1> QED BY <1>2, <1>5

(* Every step keeps TopInv.                                                *)
LEMMA TopNext == RetrievalInv /\ TopInv /\ [Next]_vars => TopInv'
<1> SUFFICES ASSUME StoreInv, ServerInv, WorkInv, TopInv, [Next]_vars, faults' = 0
             PROVE  /\ \A v \in Versions : collection'[v] \in {None, Content[v]}
                    /\ request' # None /\ request'.kind = "papers" => PaperHits'
  BY FaultsCount DEF TopInv, RetrievalInv
<1>0. faults = 0 /\ ~Harm
  BY FaultsCount DEF TopInv
<1>1. \A v \in Versions : collection'[v] \in {None, Content[v]}
  BY <1>0, UndamagedStore DEF TopInv
<1> SUFFICES ASSUME request' # None, request'.kind = "papers" PROVE PaperHits'
  BY <1>1
<1>2. request # None => /\ server'.lexical = server.lexical /\ server'.pinned = server.pinned
                        /\ request.kind = "papers" => PaperHits /\ IsRequest(request) /\ Searching
  BY <1>0, WhileServing DEF TopInv, WorkInv
<1>3. CASE UNCHANGED <<request, work>>
  BY <1>2, <1>3 DEF PaperHits
<1>4. ASSUME NEW r, request' = r, server' = server, Mode(r) \in {"lexical", "dense", "hybrid"},
             work'.at = IF r.kind # "papers" THEN r.kind
                        ELSE IF Mode(r) = "lexical" THEN "lexical" ELSE "dense",
             work'.hits = <<>>
      PROVE  PaperHits'
  <2>1. work'.at = IF Mode(r) = "lexical" THEN "lexical" ELSE "dense"
    BY <1>4
  <2>2. ModeOf(server.lexical, r) = Mode(r)
    BY Views
  <2> QED BY <1>4, <2>1, <2>2 DEF PaperHits, DenseOf
<1>5. CASE request # None /\ SearchDense
  <2>1. request' = request /\ Stored # None
    BY <1>5 DEF SearchDense, Answered
  <2>2. work.at = "dense" /\ PaperHits /\ IsRequest(request) /\ Searching
    BY <1>2, <1>5, <2>1 DEF SearchDense
  <2>3. Stored = Content[server.pinned]
    BY <1>0, <2>1, <2>2 DEF TopInv, Stored, Searching
  <2> DEFINE found == Ranking(request.dense, Content[server.pinned], request)
             rows == [i \in ToSet(found) |-> Stored[i]]
  <2>4. work' = [work EXCEPT !.hits = found, !.rows = rows,
                   !.at = IF Mode(request) = "dense" THEN "verify" ELSE "lexical"]
    BY <1>5, <2>1, <2>3 DEF SearchDense, Answered
  <2>5. Mode(request) # "lexical"
    BY <2>2, Views DEF PaperHits
  <2>6. DenseOf(server.lexical, server.pinned, request) = found
    BY <2>5, Views DEF DenseOf
  <2>7. Mode(request) = "dense" => FirstOf(server.lexical, server.pinned, request) = found
    BY <2>2, DenseIsFirst
  <2> HIDE DEF found, rows
  <2>8. /\ work'.hits = found
        /\ work'.at = IF Mode(request) = "dense" THEN "verify" ELSE "lexical"
    BY <1>5, <2>4 DEF WorkInv
  <2> QED BY <1>2, <1>5, <2>1, <2>6, <2>7, <2>8, Views DEF PaperHits
<1>6. CASE request # None /\ SearchLexical
  <2>1. request' = request
    BY <1>6 DEF SearchLexical
  <2>2. work.at = "lexical" /\ PaperHits /\ IsRequest(request)
    BY <1>2, <1>6, <2>1 DEF SearchLexical
  <2> DEFINE hits == FirstHits(request, work.hits,
                               Ranking(request.lexical, server.lexical.rows, request))
  <2>3. work' = [work EXCEPT !.hits = hits, !.at = "fetch"]
    BY <1>6 DEF SearchLexical
  <2>4. Mode(request) # "dense" /\ work.hits = DenseOf(server.lexical, server.pinned, request)
    BY <2>2, Views DEF PaperHits
  <2>5. Ranking(request.lexical, server.lexical.rows, request) = LexicalOf(server.lexical, request)
    BY <2>4, Views DEF LexicalOf
  <2>6. hits = FirstOf(server.lexical, server.pinned, request)
    BY <2>4, <2>5, Views
  <2> HIDE DEF hits
  <2>7. work'.hits = hits /\ work'.at = "fetch"
    BY <1>6, <2>3 DEF WorkInv
  <2> QED BY <1>2, <1>6, <2>1, <2>6, <2>7 DEF PaperHits
<1>7. CASE request # None /\ Fetch
  <2>1. request' = request /\ work.at = "fetch" /\ PaperHits
    BY <1>2, <1>7 DEF Fetch, Answered
  <2>2. PICK rows : work' = [work EXCEPT !.rows = rows, !.at = "verify"]
    BY <1>7, <2>1 DEF Fetch, Answered
  <2>3. work'.hits = work.hits /\ work'.at = "verify"
    BY <1>7, <2>2 DEF WorkInv
  <2> QED BY <1>2, <1>7, <2>1, <2>3 DEF PaperHits
<1>8. CASE request # None /\ SearchNotes
  <2>1. work.at = "notes" /\ request' = request
    BY <1>8 DEF SearchNotes, Answered
  <2> QED BY <1>2, <1>8, <2>1 DEF Searching
<1> QED
  <2>1. CASE Maintain \/ BuildKeywords \/ UNCHANGED vars
    BY <1>3, <2>1 DEF Maintain, BuildKeywords, vars
  <2>2. CASE Pin \/ OpenPapers \/ OpenKeywords \/ Restart \/ Receive
    BY <1>3, <2>2 DEF Pin, OpenPapers, OpenKeywords, Restart, Serving, Receive
  <2>3. ASSUME server.at = "ready", request = None, NEW r \in Questions[world.asked], Ask(r)
        PROVE  PaperHits'
    <3>1. IsRequest(r) /\ Mode(r) \in {"lexical", "dense", "hybrid"}
      BY AskedIsRequest DEF IsRequest, Mode
    <3>2. request' = request \/ request' = r
      BY <2>3 DEF Ask, Refused
    <3>3. request' = r /\ server' = server
      BY <2>3, <3>2 DEF Ask
    <3>4. /\ work'.at = IF r.kind # "papers" THEN r.kind
                        ELSE IF Mode(r) = "lexical" THEN "lexical" ELSE "dense"
          /\ work'.hits = <<>>
      BY <2>3, <3>3 DEF Ask, Refused
    <3> QED BY <1>4, <3>1, <3>3, <3>4
  <2>4. CASE Answering
    <3>1. CASE RerankFails \/ Verify \/ GetNote
      BY <3>1 DEF RerankFails, Verify, GetNote, Answered
    <3> QED BY <2>4, <3>1, <1>5, <1>6, <1>7, <1>8 DEF Answering
  <2> QED BY <1>0, <2>1, <2>2, <2>3, <2>4 DEF Next, Serve

(* Who asks for fewer gets the beginning of what a full pool gives: the    *)
(* pools, and so the rankings, their fusion and the scores, are the same.  *)
LEMMA StableTop ==
  ASSUME ServerInv, NEW r, IsRequest(r), r.n <= PoolLimit(r)
  PROVE  LET index == server.lexical v == server.pinned IN
         AnswerOf(index, v, r) = Top(r.n, AnswerOf(index, v, [r EXCEPT !.n = LimitOf(index, r)]))
<1> DEFINE index == server.lexical
           v == server.pinned
           m == LimitOf(index, r)
           u == [r EXCEPT !.n = m]
<1>1. m = PoolLimit(r) /\ m \in Nat /\ r.n \in Nat /\ r.n <= m
  BY RetrievalAssumption DEF LimitOf, PoolLimit, Mode, ModeOf, IsRequest
<1> HIDE DEF m
<1>2. /\ u.n = m /\ u.mode = r.mode /\ u.rerank = r.rerank /\ u.filter = r.filter
      /\ u.dense = r.dense /\ u.lexical = r.lexical /\ u.score = r.score
      /\ IsRequest(u)
  <2>1. /\ u = [kind |-> r.kind, n |-> m, mode |-> r.mode, rerank |-> r.rerank, filter |-> r.filter,
                dense |-> r.dense, lexical |-> r.lexical, score |-> r.score,
                sections |-> r.sections, count |-> r.count, dedupe |-> r.dedupe]
    <3>1. r = [kind |-> r.kind, n |-> r.n, mode |-> r.mode, rerank |-> r.rerank,
               filter |-> r.filter, dense |-> r.dense, lexical |-> r.lexical, score |-> r.score,
               sections |-> r.sections, count |-> r.count, dedupe |-> r.dedupe]
      BY DEF IsRequest
    <3> QED BY <3>1
  <2> HIDE DEF u
  <2> QED BY <1>1, <2>1 DEF IsRequest
<1>3. m = r.n => u = r
  BY DEF IsRequest
<1> HIDE DEF u
<1> DEFINE mode == ModeOf(index, r)
           found == IF mode = "dense" THEN DenseOf(index, v, r)
                    ELSE Fused(DenseOf(index, v, r), LexicalOf(index, r))
<1>4. ModeOf(index, u) = mode
  BY <1>2 DEF ModeOf
<1>5. /\ DenseOf(index, v, r) \in Seq(Nat) /\ IsInjective(DenseOf(index, v, r))
      /\ LexicalOf(index, r) \in Seq(Nat)
      /\ ToSet(DenseOf(index, v, r)) \cup ToSet(LexicalOf(index, r))
           \subseteq ToSet(r.dense) \cup ToSet(r.lexical)
  <2>1. r.dense \in Seq(Nat) /\ IsInjective(r.dense) /\ r.lexical \in Seq(Nat)
    BY DEF IsRequest
  <2>2. <<>> \in Seq(Nat) /\ IsInjective(<<>>) /\ ToSet(<<>>) = {}
    BY DEF IsInjective, ToSet
  <2>3. DenseOf(index, v, r) = <<>> \/ DenseOf(index, v, r) = Ranking(r.dense, Content[v], r)
    BY Views DEF DenseOf
  <2>4. LexicalOf(index, r) = <<>> \/ LexicalOf(index, r) = Ranking(r.lexical, index.rows, r)
    BY Views DEF LexicalOf
  <2>5. /\ Ranking(r.dense, Content[v], r) \in Seq(Nat)
        /\ IsInjective(Ranking(r.dense, Content[v], r))
        /\ ToSet(Ranking(r.dense, Content[v], r)) \subseteq ToSet(r.dense)
    BY <2>1, RankingElements
  <2>6. /\ Ranking(r.lexical, index.rows, r) \in Seq(Nat)
        /\ ToSet(Ranking(r.lexical, index.rows, r)) \subseteq ToSet(r.lexical)
    BY <2>1, RankingElements
  <2> QED BY <2>2, <2>3, <2>4, <2>5, <2>6
<1>6. /\ found \in Seq(Nat) /\ ToSet(found) \subseteq ToSet(r.dense) \cup ToSet(r.lexical)
      /\ FirstOf(index, v, r) = Top(FirstStage(r), found)
  <2>1. FirstOf(index, v, r) = Top(FirstStage(r), found)
    BY DEF FirstOf
  <2> QED BY <1>5, <2>1, FusedElements
<1>7. Reranked(r, FirstOf(index, v, r)) \in Seq(Nat)
  <2>1. FirstOf(index, v, r) \in Seq(Nat) /\ ToSet(FirstOf(index, v, r)) \subseteq ToSet(found)
    BY <1>6, TopElements, DepthsAreNumbers
  <2>2. \A i \in ToSet(FirstOf(index, v, r)) : r.score[i] \in Int
    BY <1>6, <2>1 DEF IsRequest
  <2> QED BY <2>1, <2>2, RerankedElements
<1> HIDE DEF index, v, mode, found
<1>8. AnswerOf(index, v, r) \in Seq(Nat)
      /\ Top(r.n, AnswerOf(index, v, r)) = AnswerOf(index, v, r)
  <2> DEFINE all == Reranked(r, FirstOf(index, v, r))
  <2>1. all \in Seq(Nat)
    BY <1>7
  <2>2. AnswerOf(index, v, r) = Top(r.n, all)
    BY DEF AnswerOf
  <2> HIDE DEF all
  <2>3. Top(r.n, all) \in Seq(Nat)
    BY <1>1, <2>1, TopElements
  <2>4. r.n <= r.n
    BY <1>1
  <2>5. Top(r.n, Top(r.n, all)) = Top(r.n, all)
    BY <1>1, <2>1, <2>4, TopOfTop
  <2> QED BY <2>2, <2>3, <2>5
<1>9. CASE m = r.n
  BY <1>3, <1>8, <1>9 DEF u, m, index, v
<1>10. ASSUME PoolDepth(u) = PoolDepth(r), mode = "dense" => FirstStage(u) = FirstStage(r)
       PROVE  /\ DenseOf(index, v, u) = DenseOf(index, v, r)
              /\ LexicalOf(index, u) = LexicalOf(index, r)
              /\ FirstOf(index, v, u) = Top(FirstStage(u), found)
  <2>1. \A ids, rows : RankingOf(index, ids, rows, u) = RankingOf(index, ids, rows, r)
    BY <1>2, <1>4, <1>10 DEF RankingOf, mode
  <2>2. DenseOf(index, v, u) = DenseOf(index, v, r) /\ LexicalOf(index, u) = LexicalOf(index, r)
    BY <1>2, <1>4, <2>1 DEF DenseOf, LexicalOf, mode
  <2>3. FirstOf(index, v, u) = Top(FirstStage(u), found)
    BY <1>4, <2>2 DEF FirstOf, found
  <2> QED BY <2>2, <2>3
<1>11. CASE r.rerank
  <2>1. m = RerankCandidates /\ RerankCandidates \in Nat
    BY <1>11, RetrievalAssumption DEF m, LimitOf
  <2>2. FirstStage(r) = RerankCandidates /\ FirstStage(u) = RerankCandidates
    <3>1. Max({RerankCandidates, r.n}) = RerankCandidates
      BY <1>1, <2>1, LargerIsMax
    <3>2. Max({RerankCandidates, u.n}) = RerankCandidates
      BY <1>1, <1>2, <2>1, LargerIsMax
    <3> QED BY <1>2, <1>11, <3>1, <3>2 DEF FirstStage
  <2>3. PoolDepth(u) = PoolDepth(r)
    BY <2>2 DEF PoolDepth
  <2>4. FirstOf(index, v, u) = FirstOf(index, v, r)
    BY <1>6, <1>10, <2>2, <2>3 DEF index, v
  <2>5. Reranked(u, FirstOf(index, v, u)) = Reranked(r, FirstOf(index, v, r))
    BY <1>2, <2>4 DEF Reranked, RerankOrder
  <2>6. AnswerOf(index, v, u) = Top(m, Reranked(r, FirstOf(index, v, r)))
    BY <1>2, <2>5 DEF AnswerOf
  <2>7. Top(r.n, AnswerOf(index, v, u)) = Top(r.n, Reranked(r, FirstOf(index, v, r)))
    BY <1>1, <1>7, <2>6, TopOfTop DEF index, v
  <2> QED BY <2>7 DEF AnswerOf, u, m, index, v
<1>12. CASE ~r.rerank /\ mode # "dense"
  <2>1. m = HybridCandidates /\ HybridCandidates \in Nat
    BY <1>12, RetrievalAssumption DEF m, LimitOf, mode
  <2>2. FirstStage(r) = r.n /\ FirstStage(u) = m
    BY <1>2, <1>12 DEF FirstStage
  <2>3. PoolDepth(u) = HybridCandidates /\ PoolDepth(r) = HybridCandidates
    <3>1. Max({HybridCandidates, r.n}) = HybridCandidates
      BY <1>1, <2>1, LargerIsMax
    <3>2. Max({HybridCandidates, m}) = HybridCandidates
      BY <1>1, <2>1, LargerIsMax
    <3> QED BY <2>2, <3>1, <3>2 DEF PoolDepth
  <2>4. FirstOf(index, v, u) = Top(m, found) /\ FirstOf(index, v, r) = Top(r.n, found)
    BY <1>6, <1>10, <1>12, <2>2, <2>3 DEF index, v
  <2>5. /\ AnswerOf(index, v, u) = Top(m, Top(m, found))
        /\ AnswerOf(index, v, r) = Top(r.n, Top(r.n, found))
    BY <1>2, <1>12, <2>4 DEF AnswerOf, Reranked
  <2>6. Top(m, Top(m, found)) = Top(m, found) /\ Top(r.n, Top(r.n, found)) = Top(r.n, found)
    BY <1>1, <1>6, TopOfTop
  <2>7. Top(r.n, Top(m, found)) = Top(r.n, found)
    BY <1>1, <1>6, TopOfTop
  <2> QED BY <2>5, <2>6, <2>7 DEF u, m, index, v
<1>13. CASE ~r.rerank /\ mode = "dense"
  <2>1. m = r.n
    BY <1>13 DEF m, LimitOf, mode
  <2> QED BY <1>9, <2>1
<1> QED BY <1>11, <1>12, <1>13 DEF IsRequest

(* The distinct notes of a prefix of the sections, if they are enough.     *)
LEMMA NotesOfPrefix ==
  ASSUME NEW T, NEW q \in Seq(T), NEW m \in Nat, NEW n \in Nat,
         Len(Top(n, Distinct(Top(m, q)))) >= n
  PROVE  Top(n, Distinct(Top(m, q))) = Top(n, Distinct(q))
<1> DEFINE some == Distinct(Top(m, q))
           all == Distinct(q)
<1>1. some \in Seq(T) /\ all \in Seq(T)
  BY TopElements, DistinctElements
<1>2. Len(some) <= Len(all) /\ \A k \in 1..Len(some) : some[k] = all[k]
  BY DistinctOfTop
<1> HIDE DEF some, all
<1>3. /\ Top(n, some) \in Seq(T) /\ Len(Top(n, some)) = IF n <= Len(some) THEN n ELSE Len(some)
      /\ \A k \in 1..Len(Top(n, some)) : Top(n, some)[k] = some[k]
  BY <1>1, TopElements
<1>4. /\ Top(n, all) \in Seq(T) /\ Len(Top(n, all)) = IF n <= Len(all) THEN n ELSE Len(all)
      /\ \A k \in 1..Len(Top(n, all)) : Top(n, all)[k] = all[k]
  BY <1>1, TopElements
<1>5. Len(some) \in Nat /\ Len(all) \in Nat
  BY <1>1
<1>6. n <= Len(some)
  BY <1>3, <1>5 DEF some
<1>7. Len(Top(n, some)) = n /\ Len(Top(n, all)) = n
  BY <1>2, <1>3, <1>4, <1>5, <1>6
<1>8. \A k \in 1..n : Top(n, some)[k] = Top(n, all)[k]
  BY <1>2, <1>3, <1>4, <1>5, <1>6, <1>7
<1> QED BY <1>3, <1>4, <1>7, <1>8, SameSequence DEF some, all

(* A search for notes answers with the distinct notes of all sections.     *)
LEMMA NotesAnswer ==
  ASSUME WorkInv, request # None, SearchNotes, reply' # reply, reply'.status = 200
  PROVE  /\ reply'.to = request
         /\ reply'.hits = Top(request.n, IF request.dedupe THEN Distinct(request.sections)
                                         ELSE request.sections)
<1> DEFINE q == request.sections
           T == ToSet(q)
           n == request.n
           m == Max({1, work.requested})
           sections == Top(m, q)
           notes == Top(n, IF request.dedupe THEN Distinct(sections) ELSE sections)
<1>1. IsRequest(request) /\ Listing
  BY DEF SearchNotes, WorkInv, Searching
<1>2. /\ reply'.to = request /\ reply'.hits = notes
      /\ \/ ~request.dedupe \/ Len(notes) >= n
         \/ work.requested >= request.count \/ Len(sections) < work.requested
  <2>1. IF ToSet(notes) \cap changed # {}
        THEN Answered(500, <<>>)
        ELSE IF \/ ~request.dedupe \/ Len(notes) >= request.n
                \/ work.requested >= request.count \/ Len(sections) < work.requested
        THEN Answered(200, notes)
        ELSE UNCHANGED <<request, reply>>
    <3>1. PICK ss \in {sections} :
            \E nn \in {Top(request.n, IF request.dedupe THEN Distinct(ss) ELSE ss)} :
              IF ToSet(nn) \cap changed # {}
              THEN Answered(500, <<>>)
              ELSE IF \/ ~request.dedupe \/ Len(nn) >= request.n
                      \/ work.requested >= request.count \/ Len(ss) < work.requested
              THEN Answered(200, nn)
              ELSE /\ work' = [work EXCEPT !.requested = More(@, request.count)]
                   /\ UNCHANGED <<request, reply>>
      BY DEF SearchNotes
    <3>2. ss = sections
      OBVIOUS
    <3> HIDE DEF sections
    <3> QED BY <3>1, <3>2
  <2> HIDE DEF notes, sections
  <2> QED BY <2>1 DEF Answered
<1>3. /\ q \in Seq(T) /\ n \in Nat /\ request.count \in Nat /\ Len(q) <= request.count
      /\ work.requested \in Nat
      /\ work.requested >= request.count \/ work.requested >= n
  BY <1>1 DEF IsRequest, Listing
<1>4. m \in Nat /\ m >= work.requested
  <2>1. m = IF 1 <= work.requested THEN work.requested ELSE 1
    <3>1. 1 \in Int /\ work.requested \in Int
      BY <1>3
    <3> DEFINE one == 1
    <3>2. one \in Int
      OBVIOUS
    <3> HIDE DEF one
    <3>3. Max({one, work.requested}) = IF one <= work.requested THEN work.requested ELSE one
      BY <3>1, <3>2, MinMax
    <3> QED BY <3>3 DEF one
  <2> HIDE DEF m
  <2> QED BY <1>3, <2>1
<1>5. Len(q) \in Nat
  BY <1>3
<1> HIDE DEF q, T, m, n
<1>6. Len(q) <= m => sections = q
  BY <1>3, <1>4, TopElements
<1>7. CASE Len(q) <= m
  BY <1>2, <1>6, <1>7 DEF q, n
<1>8. CASE Len(q) > m
  <2>1. Len(sections) = m
    BY <1>3, <1>4, <1>5, <1>8, TopElements
  <2>2. ~(work.requested >= request.count) /\ ~(Len(sections) < work.requested)
    BY <1>3, <1>4, <1>5, <1>8, <2>1
  <2>3. n <= m
    BY <1>3, <1>4, <2>2
  <2>4. CASE ~request.dedupe
    <3>1. Top(n, sections) = Top(n, q)
      BY <1>3, <1>4, <2>3, TopOfTop
    <3> QED BY <1>2, <2>4, <3>1 DEF q, n
  <2>5. CASE request.dedupe
    <3>1. Len(Top(n, Distinct(sections))) >= n
      BY <1>2, <2>2, <2>5
    <3>2. Top(n, Distinct(sections)) = Top(n, Distinct(q))
      BY <1>3, <1>4, <3>1, NotesOfPrefix
    <3> QED BY <1>2, <2>5, <3>2 DEF q, n
  <2> QED BY <2>4, <2>5
<1> QED BY <1>4, <1>5, <1>7, <1>8

(* No step returns anything but the beginning of what others get.          *)
LEMMA TopStableNext == RetrievalInv /\ TopInv /\ TopStable /\ [Next]_vars => TopStable'
<1> SUFFICES ASSUME StoreInv, ServerInv, WorkInv, TopInv, [Next]_vars,
                    TopOf(reply, faults, server.lexical, server.pinned),
                    reply' # None, reply'.status = 200
             PROVE  TopOf(reply', faults', server'.lexical, server'.pinned)
  BY TopIsTopOf DEF RetrievalInv, TopOf
<1>0. faults' = 0 => faults = 0 /\ ~Harm
  BY FaultsCount DEF TopInv
<1>1. request # None \/ reply # None =>
        server'.pinned = server.pinned /\ (faults' = 0 => server'.lexical = server.lexical)
  BY <1>0, WhileServing
<1>2. CASE reply' = reply
  BY <1>0, <1>1, <1>2 DEF TopOf
<1>3. CASE request # None /\ Verify
  <2> DEFINE r == request
             index == server.lexical
             v == server.pinned
             hits == Top(r.n, Reranked(r, work.hits))
  <2>1. /\ reply'.to = r /\ r.kind = "papers" /\ hits \in Seq(Nat)
        /\ reply'.hits = [k \in DOMAIN hits |-> [id |-> hits[k], row |-> work.rows[hits[k]]]]
    BY <1>3, VerifiedAnswer
  <2>2. CASE faults' = 0 /\ r.n <= LimitOf(index, r)
    <3>1. IsRequest(r) /\ work.at = "verify" /\ PaperHits
      BY <1>0, <1>3, <2>1, <2>2 DEF TopInv, WorkInv, Verify
    <3>2. hits = AnswerOf(index, v, r)
      BY <3>1 DEF PaperHits, AnswerOf
    <3>3. hits = Top(r.n, AnswerOf(index, v, [r EXCEPT !.n = LimitOf(index, r)]))
      <4>1. LimitOf(index, r) = PoolLimit(r)
        BY DEF LimitOf, PoolLimit, Mode, ModeOf
      <4> QED BY <2>2, <3>1, <3>2, <4>1, StableTop
    <3> HIDE DEF hits
    <3>4. [k \in DOMAIN reply'.hits |-> reply'.hits[k].id] = hits
      <4>1. /\ DOMAIN reply'.hits = DOMAIN hits
            /\ \A k \in DOMAIN hits : reply'.hits[k].id = hits[k]
        BY <2>1
      <4> QED BY <2>1, <4>1
    <3> QED BY <1>1, <1>3, <2>1, <2>2, <3>3, <3>4 DEF TopOf
  <2>3. CASE ~(faults' = 0 /\ r.n <= LimitOf(index, r))
    BY <1>1, <1>3, <2>1, <2>3 DEF TopOf
  <2> QED BY <2>2, <2>3
<1>4. CASE request # None /\ SearchNotes /\ reply' # reply
  <2>1. request.kind = "notes"
    BY <1>4 DEF SearchNotes, WorkInv, Searching, Listing
  <2> QED BY <1>4, <2>1, NotesAnswer DEF TopOf
<1>5. CASE request # None /\ GetNote
  <2>1. request.kind = "note" /\ IsRequest(request)
    BY <1>5 DEF GetNote, WorkInv, Searching, Listing
  <2>2. reply'.to = request /\ reply'.hits = Distinct(request.sections)
    BY <1>5 DEF GetNote, Answered
  <2>3. ToSet(reply'.hits) = ToSet(request.sections)
    BY <2>1, <2>2, DistinctElements DEF IsRequest
  <2> QED BY <2>1, <2>2, <2>3 DEF TopOf
<1> QED BY <1>2, <1>3, <1>4, <1>5, WhereRepliesComeFrom

(* With nothing damaged, who asks for fewer results gets the beginning of  *)
(* what others get, up to the pools; and notes come once each, in the      *)
(* order of their best section, however many prefixes were fetched         *)
(* (TopStable): for every ranking, score, filter and size of the pools.    *)
THEOREM AnswersAreStable == Spec => []TopStable
<1>1. Init => TopInv /\ TopStable
  BY DEF Init, TopInv, TopStable
<1>2. RetrievalInv /\ TopInv /\ TopStable /\ [Next]_vars => TopInv' /\ TopStable'
  BY TopNext, TopStableNext
<1> QED BY <1>1, <1>2, RetrievalInvariance, PTL DEF Spec
=============================================================================
