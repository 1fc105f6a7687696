------------------------- MODULE AnswerPacketProofs -------------------------
(***************************************************************************)
(* A server of AnswerPacket on a generation that was built, for any hits,  *)
(* budgets and answers, with pages damaged, generations replaced and       *)
(* packets edited between any two of its steps.                            *)
(*                                                                         *)
(* The invariant (ServerInv) extends that of the build. The page file has  *)
(* one line for every page of every document, damaged ones included        *)
(* (StoredKept, BookKept); a packet's fragments have the shape of          *)
(* fragments, and its sums and its evidence hold until a client edits it   *)
(* (PacketKept); the bindings of a verdict passed the reader's checks      *)
(* against the pages loaded (VerdictKept).                                 *)
(*                                                                         *)
(* What a packet holds is proved of the functions that make it: the bounds *)
(* around a hit, the pieces that earlier evidence leaves of an interval,   *)
(* the cut to the room left, and their recursions over the pieces of a     *)
(* candidate and over the candidates, each of them unfolded to its steps.  *)
(* A selection is well made after every step: its characters are counted   *)
(* once, each stands at its place, and nothing exceeds the budget.         *)
(***************************************************************************)
EXTENDS AnswerPacket, PdfIngestProofs

(***************************************************************************)
(* A stretch of text in two lists of pages                                 *)
(***************************************************************************)

(* Two runs of pages beside each other: where the pages of the second begin *)
(* and how long they are (s, l), and those of the first (t, m).             *)
Beside(s, l, t, m, N) ==
  /\ s \in [1..(N + 1) -> Nat] /\ t \in [1..(N + 1) -> Nat]
  /\ l \in [1..N -> Nat] /\ m \in [1..N -> Nat]
  /\ s[1] = 0 /\ t[1] = 0
  /\ \A k \in 1..N : s[k + 1] = s[k] + l[k] + 1 /\ t[k + 1] = t[k] + m[k] + 1

(* The pages an interval a..b meets are as long in both.                    *)
MeetAlike(s, l, m, N, a, b) ==
  \A k \in 1..N : a < s[k] + l[k] /\ s[k] < b => m[k] = l[k]

(* What the interval is moved by.                                           *)
Moves(s, l, t, m, N, a, b, sh) ==
  /\ sh \in Int /\ a + sh \in Nat
  /\ b + sh <= t[N + 1] - 1
  /\ \A k \in 1..N : a < s[k] + l[k] /\ s[k] < b => t[k] = s[k] + sh
  /\ \A k \in 1..N : a <= s[k] + l[k] /\ s[k + 1] <= b => t[k + 1] = s[k + 1] + sh
  /\ \A k \in 1..N : l[k] > 0 /\ a + sh < t[k] + m[k] /\ t[k] < b + sh
                       => a < s[k] + l[k] /\ s[k] < b

(* The starts and lengths of two lists of pages side by side.               *)
LEMMA BesideIs ==
  ASSUME NEW N \in Nat, NEW s, NEW l, NEW t, NEW m, Beside(s, l, t, m, N), NEW k \in 1..N
  PROVE  /\ s[k] \in Nat /\ t[k] \in Nat /\ l[k] \in Nat /\ m[k] \in Nat
         /\ s[k + 1] = s[k] + l[k] + 1 /\ t[k + 1] = t[k] + m[k] + 1
         /\ s[k + 1] \in Nat /\ t[k + 1] \in Nat
<1>1. k \in 1..(N + 1) /\ k + 1 \in 1..(N + 1)
  OBVIOUS
<1> QED BY <1>1 DEF Beside

(* The starts of the pages rise.                                            *)
LEMMA Rising ==
  ASSUME NEW N \in Nat, NEW s, NEW l, NEW t, NEW m, Beside(s, l, t, m, N),
         NEW j \in 1..(N + 1), NEW k \in 1..(N + 1), j < k
  PROVE  s[j] < s[k] /\ t[j] < t[k]
<1> DEFINE T == {n \in Nat : j + 1 + n \in 1..(N + 1) =>
                    s[j] < s[j + 1 + n] /\ t[j] < t[j + 1 + n]}
<1>1. 0 \in T
  <2>1. SUFFICES ASSUME j + 1 + 0 \in 1..(N + 1)
                 PROVE  s[j] < s[j + 1 + 0] /\ t[j] < t[j + 1 + 0]
    OBVIOUS
  <2>2. j \in 1..N /\ j + 1 + 0 = j + 1
    BY <2>1
  <2>3. s[j + 1] = s[j] + l[j] + 1 /\ t[j + 1] = t[j] + m[j] + 1
        /\ s[j] \in Nat /\ t[j] \in Nat /\ l[j] \in Nat /\ m[j] \in Nat
    BY <2>2 DEF Beside
  <2> QED BY <2>2, <2>3
<1>2. ASSUME NEW n \in Nat, n \in T PROVE n + 1 \in T
  <2>1. SUFFICES ASSUME j + 1 + (n + 1) \in 1..(N + 1)
                 PROVE  s[j] < s[j + 1 + (n + 1)] /\ t[j] < t[j + 1 + (n + 1)]
    OBVIOUS
  <2> DEFINE i == j + 1 + n
  <2>2. i \in 1..N /\ j + 1 + (n + 1) = i + 1 /\ i \in 1..(N + 1)
    BY <2>1
  <2>3. s[j] < s[i] /\ t[j] < t[i]
    BY <1>2, <2>2
  <2> HIDE DEF i
  <2>4. s[i + 1] = s[i] + l[i] + 1 /\ t[i + 1] = t[i] + m[i] + 1
        /\ s[i] \in Nat /\ t[i] \in Nat /\ l[i] \in Nat /\ m[i] \in Nat
        /\ s[j] \in Nat /\ t[j] \in Nat
    BY <2>2 DEF Beside
  <2> QED BY <2>2, <2>3, <2>4
<1> HIDE DEF T
<1>3. \A n \in Nat : n \in T
  BY <1>1, <1>2, NatSetInduction
<1>4. k - j - 1 \in T
  BY <1>3
<1> QED BY <1>4 DEF T

(* Where two lists of pages meet an interval in the same pages, one shift   *)
(* moves it.                                                                *)
LEMMA Moved ==
  ASSUME NEW N \in Nat, NEW s, NEW l, NEW t, NEW m, Beside(s, l, t, m, N),
         NEW a \in Nat, NEW b \in Nat, a < b, b <= s[N + 1] - 1,
         MeetAlike(s, l, m, N, a, b),
         \A k \in 1..N : l[k] = 0 => m[k] = 0,
         \A p \in 0..(s[N + 1] - 1) : \E k \in 1..N : s[k] <= p /\ p <= s[k] + l[k]
  PROVE  \E sh \in Int : Moves(s, l, t, m, N, a, b, sh)
<1>1. /\ \A k \in 1..(N + 1) : s[k] \in Nat /\ t[k] \in Nat
      /\ \A k \in 1..N : l[k] \in Nat /\ m[k] \in Nat
      /\ \A k \in 1..N : s[k + 1] = s[k] + l[k] + 1 /\ t[k + 1] = t[k] + m[k] + 1
  BY DEF Beside
<1>2. s[N + 1] \in Nat /\ t[N + 1] \in Nat
  BY <1>1
<1>3. PICK K \in 1..N : s[K] <= a /\ a <= s[K] + l[K]
  <2>1. a \in 0..(s[N + 1] - 1)
    BY <1>2
  <2> QED BY <2>1
<1>4. PICK J \in 1..N : s[J] <= b - 1 /\ b - 1 <= s[J] + l[J]
  <2>1. b - 1 \in 0..(s[N + 1] - 1)
    BY <1>2
  <2> QED BY <2>1
<1>5. \A i, j \in 1..(N + 1) : i < j => s[i] < s[j] /\ t[i] < t[j]
  BY Rising
<1>6. \A i \in 1..N, j \in 1..(N + 1) : i < j => s[i] + l[i] < s[j] /\ t[i] + m[i] < t[j]
  <2> TAKE i \in 1..N, j \in 1..(N + 1)
  <2> HAVE i < j
  <2>1. s[i + 1] = s[i] + l[i] + 1 /\ t[i + 1] = t[i] + m[i] + 1
    BY <1>1
  <2>2. i + 1 = j \/ (i + 1 < j /\ i + 1 \in 1..(N + 1))
    OBVIOUS
  <2>3. s[i + 1] <= s[j] /\ t[i + 1] <= t[j]
    BY <1>1, <1>5, <2>2
  <2>4. s[i] \in Nat /\ t[i] \in Nat /\ l[i] \in Nat /\ m[i] \in Nat /\ s[j] \in Nat /\ t[j] \in Nat
    BY <1>1
  <2> QED BY <2>1, <2>3, <2>4
<1> DEFINE sh == t[K + 1] - s[K + 1]
<1>7. sh \in Int /\ t[K + 1] = s[K + 1] + sh
      /\ s[K] \in Nat /\ t[K] \in Nat /\ l[K] \in Nat /\ m[K] \in Nat
      /\ s[K + 1] \in Nat /\ t[K + 1] \in Nat
      /\ s[K + 1] = s[K] + l[K] + 1 /\ t[K + 1] = t[K] + m[K] + 1
  BY <1>1
<1> HIDE DEF sh
<1>8. \A k \in (K + 1)..(N + 1) : s[k] <= b => t[k] = s[k] + sh
  <2> DEFINE T == {n \in Nat : K + 1 + n <= N + 1 /\ s[K + 1 + n] <= b
                                 => t[K + 1 + n] = s[K + 1 + n] + sh}
  <2>1. 0 \in T
    BY <1>7
  <2>2. ASSUME NEW n \in Nat, n \in T PROVE n + 1 \in T
    <3>1. SUFFICES ASSUME K + 1 + (n + 1) <= N + 1, s[K + 1 + (n + 1)] <= b
                   PROVE  t[K + 1 + (n + 1)] = s[K + 1 + (n + 1)] + sh
      OBVIOUS
    <3> DEFINE i == K + 1 + n
    <3>2. i \in 1..N /\ K < i /\ K + 1 + (n + 1) = i + 1
      BY <3>1
    <3>3. i <= N + 1 /\ s[i] <= b => t[i] = s[i] + sh
      BY <2>2
    <3> HIDE DEF i
    <3>4. /\ s[i] \in Nat /\ t[i] \in Nat /\ l[i] \in Nat /\ m[i] \in Nat
          /\ s[i + 1] = s[i] + l[i] + 1 /\ t[i + 1] = t[i] + m[i] + 1
      BY <1>1, <3>2
    <3>5. a < s[i]
      <4>1. s[K] + l[K] < s[i]
        BY <1>6, <3>2
      <4> QED BY <1>3, <1>7, <3>4, <4>1
    <3>6. s[i] + l[i] + 1 <= b
      BY <3>1, <3>2, <3>4
    <3>7. a < s[i] + l[i] /\ s[i] < b /\ s[i] <= b
      BY <3>4, <3>5, <3>6
    <3>8. m[i] = l[i]
      BY <3>2, <3>7 DEF MeetAlike
    <3>9. t[i] = s[i] + sh
      BY <3>2, <3>3, <3>7
    <3> QED BY <1>7, <3>2, <3>4, <3>8, <3>9
  <2> HIDE DEF T
  <2>3. \A n \in Nat : n \in T
    BY <2>1, <2>2, NatSetInduction
  <2> TAKE k \in (K + 1)..(N + 1)
  <2>4. k - (K + 1) \in T
    BY <2>3
  <2>5. K + 1 + (k - (K + 1)) = k
    OBVIOUS
  <2> QED BY <2>4, <2>5 DEF T
<1>9. a < s[K] + l[K] => t[K] = s[K] + sh /\ m[K] = l[K]
  <2> HAVE a < s[K] + l[K]
  <2>1. s[K] < b
    BY <1>3, <1>7
  <2>2. m[K] = l[K]
    BY <2>1 DEF MeetAlike
  <2> QED BY <1>7, <2>2
<1>10. t[K] <= a + sh
  BY <1>3, <1>7, <1>9
<1>11. K <= J
  <2>1. SUFFICES ASSUME J < K PROVE FALSE
    OBVIOUS
  <2>2. s[J] + l[J] < s[K]
    BY <1>6, <2>1
  <2>3. s[J] \in Nat /\ l[J] \in Nat
    BY <1>1
  <2> QED BY <1>3, <1>4, <1>7, <2>2, <2>3
<1>12. s[J] \in Nat /\ l[J] \in Nat /\ t[J] \in Nat /\ m[J] \in Nat
       /\ s[J + 1] = s[J] + l[J] + 1 /\ t[J + 1] = t[J] + m[J] + 1
  BY <1>1
<1>13. b + sh <= t[J + 1]
  <2>1. CASE K < J
    <3>1. a < s[J]
      <4>1. s[K] + l[K] < s[J]
        BY <1>6, <2>1
      <4> QED BY <1>3, <1>7, <1>12, <4>1
    <3>2. s[J] < b
      BY <1>4, <1>12
    <3>3. m[J] = l[J]
      BY <1>12, <3>1, <3>2 DEF MeetAlike
    <3>4. t[J] = s[J] + sh
      BY <1>8, <1>12, <2>1, <3>2
    <3> QED BY <1>4, <1>7, <1>12, <3>3, <3>4
  <2>2. CASE K = J
    BY <1>3, <1>4, <1>7, <1>9, <1>12, <2>2
  <2> QED BY <1>11, <2>1, <2>2
<1>14. b + sh <= t[N + 1] - 1
  <2>1. CASE J < N
    <3>1. t[J + 1] < t[N + 1]
      BY <1>5, <2>1
    <3> QED BY <1>2, <1>7, <1>12, <1>13, <3>1
  <2>2. CASE J = N
    <3>1. s[N + 1] = s[J] + l[J] + 1 /\ b <= s[J] + l[J]
      BY <1>2, <1>12, <2>2
    <3>2. t[N + 1] = t[J] + m[J] + 1
      BY <1>12, <2>2
    <3>3. CASE K < J
      <4>1. a < s[J]
        <5>1. s[K] + l[K] < s[J]
          BY <1>6, <3>3
        <5> QED BY <1>3, <1>7, <1>12, <5>1
      <4>2. s[J] < b
        BY <1>4, <1>12
      <4>3. m[J] = l[J]
        BY <1>12, <4>1, <4>2 DEF MeetAlike
      <4>4. t[J] = s[J] + sh
        BY <1>8, <1>12, <3>3, <4>2
      <4> QED BY <1>7, <1>12, <3>1, <3>2, <4>3, <4>4
    <3>4. CASE K = J
      BY <1>3, <1>7, <1>9, <1>12, <3>1, <3>2, <3>4
    <3> QED BY <1>11, <3>3, <3>4
  <2> QED BY <2>1, <2>2
<1>15. ASSUME NEW k \in 1..N, a < s[k] + l[k], s[k] < b PROVE t[k] = s[k] + sh
  <2>1. K <= k
    <3>1. SUFFICES ASSUME k < K PROVE FALSE
      OBVIOUS
    <3>2. s[k] + l[k] < s[K]
      BY <1>6, <3>1
    <3>3. s[k] \in Nat /\ l[k] \in Nat
      BY <1>1
    <3> QED BY <1>3, <1>7, <1>15, <3>2, <3>3
  <2>2. CASE K = k
    BY <1>9, <1>15, <2>2
  <2>3. CASE K < k
    BY <1>1, <1>8, <1>15, <2>3
  <2> QED BY <2>1, <2>2, <2>3
<1>16. ASSUME NEW k \in 1..N, a <= s[k] + l[k], s[k + 1] <= b PROVE t[k + 1] = s[k + 1] + sh
  <2>1. K <= k
    <3>1. SUFFICES ASSUME k < K PROVE FALSE
      OBVIOUS
    <3>2. s[k] + l[k] < s[K]
      BY <1>6, <3>1
    <3>3. s[k] \in Nat /\ l[k] \in Nat
      BY <1>1
    <3> QED BY <1>3, <1>7, <1>16, <3>2, <3>3
  <2> QED BY <1>8, <1>16, <2>1
<1>17. ASSUME NEW k \in 1..N, l[k] > 0, a + sh < t[k] + m[k], t[k] < b + sh
       PROVE  a < s[k] + l[k] /\ s[k] < b
  <2>1. s[k] \in Nat /\ l[k] \in Nat /\ t[k] \in Nat /\ m[k] \in Nat
    BY <1>1
  <2>2. K <= k
    <3>1. SUFFICES ASSUME k < K PROVE FALSE
      OBVIOUS
    <3>2. t[k] + m[k] < t[K]
      BY <1>6, <3>1
    <3> QED BY <1>7, <1>10, <1>17, <2>1, <3>2
  <2>3. CASE K = k
    BY <1>3, <1>7, <1>17, <2>3
  <2>4. CASE K < k
    <3>1. a < s[k]
      <4>1. s[K] + l[K] < s[k]
        BY <1>6, <2>4
      <4> QED BY <1>3, <1>7, <2>1, <4>1
    <3>2. s[k] < b
      <4>1. SUFFICES ASSUME b <= s[k] PROVE FALSE
        BY <2>1
      <4>2. J < k
        <5>1. SUFFICES ASSUME k <= J PROVE FALSE
          OBVIOUS
        <5>2. s[k] <= s[J]
          <6>1. k = J \/ k < J
            BY <5>1
          <6>2. k < J => s[k] < s[J]
            BY <1>5
          <6> QED BY <1>12, <2>1, <6>1, <6>2
        <5> QED BY <1>4, <1>12, <2>1, <4>1, <5>2
      <4>3. t[J + 1] <= t[k]
        <5>1. J + 1 = k \/ (J + 1 < k /\ J + 1 \in 1..(N + 1))
          BY <4>2
        <5> QED BY <1>1, <1>5, <5>1
      <4> QED BY <1>7, <1>12, <1>13, <1>17, <2>1, <4>3
    <3> QED BY <2>1, <3>1, <3>2
  <2> QED BY <2>2, <2>3, <2>4
<1>18. a + sh \in Nat
  BY <1>7, <1>10
<1> QED BY <1>7, <1>14, <1>15, <1>16, <1>17, <1>18 DEF Moves


(* An interval of the second pages stands in the first too, at a place      *)
(* moved, when the pages it meets are the same in both.                     *)
StandsIn(P, t, spans) ==
  \E i \in Nat : /\ i + Len(t) <= Len(Joined(P))
                 /\ Slice(Joined(P), i, i + Len(t)) = t
                 /\ Spans(P, i, i + Len(t)) = spans

(* Two sequences that agree on the places picked have one picked sequence.  *)
LEMMA PickedAlike ==
  ASSUME NEW q, NEW r, NEW places \in SUBSET Int, IsFiniteSet(places),
         \A p \in places : q[p] = r[p]
  PROVE  Picked(q, places) = Picked(r, places)
<1>1. /\ Picked(q, places) = [n \in 1..Cardinality(places) |-> q[Ascending(places)[n]]]
      /\ Picked(r, places) = [n \in 1..Cardinality(places) |-> r[Ascending(places)[n]]]
  BY PickedEnumerates
<1>2. \A n \in 1..Cardinality(places) : Ascending(places)[n] \in places
  BY AscendingEnumerates
<1> QED BY <1>1, <1>2

(* The pages that an interval of Q meets are those of P, and a page of Q    *)
(* that is empty is empty in P.                                             *)
MeetSame(P, Q, a, b) ==
  /\ \A k \in 1..Len(Q) : NonEmpty(Overlap(Q, k, a, b)) => Q[k] = P[k]
  /\ \A k \in 1..Len(Q) : Q[k] = <<>> => P[k] = <<>>

(* A place on a page is as far behind the page's beginning in both texts.  *)
LEMMA OnThePage ==
  ASSUME NEW x \in Int, NEW sk \in Int, NEW tk \in Int, NEW lk \in Int, NEW sh \in Int,
         sk <= x, x < sk + lk, tk = sk + sh
  PROVE  /\ x - sk + 1 \in 1..lk
         /\ x + 1 = sk + (x - sk + 1)
         /\ x + sh + 1 = tk + (x - sk + 1)
OBVIOUS

(* The cut of a stretch on a page moves with the page.                     *)
LEMMA CutsMove ==
  ASSUME NEW a \in Int, NEW b \in Int, NEW sk \in Int, NEW tk \in Int, NEW lk \in Int,
         NEW mk \in Int, NEW sh \in Int, tk = sk + sh, mk = lk,
         NEW f, f = (IF a >= sk THEN a ELSE sk) - sk,
         NEW e, e = (IF b <= sk + lk THEN b ELSE sk + lk) - sk,
         NEW g, g = (IF a + sh >= tk THEN a + sh ELSE tk) - tk,
         NEW h, h = (IF b + sh <= tk + mk THEN b + sh ELSE tk + mk) - tk
  PROVE  f = g /\ e = h
OBVIOUS

(* A stretch stands in any list of pages that has the same pages where it   *)
(* lies.                                                                    *)
LEMMA SameStretch ==
  ASSUME NEW P \in Seq(Text), NEW Q \in Seq(Text), Len(P) = Len(Q),
         NEW a \in Nat, NEW b \in Nat, a < b, b <= Len(Joined(Q)),
         MeetSame(P, Q, a, b)
  PROVE  StandsIn(P, Slice(Joined(Q), a, b), Spans(Q, a, b))
<1> DEFINE N == Len(Q)
           s == [k \in 1..(N + 1) |-> PageStart(Q, k)]
           t == [k \in 1..(N + 1) |-> PageStart(P, k)]
           l == [k \in 1..N |-> Len(Q[k])]
           m == [k \in 1..N |-> Len(P[k])]
<1>1. N \in Nat /\ N = Len(P) /\ \A k \in 1..N : P[k] \in Text /\ Q[k] \in Text
  OBVIOUS
<1>2. \A k \in 1..N : Len(P[k]) \in Nat /\ Len(Q[k]) \in Nat
  BY <1>1 DEF Text
<1>3. \A k \in 1..(N + 1) : PageStart(Q, k) \in Nat /\ PageStart(P, k) \in Nat
  BY <1>1, PageStairs
<1>4. Beside(s, l, t, m, N)
  <2>1. PageStart(Q, 1) = 0 /\ PageStart(P, 1) = 0
    BY PageStartIs
  <2>2. \A k \in 1..N : /\ PageStart(Q, k + 1) = PageStart(Q, k) + Len(Q[k]) + 1
                        /\ PageStart(P, k + 1) = PageStart(P, k) + Len(P[k]) + 1
    BY <1>1, PageStartIs
  <2> HIDE DEF N
  <2> QED BY <1>1, <1>2, <1>3, <2>1, <2>2 DEF Beside
<1>5. /\ \A k \in 1..(N + 1) : s[k] = PageStart(Q, k) /\ t[k] = PageStart(P, k)
      /\ \A k \in 1..N : l[k] = Len(Q[k]) /\ m[k] = Len(P[k])
  OBVIOUS
<1> HIDE DEF s, t, l, m
<1>6. s[N + 1] = PageStart(Q, N + 1) /\ t[N + 1] = PageStart(P, N + 1)
      /\ s[N + 1] \in Nat /\ t[N + 1] \in Nat
  BY <1>1, <1>3, <1>5
<1>7. Q # <<>> /\ P # <<>> /\ Len(Joined(Q)) = s[N + 1] - 1 /\ Len(Joined(P)) = t[N + 1] - 1
  <2>1. Q # <<>>
    <3>1. Q = <<>> => Len(Joined(Q)) = 0
      BY JoinedIs
    <3> QED BY <3>1
  <2>2. P # <<>>
    BY <1>1, <2>1
  <2> QED BY <1>1, <1>6, <2>1, <2>2, JoinedIs
<1>8. ASSUME NEW k \in 1..N, a < s[k] + l[k], s[k] < b PROVE Q[k] = P[k]
  <2>1. CASE l[k] = 0
    <3>1. Q[k] = <<>>
      BY <1>1, <1>5, <2>1 DEF Text
    <3> QED BY <3>1 DEF MeetSame
  <2>2. CASE l[k] # 0
    <3>1. l[k] > 0
      BY <1>2, <1>5, <2>2
    <3> DEFINE o == Overlap(Q, k, a, b)
    <3>2. s[k] = PageStart(Q, k) /\ l[k] = Len(Q[k]) /\ s[k] \in Nat /\ l[k] \in Nat
      BY <1>1, <1>2, <1>3, <1>5
    <3>3. /\ o.from = (IF a >= s[k] THEN a ELSE s[k]) - s[k]
          /\ o.to = (IF b <= s[k] + l[k] THEN b ELSE s[k] + l[k]) - s[k]
          /\ NonEmpty(o) <=> o.from < o.to
      BY <3>2, OverlapIs
    <3> HIDE DEF o
    <3>4. NonEmpty(o)
      BY <1>8, <3>1, <3>2, <3>3
    <3> QED BY <3>4 DEF o, MeetSame
  <2> QED BY <2>1, <2>2
<1>9. \A k \in 1..N : l[k] = 0 => m[k] = 0
  <2> TAKE k \in 1..N
  <2> HAVE l[k] = 0
  <2>1. Q[k] = <<>>
    BY <1>1, <1>5 DEF Text
  <2>2. P[k] = <<>>
    BY <2>1 DEF MeetSame
  <2> QED BY <1>5, <2>2
<1>10. MeetAlike(s, l, m, N, a, b)
  BY <1>5, <1>8 DEF MeetAlike
<1>11. \A p \in 0..(s[N + 1] - 1) : \E k \in 1..N : s[k] <= p /\ p <= s[k] + l[k]
  <2>1. \A p \in 0..(PageStart(Q, N + 1) - 1) :
          \E k \in 1..N : PageStart(Q, k) <= p /\ p <= PageStart(Q, k) + Len(Q[k])
    BY PageStairs
  <2>2. ASSUME NEW p \in 0..(s[N + 1] - 1) PROVE \E k \in 1..N : s[k] <= p /\ p <= s[k] + l[k]
    <3>1. PICK k \in 1..N : PageStart(Q, k) <= p /\ p <= PageStart(Q, k) + Len(Q[k])
      BY <1>6, <2>1
    <3>2. s[k] <= p /\ p <= s[k] + l[k]
      BY <1>5, <3>1
    <3> QED BY <3>2
  <2> QED BY <2>2
<1> HIDE DEF N
<1>12. PICK sh \in Int : Moves(s, l, t, m, N, a, b, sh)
  <2>1. b <= s[N + 1] - 1
    BY <1>7
  <2> QED BY <1>1, <1>4, <1>9, <1>10, <1>11, <2>1, Moved
<1>13. /\ a + sh \in Nat /\ b + sh \in Nat /\ a + sh <= b + sh /\ b + sh <= Len(Joined(P))
  BY <1>7, <1>12 DEF Moves
<1>14. Joined(Q) \in Text /\ Joined(P) \in Text
  BY JoinedIs
<1> DEFINE T == Slice(Joined(Q), a, b)
           V == Slice(Joined(P), a + sh, b + sh)
<1>15. /\ T \in Text /\ Len(T) = b - a /\ \A i \in 1..(b - a) : T[i] = Joined(Q)[a + i]
  BY <1>14, SliceIs
<1>16. /\ V \in Text /\ Len(V) = b - a /\ \A i \in 1..(b - a) : V[i] = Joined(P)[a + sh + i]
  <2>1. Len(V) = (b + sh) - (a + sh) /\ V \in Text
        /\ \A i \in 1..((b + sh) - (a + sh)) : V[i] = Joined(P)[a + sh + i]
    BY <1>13, <1>14, SliceIs
  <2>2. (b + sh) - (a + sh) = b - a
    OBVIOUS
  <2> QED BY <2>1, <2>2
<1> HIDE DEF T, V
<1>17. ASSUME NEW i \in 1..(b - a) PROVE Joined(P)[a + sh + i] = Joined(Q)[a + i]
  <2> DEFINE x == a + i - 1
  <2>1. x \in Nat /\ a <= x /\ x < b /\ x \in 0..(s[N + 1] - 1) /\ a + i = x + 1
        /\ a + sh + i = x + sh + 1
    BY <1>6, <1>7
  <2> HIDE DEF x
  <2>2. PICK k \in 1..N : s[k] <= x /\ x <= s[k] + l[k]
    BY <1>11, <2>1
  <2>3. /\ s[k] \in Nat /\ t[k] \in Nat /\ l[k] \in Nat /\ m[k] \in Nat
        /\ s[k + 1] = s[k] + l[k] + 1 /\ t[k + 1] = t[k] + m[k] + 1
        /\ s[k + 1] \in Nat /\ t[k + 1] \in Nat
    BY <1>1, <1>4, BesideIs
  <2>4. CASE x < s[k] + l[k]
    <3>1. a < s[k] + l[k] /\ s[k] < b
      BY <2>1, <2>2, <2>3, <2>4, SMTT(30)
    <3>2. t[k] = s[k] + sh
      BY <1>12, <3>1 DEF Moves
    <3>3. Q[k] = P[k]
      BY <1>8, <3>1
    <3> DEFINE z == x - s[k] + 1
    <3>4. z \in 1..Len(Q[k]) /\ z \in 1..Len(P[k])
          /\ x + 1 = PageStart(Q, k) + z /\ x + sh + 1 = PageStart(P, k) + z
      <4>1. l[k] = Len(Q[k]) /\ l[k] = Len(P[k]) /\ s[k] = PageStart(Q, k) /\ t[k] = PageStart(P, k)
        BY <1>1, <1>5, <3>3
      <4>2. z \in 1..l[k] /\ x + 1 = s[k] + z /\ x + sh + 1 = t[k] + z
        <5> DEFINE S == s[k]  U == t[k]  L == l[k]
        <5>1. S \in Int /\ U \in Int /\ L \in Int /\ x \in Int /\ sh \in Int
              /\ S <= x /\ x < S + L /\ U = S + sh
          BY <2>1, <2>2, <2>3, <2>4, <3>2, SMTT(30)
        <5>2. z = x - S + 1
          OBVIOUS
        <5> HIDE DEF S, U, L, z
        <5>3. z \in 1..L /\ x + 1 = S + z /\ x + sh + 1 = U + z
          BY <5>1, <5>2, OnThePage
        <5> QED BY <5>3 DEF S, U, L
      <4>3. z \in 1..l[k]
        BY <4>2
      <4> QED BY <4>1, <4>2, <4>3
    <3> HIDE DEF z
    <3>5. Joined(Q)[PageStart(Q, k) + z] = Q[k][z] /\ Joined(P)[PageStart(P, k) + z] = P[k][z]
      BY <1>1, <1>5, <3>4, JoinedAt DEF N
    <3> QED BY <2>1, <3>3, <3>4, <3>5
  <2>5. CASE x = s[k] + l[k]
    <3>1. s[k + 1] = x + 1 /\ s[k + 1] <= b /\ a <= s[k] + l[k]
      BY <2>1, <2>3, <2>5
    <3>2. t[k + 1] = s[k + 1] + sh
      BY <1>12, <3>1 DEF Moves
    <3>3. k + 1 \in 2..N
      <4>1. k # N
        <5>1. SUFFICES ASSUME k = N PROVE FALSE
          OBVIOUS
        <5>2. s[N + 1] = x + 1 /\ b <= s[N + 1] - 1
          BY <1>7, <3>1, <5>1
        <5> QED BY <1>6, <2>1, <5>2
      <4> QED BY <1>1, <4>1
    <3> DEFINE j == k + 1
    <3>4. j \in 2..Len(Q) /\ j \in 2..Len(P) /\ s[j] = PageStart(Q, j) /\ t[j] = PageStart(P, j)
      BY <1>1, <1>5, <3>3 DEF N
    <3>5. x + 1 = s[j] /\ x + sh + 1 = t[j]
      BY <2>1, <3>1, <3>2
    <3> HIDE DEF j
    <3>6. Joined(Q)[PageStart(Q, j)] = NL /\ Joined(P)[PageStart(P, j)] = NL
      BY <3>4, JoinedIs
    <3> QED BY <2>1, <3>4, <3>5, <3>6
  <2>6. x < s[k] + l[k] \/ x = s[k] + l[k]
    BY <2>1, <2>2, <2>3, SMTT(30)
  <2> QED BY <2>4, <2>5, <2>6
<1>18. V = T
  <2>1. \A i \in 1..(b - a) : V[i] = T[i]
    BY <1>15, <1>16, <1>17
  <2>2. Len(V) = Len(T) /\ Len(V) = b - a
    BY <1>15, <1>16
  <2> QED BY <1>15, <1>16, <2>1, <2>2, SameText
<1> DEFINE q == [k \in DOMAIN Q |-> Overlap(Q, k, a, b)]
           r == [k \in DOMAIN P |-> Overlap(P, k, a + sh, b + sh)]
           places == {k \in DOMAIN Q : NonEmpty(q[k])}
<1>19. ASSUME NEW k \in 1..N
       PROVE  /\ NonEmpty(Overlap(Q, k, a, b)) <=> NonEmpty(Overlap(P, k, a + sh, b + sh))
              /\ NonEmpty(Overlap(Q, k, a, b)) =>
                   Overlap(Q, k, a, b) = Overlap(P, k, a + sh, b + sh)
  <2> DEFINE o == Overlap(Q, k, a, b)  u == Overlap(P, k, a + sh, b + sh)
  <2>1. /\ s[k] \in Nat /\ t[k] \in Nat /\ l[k] \in Nat /\ m[k] \in Nat
    BY <1>1, <1>4, BesideIs
  <2>2. /\ o.from = (IF a >= s[k] THEN a ELSE s[k]) - s[k]
        /\ o.to = (IF b <= s[k] + l[k] THEN b ELSE s[k] + l[k]) - s[k]
        /\ NonEmpty(o) <=> o.from < o.to
    <3>1. s[k] = PageStart(Q, k) /\ l[k] = Len(Q[k]) /\ k \in 1..Len(Q)
      BY <1>1, <1>5 DEF N
    <3> QED BY <3>1, OverlapIs
  <2>3. /\ u.from = (IF a + sh >= t[k] THEN a + sh ELSE t[k]) - t[k]
        /\ u.to = (IF b + sh <= t[k] + m[k] THEN b + sh ELSE t[k] + m[k]) - t[k]
        /\ NonEmpty(u) <=> u.from < u.to
    <3>1. t[k] = PageStart(P, k) /\ m[k] = Len(P[k]) /\ k \in 1..Len(P)
      BY <1>1, <1>5
    <3> QED BY <1>13, <3>1, OverlapIs
  <2>4. o = [page |-> k, from |-> o.from, to |-> o.to, hash |-> Q[k]]
        /\ u = [page |-> k, from |-> u.from, to |-> u.to, hash |-> P[k]]
    BY DEF Overlap, SpanOnPage
  <2> HIDE DEF o, u
  <2>5. ASSUME NonEmpty(o)
        PROVE  NonEmpty(u) /\ o = u
    <3>1. a < s[k] + l[k] /\ s[k] < b
      BY <2>1, <2>2, <2>5
    <3>2. t[k] = s[k] + sh
      BY <1>12, <3>1 DEF Moves
    <3>3. Q[k] = P[k] /\ l[k] = m[k]
      BY <1>5, <1>8, <3>1
    <3>4. o.from = u.from /\ o.to = u.to
      <4> DEFINE S == s[k]  U == t[k]  L == l[k]  M == m[k]  f == o.from  g == u.from
                 e == o.to  h == u.to
      <4>1. /\ S \in Int /\ U \in Int /\ L \in Int /\ M \in Int /\ sh \in Int
            /\ a \in Int /\ b \in Int /\ U = S + sh /\ M = L
        BY <2>1, <3>2, <3>3
      <4>2. /\ f = (IF a >= S THEN a ELSE S) - S
            /\ e = (IF b <= S + L THEN b ELSE S + L) - S
        BY <2>2
      <4>3. /\ g = (IF a + sh >= U THEN a + sh ELSE U) - U
            /\ h = (IF b + sh <= U + M THEN b + sh ELSE U + M) - U
        BY <2>3
      <4> HIDE DEF S, U, L, M, f, g, e, h
      <4>4. f = g /\ e = h
        BY <4>1, <4>2, <4>3, CutsMove
      <4> QED BY <4>4 DEF f, g, e, h
    <3>5. NonEmpty(u)
      BY <2>2, <2>3, <2>5, <3>4
    <3>6. o = u
      BY <2>4, <3>3, <3>4, Zenon
    <3> QED BY <3>5, <3>6
  <2>6. ASSUME NonEmpty(u)
        PROVE  NonEmpty(o)
    <3>1. a + sh < t[k] + m[k] /\ t[k] < b + sh /\ m[k] > 0
      BY <1>13, <2>1, <2>3, <2>6, SMTT(30)
    <3>2. l[k] > 0
      BY <1>9, <2>1, <3>1
    <3>3. a < s[k] + l[k] /\ s[k] < b
      BY <1>12, <3>1, <3>2 DEF Moves
    <3> QED BY <2>1, <2>2, <3>2, <3>3
  <2> QED BY <2>5, <2>6 DEF o, u
<1>20. Spans(P, a + sh, b + sh) = Spans(Q, a, b)
  <2>1. DOMAIN Q = 1..N /\ DOMAIN P = 1..N
    BY <1>1 DEF N
  <2>2. places \in SUBSET Int /\ IsFiniteSet(places)
    <3>1. IsFiniteSet(1..N)
      BY <1>1, FS_Interval
    <3>2. places \subseteq 1..N
      BY <2>1
    <3> HIDE DEF places
    <3>3. IsFiniteSet(places)
      BY <3>1, <3>2, FS_Subset
    <3> QED BY <3>2, <3>3
  <2>3. places = {k \in DOMAIN P : NonEmpty(r[k])}
    BY <1>19, <2>1
  <2>4. \A k \in places : q[k] = r[k]
    BY <1>19, <2>1
  <2>5. Spans(Q, a, b) = Picked(q, places) /\ Spans(P, a + sh, b + sh) = Picked(r, places)
    <3>1. Spans(Q, a, b) = Picked(q, places)
      BY DEF Spans
    <3>2. Spans(P, a + sh, b + sh) = Picked(r, {k \in DOMAIN P : NonEmpty(r[k])})
      BY DEF Spans
    <3> HIDE DEF q, r, places
    <3> QED BY <2>3, <3>1, <3>2
  <2> HIDE DEF q, r, places
  <2> QED BY <2>2, <2>4, <2>5, PickedAlike
<1>21. a + sh + Len(T) = b + sh
  BY <1>15
<1>22. /\ a + sh \in Nat /\ a + sh + Len(T) <= Len(Joined(P))
       /\ Slice(Joined(P), a + sh, a + sh + Len(T)) = T
       /\ Spans(P, a + sh, a + sh + Len(T)) = Spans(Q, a, b)
  BY <1>13, <1>18, <1>20, <1>21 DEF V
<1>23. StandsIn(P, T, Spans(Q, a, b))
  BY <1>22 DEF StandsIn
<1> QED BY <1>23 DEF T

(***************************************************************************)
(* Bounds, pieces and cuts                                                 *)
(***************************************************************************)

(* The white space behind a stop ends within the text.                      *)
LEMMA AfterSpaceIs ==
  ASSUME NEW t, NEW i \in Nat, NEW w \in Nat, i < w
  PROVE  AfterSpace(t, i, w) \in (i + 1)..w
<1> DEFINE S == {j \in (i + 1)..w : \A k \in (i + 2)..j : t[k] \in Space}
<1>1. i + 1 \in S
  <2>1. i + 1 \in (i + 1)..w /\ (i + 2)..(i + 1) = {}
    OBVIOUS
  <2> QED BY <2>1
<1>3. S \subseteq (i + 1)..w
  OBVIOUS
<1>2. S \in SUBSET Int /\ S # {} /\ w \in Int /\ \A y \in S : y <= w
  <2>1. S # {}
    BY <1>1
  <2> HIDE DEF S
  <2> QED BY <1>3, <2>1
<1>4. AfterSpace(t, i, w) = Max(S)
  BY DEF AfterSpace
<1> HIDE DEF S
<1>5. Max(S) \in S
  BY <1>2, MaxIs
<1> QED BY <1>3, <1>4, <1>5

(* The edges of sentences lie behind the place where the search begins and  *)
(* not behind its end.                                                      *)
LEMMA EdgesAre ==
  ASSUME NEW t \in Text, NEW lower \in Nat, NEW upper \in Nat
  PROVE  Edges(t, lower, upper) \subseteq (lower + 1)..upper
<1> DEFINE w == Min({Len(t), upper + 1})
<1>1. Len(t) \in Nat
  BY DEF Text
<1>2. w \in Nat
  BY <1>1, MinMaxOfTwo
<1> DEFINE stops == {i \in lower..(w - 1) :
                  \/ t[i + 1] = WideStop
                  \/ /\ t[i + 1] = Stop1
                     /\ AfterSpace(t, i, w) > i + 1 \/ i + 1 = w
                     /\ ~(i > 0 /\ t[i] = Abbreviation)}
<1>3. Edges(t, lower, upper) = {e \in {AfterSpace(t, i, w) : i \in stops} : e <= upper}
  BY DEF Edges
<1>4. stops \subseteq lower..(w - 1)
  OBVIOUS
<1> HIDE DEF w, stops
<1>5. ASSUME NEW i \in stops
      PROVE  AfterSpace(t, i, w) \in Int /\ AfterSpace(t, i, w) > lower
  <2>1. i \in Nat /\ i < w /\ i >= lower
    BY <1>2, <1>4
  <2>2. AfterSpace(t, i, w) \in (i + 1)..w
    BY <1>2, <2>1, AfterSpaceIs
  <2> QED BY <1>2, <2>1, <2>2
<1>6. ASSUME NEW e \in Edges(t, lower, upper)
      PROVE  e \in (lower + 1)..upper
  <2>1. PICK i \in stops : e = AfterSpace(t, i, w)
    BY <1>3
  <2>2. e \in Int /\ e > lower
    BY <1>5, <2>1
  <2>3. e <= upper
    BY <1>3
  <2> QED BY <2>2, <2>3
<1> QED BY <1>6

(* Moved to the edges of sentences, a stretch still holds its inner part    *)
(* and does not grow.                                                       *)
LEMMA ToEdgesIs ==
  ASSUME NEW t \in Text, NEW lower \in Nat, NEW upper \in Nat,
         NEW start \in Nat, NEW end \in Nat, lower <= start, end <= upper,
         NEW b, b = ToEdges(t, start, end, lower, upper)
  PROVE  b.from \in lower..start /\ b.to \in end..upper
<1> DEFINE starts == {e \in Edges(t, lower, upper) : e <= start}
           ends == {e \in Edges(t, lower, upper) : e >= end}
<1>1. /\ b.from = IF lower = 0 \/ starts = {} THEN lower ELSE Min(starts)
      /\ b.to = IF upper = Len(t) \/ ends = {} THEN upper ELSE Max(ends)
  BY DEF ToEdges
<1>2. starts \in SUBSET Nat /\ \A e \in starts : lower <= e /\ e <= start
  BY EdgesAre
<1>3. ends \in SUBSET Int /\ \A e \in ends : e <= upper /\ end <= e
  BY EdgesAre
<1> HIDE DEF starts, ends
<1>4. b.from \in lower..start
  <2>1. CASE lower = 0 \/ starts = {}
    BY <1>1, <2>1
  <2>2. CASE ~(lower = 0 \/ starts = {})
    <3>1. starts \in SUBSET Nat /\ starts # {}
      BY <1>2, <2>2
    <3>2. Min(starts) \in starts
      BY <3>1, MinIs
    <3>3. b.from = Min(starts)
      BY <1>1, <2>2
    <3>4. b.from \in starts
      BY <3>2, <3>3
    <3>5. lower <= b.from /\ b.from <= start
      BY <1>2, <3>4, Zenon
    <3>6. b.from \in Nat
      BY <1>2, <3>4
    <3> QED BY <3>5, <3>6
  <2> QED BY <2>1, <2>2
<1>5. b.to \in end..upper
  <2>1. CASE upper = Len(t) \/ ends = {}
    BY <1>1, <2>1
  <2>2. CASE ~(upper = Len(t) \/ ends = {})
    <3>1. ends \in SUBSET Int /\ ends # {} /\ upper \in Int /\ \A e \in ends : e <= upper
      BY <1>3, <2>2
    <3>2. Max(ends) \in ends
      BY <3>1, MaxIs
    <3>4. b.to = Max(ends)
      BY <1>1, <2>2
    <3>3. b.to \in ends
      BY <3>2, <3>4
    <3>5. b.to <= upper /\ end <= b.to
      BY <1>3, <3>3, Zenon
    <3>6. b.to \in Int
      BY <1>3, <3>3
    <3> QED BY <3>5, <3>6
  <2> QED BY <2>1, <2>2
<1> QED BY <1>4, <1>5

(* A context holds all of its hit, ends within the text, and is no longer   *)
(* than the budget, or than the hit when the hit alone exceeds it.          *)
Bounded(b, start, end, n, budget) ==
  /\ b.from \in 0..start /\ b.to \in end..n
  /\ b.to - b.from <= budget \/ b.to - b.from <= end - start

(* The bounds around a hit: inside the page, around it, within the budget.  *)
LEMMA ContextBoundsIs ==
  ASSUME NEW t \in Text, NEW start \in Nat, NEW end \in Nat, start <= end, end <= Len(t),
         NEW budget \in Nat,
         NEW b, b = ContextBounds(t, start, end, budget)
  PROVE  Bounded(b, start, end, Len(t), budget)
<1> DEFINE n == Len(t)
           spare == Spare(end - start, budget)
           half == spare \div 2
           before == Min({start, half})
           right == Min({n - end, spare - before})
           left == Min({start, spare - right})
<1>1. n \in Nat
  BY DEF Text
<1>2. spare \in Nat /\ (spare <= budget - (end - start) \/ spare = 0)
  BY DEF Spare
<1>3. half \in Nat /\ half <= spare
  BY <1>2
<1>4. b = ToEdges(t, start, end, start - left, end + right)
  BY DEF ContextBounds
<1> HIDE DEF n, spare, half
<1>5. before \in Nat /\ before <= spare
  BY <1>2, <1>3, MinMaxOfTwo
<1> HIDE DEF before
<1>6. right \in Nat /\ right <= n - end /\ right <= spare
  <2>1. n - end \in Nat /\ spare - before \in Nat
    BY <1>1, <1>2, <1>5 DEF n
  <2> DEFINE x == n - end  y == spare - before
  <2>2. x \in Nat /\ y \in Nat /\ y <= spare
    BY <1>2, <1>5, <2>1
  <2>3. x \in Int /\ y \in Int /\ right = Min({x, y})
    BY <2>2
  <2> HIDE DEF x, y
  <2>4. right = IF x <= y THEN x ELSE y
    BY <2>3, MinMaxOfTwo
  <2>5. right \in Nat /\ right <= x /\ right <= y
    BY <2>2, <2>4
  <2> QED BY <1>2, <2>2, <2>5 DEF x
<1> HIDE DEF right
<1>7. left \in Nat /\ left <= start /\ left <= spare - right
  <2>1. spare - right \in Nat
    BY <1>2, <1>6
  <2> DEFINE y == spare - right
  <2>2. left = IF start <= y THEN start ELSE y
    BY <2>1, MinMaxOfTwo
  <2> QED BY <2>1, <2>2
<1> HIDE DEF left
<1> DEFINE lower == start - left  upper == end + right
<1>8. lower \in Nat /\ upper \in Nat /\ lower <= start /\ end <= upper /\ upper <= n
      /\ upper - lower <= (end - start) + spare
  BY <1>1, <1>6, <1>7, <1>2
<1> HIDE DEF lower, upper
<1>9. b.from \in lower..start /\ b.to \in end..upper
  <2>1. b = ToEdges(t, start, end, lower, upper)
    BY <1>4 DEF lower, upper
  <2> QED BY <1>8, <2>1, ToEdgesIs
<1>10. b.from \in 0..start /\ b.to \in end..n /\ b.to - b.from <= (end - start) + spare
  <2> DEFINE x == b.from  y == b.to
  <2>1. x \in Nat /\ y \in Nat /\ lower <= x /\ x <= start /\ end <= y /\ y <= upper
    BY <1>8, <1>9
  <2> HIDE DEF x, y
  <2>2. x \in 0..start /\ y \in end..n /\ y - x <= (end - start) + spare
    BY <1>1, <1>2, <1>8, <2>1
  <2> QED BY <2>2 DEF x, y
<1>11. b.to - b.from <= budget \/ b.to - b.from <= end - start
  BY <1>2, <1>10
<1> QED BY <1>10, <1>11 DEF Bounded, n

(* A place lies in one of the intervals.                                    *)
Lies(covered, i) == \E c \in covered : c[1] <= i /\ i < c[2]

(* The uncovered intervals: in order, apart, within the stretch, of         *)
(* uncovered places, and of all of them.                                    *)
Clears(r, from, to, covered) ==
  /\ Len(r) \in Nat /\ DOMAIN r = 1..Len(r)
  /\ \A n \in 1..Len(r) : /\ r[n][1] \in Nat /\ r[n][2] \in Nat
                          /\ from <= r[n][1] /\ r[n][1] < r[n][2] /\ r[n][2] <= to
                          /\ \A i \in r[n][1]..(r[n][2] - 1) : ~Lies(covered, i)
  /\ \A m, n \in 1..Len(r) : m < n => r[m][2] <= r[n][1]
  /\ \A i \in from..(to - 1) :
       Lies(covered, i) \/ \E n \in 1..Len(r) : r[n][1] <= i /\ i < r[n][2]

(* The end of the piece that starts at i.                                   *)
EndsAt(i, to, covered) == Min({j \in (i + 1)..to : j = to \/ Lies(covered, j)})

(* An uncovered interval ends at the next covered place.                    *)
LEMMA EndsAtIs ==
  ASSUME NEW i \in Nat, NEW to \in Nat, i < to, NEW covered,
         NEW e, e = EndsAt(i, to, covered)
  PROVE  /\ e \in (i + 1)..to /\ (e = to \/ Lies(covered, e))
         /\ \A j \in (i + 1)..to : Lies(covered, j) => e <= j
<1> DEFINE S == {j \in (i + 1)..to : j = to \/ Lies(covered, j)}
<1>1. to \in S
  OBVIOUS
<1>2. \A j \in S : j \in (i + 1)..to /\ (j = to \/ Lies(covered, j))
  OBVIOUS
<1>3. \A j \in (i + 1)..to : Lies(covered, j) => j \in S
  OBVIOUS
<1>4. e = Min(S)
  BY DEF EndsAt
<1> HIDE DEF S
<1>5. S \in SUBSET Nat /\ S # {}
  BY <1>1, <1>2
<1>6. e \in S /\ \A y \in S : e <= y
  BY <1>4, <1>5, MinIs
<1> QED BY <1>2, <1>3, <1>6

(* What is left of an interval: pieces that are clear of what is covered,   *)
(* and all of it.                                                           *)
LEMMA SubtractIs ==
  ASSUME NEW from \in Nat, NEW to \in Nat, NEW covered,
         NEW r, r = Subtract(from, to, covered)
  PROVE  Clears(r, from, to, covered)
<1> DEFINE first == {i \in from..(to - 1) : ~Lies(covered, i) /\ (i = from \/ Lies(covered, i - 1))}
           order == Ascending(first)
           N == Cardinality(first)
<1>1. r = [n \in DOMAIN order |-> <<order[n], EndsAt(order[n], to, covered)>>]
  <2>1. {i \in {i \in from..(to - 1) : ~Lies(covered, i)} : i = from \/ Lies(covered, i - 1)}
            = first
    OBVIOUS
  <2> HIDE DEF first
  <2> QED BY <2>1, Zenon DEF Subtract, EndsAt, Lies
<1>2. \A i \in first : /\ i \in Nat /\ from <= i /\ i < to /\ ~Lies(covered, i)
                       /\ (i = from \/ Lies(covered, i - 1))
  OBVIOUS
<1>3. \A i \in from..(to - 1) : ~Lies(covered, i) /\ (i = from \/ Lies(covered, i - 1))
          => i \in first
  OBVIOUS
<1>4. first \in SUBSET Int /\ IsFiniteSet(first)
  <2>1. first \subseteq from..(to - 1) /\ IsFiniteSet(from..(to - 1))
    BY FS_Interval
  <2>2. first \subseteq Int
    OBVIOUS
  <2> HIDE DEF first
  <2>3. IsFiniteSet(first)
    BY <2>1, FS_Subset
  <2> QED BY <2>2, <2>3
<1> HIDE DEF first
<1>5. /\ N \in Nat /\ order \in [1..N -> first]
      /\ \A k, l \in 1..N : k < l => order[k] < order[l]
      /\ \A s \in first : \E k \in 1..N : order[k] = s
  BY <1>4, AscendingEnumerates
<1> HIDE DEF order, N
<1>6. /\ Len(r) = N /\ DOMAIN r = 1..N
      /\ \A n \in 1..N : r[n][1] = order[n] /\ r[n][2] = EndsAt(order[n], to, covered)
  <2>1. r = [n \in 1..N |-> <<order[n], EndsAt(order[n], to, covered)>>]
    BY <1>1, <1>5
  <2>2. Len(r) = N /\ DOMAIN r = 1..N
    BY <1>5, <2>1
  <2>3. ASSUME NEW n \in 1..N
        PROVE  r[n][1] = order[n] /\ r[n][2] = EndsAt(order[n], to, covered)
    <3>1. r[n] = <<order[n], EndsAt(order[n], to, covered)>>
      BY <2>1
    <3> QED BY <3>1
  <2> QED BY <2>2, <2>3
<1>7. ASSUME NEW n \in 1..N
      PROVE  /\ order[n] \in Nat /\ from <= order[n] /\ order[n] < to /\ ~Lies(covered, order[n])
             /\ (order[n] = from \/ Lies(covered, order[n] - 1))
             /\ r[n][1] = order[n] /\ r[n][2] \in (order[n] + 1)..to
             /\ (r[n][2] = to \/ Lies(covered, r[n][2]))
             /\ \A j \in (order[n] + 1)..to : Lies(covered, j) => r[n][2] <= j
  <2>1. /\ order[n] \in Nat /\ from <= order[n] /\ order[n] < to /\ ~Lies(covered, order[n])
        /\ (order[n] = from \/ Lies(covered, order[n] - 1))
    BY <1>2, <1>5
  <2> QED BY <1>6, <2>1, EndsAtIs, SMTT(30)
<1>8. ASSUME NEW n \in 1..N
      PROVE  /\ r[n][1] \in Nat /\ r[n][2] \in Nat
             /\ from <= r[n][1] /\ r[n][1] < r[n][2] /\ r[n][2] <= to
             /\ \A i \in r[n][1]..(r[n][2] - 1) : ~Lies(covered, i)
  <2> DEFINE a == order[n]  e == r[n][2]
  <2>1. /\ a \in Nat /\ from <= a /\ a < to /\ ~Lies(covered, a)
        /\ r[n][1] = a /\ e \in (a + 1)..to
        /\ \A j \in (a + 1)..to : Lies(covered, j) => e <= j
    BY <1>7
  <2> HIDE DEF a, e
  <2>2. ASSUME NEW i \in a..(e - 1) PROVE ~Lies(covered, i)
    <3>1. i = a \/ (i \in (a + 1)..to /\ ~(e <= i))
      BY <2>1, <2>2
    <3> QED BY <2>1, <3>1
  <2>3. e \in Nat /\ a < e /\ e <= to
    BY <2>1
  <2> QED BY <2>1, <2>2, <2>3 DEF e
<1>9. ASSUME NEW m \in 1..N, NEW n \in 1..N, m < n
      PROVE  r[m][2] <= r[n][1]
  <2> DEFINE a == order[m]  e == r[m][2]  b == order[n]
  <2>1. /\ a \in Nat /\ from <= a /\ ~Lies(covered, a) /\ e \in (a + 1)..to
        /\ \A j \in (a + 1)..to : Lies(covered, j) => e <= j
    BY <1>7
  <2>2. b \in Nat /\ b < to /\ r[n][1] = b /\ (b = from \/ Lies(covered, b - 1))
    BY <1>7
  <2>3. a < b
    BY <1>5, <1>9
  <2> HIDE DEF a, e, b
  <2>4. Lies(covered, b - 1) /\ b - 1 # a
    <3>1. Lies(covered, b - 1)
      BY <2>1, <2>2, <2>3
    <3> QED BY <2>1, <3>1
  <2>5. b - 1 \in (a + 1)..to
    BY <2>1, <2>2, <2>3, <2>4
  <2>6. e <= b - 1
    BY <2>1, <2>4, <2>5
  <2> QED BY <2>1, <2>2, <2>6 DEF e
<1>10. ASSUME NEW i \in from..(to - 1), ~Lies(covered, i)
       PROVE  \E n \in 1..N : r[n][1] <= i /\ i < r[n][2]
  <2> DEFINE S == {j \in from..i : \A k \in j..i : ~Lies(covered, k)}
  <2>1. i \in S
    <3>1. \A k \in i..i : k = i
      OBVIOUS
    <3> QED BY <1>10, <3>1
  <2>2. S \in SUBSET Nat /\ S # {}
    BY <2>1
  <2>3. PICK m \in S : \A y \in S : m <= y
    <3> HIDE DEF S
    <3> QED BY <2>2, LeastOne
  <2>4. m \in from..i /\ \A k \in m..i : ~Lies(covered, k)
    OBVIOUS
  <2>5. m \in from..(to - 1) /\ ~Lies(covered, m)
    BY <2>4
  <2>6. m = from \/ Lies(covered, m - 1)
    <3>1. SUFFICES ASSUME m # from, ~Lies(covered, m - 1) PROVE FALSE
      OBVIOUS
    <3>2. m - 1 \in from..i /\ \A k \in (m - 1)..i : k = m - 1 \/ k \in m..i
      BY <2>4, <3>1
    <3>3. m - 1 \in S
      BY <2>4, <3>1, <3>2
    <3>4. m <= m - 1
      BY <2>3, <3>3
    <3> QED BY <2>4, <3>4
  <2>7. PICK n \in 1..N : order[n] = m
    BY <1>3, <1>5, <2>5, <2>6
  <2>8. r[n][1] = m /\ r[n][2] \in (m + 1)..to /\ (r[n][2] = to \/ Lies(covered, r[n][2]))
    BY <1>7, <2>7
  <2> DEFINE e == r[n][2]
  <2>9. e \in (m + 1)..to /\ (e = to \/ Lies(covered, e))
    BY <2>8
  <2> HIDE DEF e
  <2>10. i < e
    <3>1. SUFFICES ASSUME e <= i PROVE FALSE
      BY <2>9
    <3>2. e \in m..i /\ e # to
      BY <2>4, <2>9, <3>1
    <3> QED BY <2>4, <2>9, <3>2
  <2> QED BY <2>4, <2>8, <2>10 DEF e
<1> QED BY <1>5, <1>6, <1>8, <1>9, <1>10 DEF Clears

(* The larger of two.                                                      *)
LEMMA MaxOfTwo ==
  ASSUME NEW a \in Int, NEW b \in Int, NEW m, m = Max({a, b})
  PROVE  m = IF a >= b THEN a ELSE b
<1>1. Max({a, b}) = IF a >= b THEN a ELSE b
  BY MinMaxOfTwo
<1> QED BY <1>1

(* A cut fits the room, lies in its piece, and is the piece when that fits. *)
Fits(cut, piece, room) ==
  /\ cut[1] \in Nat /\ cut[2] \in Nat
  /\ piece[1] <= cut[1] /\ cut[1] <= cut[2] /\ cut[2] <= piece[2]
  /\ cut[2] - cut[1] <= room
  /\ piece[2] - piece[1] <= room => cut = piece

(* A piece cut to the room left lies in the piece and fits.                 *)
LEMMA CutToFitIs ==
  ASSUME NEW text \in Text, NEW c, c.at \in Nat, c.length \in Nat,
         NEW piece, piece[1] \in Nat, piece[2] \in Nat, piece[1] < piece[2],
         piece[2] <= Len(text), NEW room \in Nat,
         NEW cut, cut = CutToFit(text, c, piece, room)
  PROVE  Fits(cut, piece, room)
<1>1. CASE piece[2] - piece[1] <= room
  <2>1. cut = piece
    BY <1>1 DEF CutToFit
  <2> DEFINE p == piece[1]  q == piece[2]
  <2>2. p \in Nat /\ q \in Nat /\ p < q /\ q - p <= room
    BY <1>1
  <2>3. cut[1] = p /\ cut[2] = q
    BY <2>1
  <2> HIDE DEF p, q
  <2>4. cut[1] \in Nat /\ cut[2] \in Nat /\ p <= cut[1] /\ cut[1] <= cut[2] /\ cut[2] <= q
        /\ cut[2] - cut[1] <= room
    BY <2>2, <2>3
  <2> QED BY <2>1, <2>4 DEF Fits, p, q
<1>2. CASE ~(piece[2] - piece[1] <= room)
  <2> DEFINE p == piece[1]  q == piece[2]  at == c.at  l == c.length
             x == Min({at, q})
             a == Max({p, x})
             y == Min({at + l, q})
             z == Max({a, y})
             b == Min({z, a + room})
             t == Slice(text, p, q)
             w == ContextBounds(t, a - p, b - p, room)
  <2>1. /\ p \in Nat /\ q \in Nat /\ p < q /\ q <= Len(text) /\ at \in Nat /\ l \in Nat
        /\ ~(q - p <= room)
    BY <1>2
  <2>2. cut = Shifted(w, p)
    BY <1>2 DEF CutToFit
  <2> HIDE DEF p, q, at, l
  <2>3. x = IF at <= q THEN at ELSE q
    BY <2>1, MinMaxOfTwo
  <2>4. x \in Nat /\ x <= q
    BY <2>1, <2>3
  <2> HIDE DEF x
  <2>5. a = IF p >= x THEN p ELSE x
    <3>1. p \in Int /\ x \in Int
      BY <2>1, <2>4
    <3> QED BY <3>1, MaxOfTwo
  <2>6. a \in Nat /\ p <= a /\ a <= q
    BY <2>1, <2>4, <2>5
  <2> HIDE DEF a
  <2>7. y \in Nat /\ y <= q
    <3> DEFINE e == at + l
    <3>1. e \in Nat
      BY <2>1
    <3>2. y = Min({e, q})
      OBVIOUS
    <3> HIDE DEF e
    <3>3. y = IF e <= q THEN e ELSE q
      BY <2>1, <3>1, <3>2, MinMaxOfTwo
    <3> QED BY <2>1, <3>1, <3>3
  <2> HIDE DEF y
  <2>8. z = IF a >= y THEN a ELSE y
    <3>1. a \in Int /\ y \in Int
      BY <2>6, <2>7
    <3> QED BY <3>1, MaxOfTwo
  <2>9. z \in Nat /\ a <= z /\ z <= q
    BY <2>6, <2>7, <2>8
  <2> HIDE DEF z
  <2>10. b \in Nat /\ a <= b /\ b <= q /\ b <= a + room
    <3> DEFINE e == a + room
    <3>1. e \in Nat /\ a <= e
      BY <2>6
    <3>2. b = Min({z, e})
      OBVIOUS
    <3> HIDE DEF e
    <3>3. b = IF z <= e THEN z ELSE e
      BY <2>9, <3>1, <3>2, MinMaxOfTwo
    <3> DEFINE f == b
    <3>4. f = IF z <= e THEN z ELSE e
      BY <3>3
    <3> HIDE DEF f
    <3>5. f \in Nat /\ a <= f /\ f <= q /\ f <= e
      BY <2>1, <2>6, <2>9, <3>1, <3>4
    <3> QED BY <3>5 DEF e, f
  <2> HIDE DEF b
  <2>11. t \in Text /\ Len(t) = q - p
    <3>1. p \in Nat /\ q \in Nat /\ p <= q /\ q <= Len(text)
      BY <2>1
    <3> QED BY <3>1, SliceIs
  <2> HIDE DEF t
  <2> DEFINE start == a - p  end == b - p
  <2>12. /\ start \in Nat /\ end \in Nat /\ start <= end /\ end <= Len(t) /\ end - start <= room
    BY <2>1, <2>6, <2>10, <2>11
  <2>13. w = ContextBounds(t, start, end, room)
    OBVIOUS
  <2> HIDE DEF start, end, w
  <2>14. Bounded(w, start, end, Len(t), room)
    BY <2>11, <2>12, <2>13, ContextBoundsIs
  <2> DEFINE u == w.from  v == w.to
  <2>15. /\ u \in 0..start /\ v \in end..Len(t) /\ (v - u <= room \/ v - u <= end - start)
         /\ cut = <<p + u, p + v>>
    BY <2>2, <2>14 DEF Bounded, Shifted
  <2> HIDE DEF u, v
  <2>16. u \in Nat /\ v \in Nat /\ u <= v /\ v <= q - p /\ v - u <= room
    BY <2>1, <2>11, <2>12, <2>15
  <2>17. cut[1] = p + u /\ cut[2] = p + v
    BY <2>15
  <2> DEFINE d == cut[1]  e == cut[2]
  <2>18. d = p + u /\ e = p + v
    BY <2>17
  <2> HIDE DEF d, e
  <2>19. d \in Nat /\ e \in Nat /\ p <= d /\ d <= e /\ e <= q /\ e - d <= room
    BY <2>1, <2>16, <2>18
  <2> QED BY <1>2, <2>19 DEF Fits, d, e, p, q
<1> QED BY <1>1, <1>2

(***************************************************************************)
(* The lines of pages.jsonl and what the reader makes of them              *)
(***************************************************************************)

(* The line of pages.jsonl for a page, its text as written or damaged.      *)
IsLine(r, n, k) ==
  /\ r = [line |-> <<n, k>>, file |-> documents[n].file, paper |-> documents[n].paper,
          hash |-> documents[n].hash, main |-> SourceOf(documents[n].file).main, page |-> k,
          text |-> r.text, textHash |-> documents[n].pages[k]]
  /\ r.text \in Text
  /\ r.text = <<>> => documents[n].pages[k] = <<>>

(* One line for every page of every document, and no other.                 *)
AreLines(R) ==
  /\ \A r \in R : \E n \in 1..Len(documents) : \E k \in 1..Len(documents[n].pages) : IsLine(r, n, k)
  /\ \A n \in 1..Len(documents) : \A k \in 1..Len(documents[n].pages) :
         \E r \in R : r.line = <<n, k>>
  /\ \A r, s \in R : r.line = s.line => r = s

(* The documents of a build have pages of text.                             *)
LEMMA DocumentsAre ==
  ASSUME IngestInv
  PROVE  /\ Len(documents) \in Nat /\ DOMAIN documents = 1..Len(documents)
         /\ documents = [i \in 1..Len(documents) |-> documents[i]]
         /\ \A n \in 1..Len(documents) :
              /\ documents[n] \in ToSet(documents)
              /\ documents[n].pages \in Seq(Text) /\ Len(documents[n].pages) \in Nat
              /\ Len(documents[n].pages) >= 1
              /\ DOMAIN documents[n].pages = 1..Len(documents[n].pages)
<1>1. IsList(documents) /\ AreTaken(documents, corpus, torn)
  BY DEF IngestInv, PlanMade
<1>2. /\ Len(documents) \in Nat /\ DOMAIN documents = 1..Len(documents)
      /\ documents = [i \in 1..Len(documents) |-> documents[i]]
      /\ \A n \in 1..Len(documents) : documents[n] \in ToSet(documents)
  BY <1>1, ListIs
<1>3. ASSUME NEW n \in 1..Len(documents)
      PROVE  /\ documents[n].pages \in Seq(Text) /\ Len(documents[n].pages) \in Nat
             /\ Len(documents[n].pages) >= 1
             /\ DOMAIN documents[n].pages = 1..Len(documents[n].pages)
  <2> DEFINE d == documents[n]
  <2>1. IsDocument(d) /\ Adapted(d) # None /\ Adapted(d) # <<>>
    BY <1>1, <1>2, TakenIs
  <2> HIDE DEF d
  <2>2. d.pages \in Seq(Text)
    BY <2>1 DEF IsDocument
  <2>3. MinChunkLen < Len(Indexed(d)) /\ Len(Indexed(d)) <= Len(Joined(d.pages))
    BY <2>1, AdaptedIs
  <2>4. d.pages # <<>>
    <3>1. SUFFICES ASSUME d.pages = <<>> PROVE FALSE
      OBVIOUS
    <3>2. Len(Joined(d.pages)) = 0 /\ Joined(d.pages) \in Text
      BY <2>2, <3>1, JoinedIs
    <3>3. Len(Indexed(d)) \in Nat
      BY <2>2, <3>2, WithoutReferencesIs DEF Indexed, Text
    <3> QED BY <2>3, <3>2, <3>3, ChunkAssumption
  <2>5. Len(d.pages) \in Nat /\ Len(d.pages) >= 1 /\ DOMAIN d.pages = 1..Len(d.pages)
    BY <2>2, <2>4
  <2> QED BY <2>2, <2>5 DEF d
<1> QED BY <1>2, <1>3

(* A line of a page is known by its place in the file.                      *)
LEMMA LineIs ==
  ASSUME NEW r, NEW n, NEW k, IsLine(r, n, k)
  PROVE  /\ r.line = <<n, k>> /\ r.file = documents[n].file /\ r.paper = documents[n].paper
         /\ r.hash = documents[n].hash /\ r.main = SourceOf(documents[n].file).main
         /\ r.page = k /\ r.textHash = documents[n].pages[k] /\ r.text \in Text
<1> DEFINE l == <<n, k>>  f == documents[n].file  p == documents[n].paper  h == documents[n].hash
           m == SourceOf(documents[n].file).main  x == r.text  y == documents[n].pages[k]
<1>1. r = [line |-> l, file |-> f, paper |-> p, hash |-> h, main |-> m, page |-> k,
           text |-> x, textHash |-> y] /\ x \in Text
  BY DEF IsLine
<1> HIDE DEF l, f, p, h, m, x, y
<1>2. r.line = l /\ r.file = f /\ r.paper = p /\ r.hash = h /\ r.main = m /\ r.page = k
      /\ r.textHash = y
  BY <1>1, Zenon
<1> QED BY <1>1, <1>2 DEF l, f, p, h, m, x, y

(* Equal pairs have equal members.                                          *)
LEMMA SamePlace ==
  ASSUME NEW n, NEW k, NEW m, NEW l, <<n, k>> = <<m, l>>
  PROVE  n = m /\ k = l
OBVIOUS

(* What a build writes are such lines, none damaged.                        *)
Undamaged(R) == \A r \in R : r.text = r.textHash

(* The page records that a build publishes are undamaged lines of its       *)
(* documents.                                                               *)
LEMMA RecordsAreLines ==
  ASSUME IngestInv
  PROVE  AreLines(PageRecords) /\ Undamaged(PageRecords)
<1>1. /\ DOMAIN documents = 1..Len(documents) /\ Len(documents) \in Nat
      /\ \A n \in 1..Len(documents) : /\ documents[n].pages \in Seq(Text)
                                      /\ DOMAIN documents[n].pages = 1..Len(documents[n].pages)
                                      /\ Len(documents[n].pages) \in Nat
  BY DocumentsAre
<1>2. \A r : r \in PageRecords <=> \E n \in 1..Len(documents) :
               \E k \in 1..Len(documents[n].pages) : r = PageRecord(n, k)
  BY <1>1 DEF PageRecords
<1>3. ASSUME NEW n \in 1..Len(documents), NEW k \in 1..Len(documents[n].pages),
             NEW r, r = PageRecord(n, k)
      PROVE  IsLine(r, n, k) /\ r.text = r.textHash /\ r.line = <<n, k>>
  <2> DEFINE l == <<n, k>>  f == documents[n].file  p == documents[n].paper
             h == documents[n].hash  m == SourceOf(documents[n].file).main
             y == documents[n].pages[k]
  <2>1. r = [line |-> l, file |-> f, paper |-> p, hash |-> h, main |-> m, page |-> k,
             text |-> y, textHash |-> y]
    BY <1>3 DEF PageRecord
  <2>2. y \in Text
    BY <1>1
  <2> HIDE DEF l, f, p, h, m, y
  <2>3. r.text = y /\ r.textHash = y /\ r.line = l
    BY <2>1, Zenon
  <2>4. r = [line |-> l, file |-> f, paper |-> p, hash |-> h, main |-> m, page |-> k,
             text |-> r.text, textHash |-> y]
    BY <2>1, <2>3, Zenon
  <2> QED BY <2>2, <2>3, <2>4 DEF IsLine, l, f, p, h, m, y
<1>4. \A r \in PageRecords : \E n \in 1..Len(documents) : \E k \in 1..Len(documents[n].pages) :
        IsLine(r, n, k)
  BY <1>2, <1>3
<1>5. \A n \in 1..Len(documents) : \A k \in 1..Len(documents[n].pages) :
        \E r \in PageRecords : r.line = <<n, k>>
  BY <1>2, <1>3
<1>6. ASSUME NEW r \in PageRecords, NEW s \in PageRecords, r.line = s.line PROVE r = s
  <2>1. PICK n \in 1..Len(documents) : \E k \in 1..Len(documents[n].pages) : r = PageRecord(n, k)
    BY <1>2
  <2>2. PICK k \in 1..Len(documents[n].pages) : r = PageRecord(n, k)
    BY <2>1
  <2>3. PICK m \in 1..Len(documents) : \E l \in 1..Len(documents[m].pages) : s = PageRecord(m, l)
    BY <1>2
  <2>4. PICK l \in 1..Len(documents[m].pages) : s = PageRecord(m, l)
    BY <2>3
  <2>5. <<n, k>> = <<m, l>>
    BY <1>3, <1>6, <2>2, <2>4
  <2> QED BY <2>2, <2>4, <2>5, SamePlace
<1>7. Undamaged(PageRecords)
  BY <1>2, <1>3 DEF Undamaged
<1> QED BY <1>4, <1>5, <1>6, <1>7 DEF AreLines

(* A damaged page is still the line of its place.                           *)
LEMMA DamagedAreLines ==
  ASSUME IngestInv, NEW R, AreLines(R), NEW p \in R,
         NEW S, S = (R \ {p}) \cup {[p EXCEPT !.text = Append(p.text, "x")]}
  PROVE  AreLines(S)
<1> DEFINE t == Append(p.text, "x")
           q == [p EXCEPT !.text = t]
<1>1. PICK n \in 1..Len(documents) : \E k \in 1..Len(documents[n].pages) : IsLine(p, n, k)
  BY DEF AreLines
<1>2. PICK k \in 1..Len(documents[n].pages) : IsLine(p, n, k)
  BY <1>1
<1>3. t \in Text /\ t # <<>>
  <2>1. p.text \in Text /\ "x" \in Characters
    <3>1. p.text \in Text
      BY <1>2, Zenon DEF IsLine
    <3>3. "x" \in Characters
      BY Zenon DEF Characters
    <3> QED BY <3>1, <3>3
  <2> DEFINE c == "x"  x == p.text
  <2>2. x \in Seq(Characters) /\ c \in Characters /\ t = Append(x, c)
    BY <2>1 DEF Text
  <2> HIDE DEF c, x, t
  <2>3. t \in Seq(Characters) /\ Len(t) = Len(x) + 1 /\ Len(x) \in Nat
    BY <2>2
  <2>4. t # <<>>
    BY <2>3
  <2> QED BY <2>3, <2>4 DEF Text
<1> HIDE DEF t
<1>4. IsLine(q, n, k) /\ q.line = p.line
  <2> DEFINE l == <<n, k>>  f == documents[n].file  pp == documents[n].paper
             h == documents[n].hash  m == SourceOf(documents[n].file).main
             y == documents[n].pages[k]  x == p.text
  <2>1. p = [line |-> l, file |-> f, paper |-> pp, hash |-> h, main |-> m, page |-> k,
             text |-> x, textHash |-> y]
    BY <1>2 DEF IsLine
  <2> HIDE DEF l, f, pp, h, m, y, x
  <2>2. q = [line |-> l, file |-> f, paper |-> pp, hash |-> h, main |-> m, page |-> k,
             text |-> t, textHash |-> y]
    BY <2>1
  <2> HIDE DEF q
  <2>3. q.text = t /\ q.line = l /\ p.line = l
    BY <2>1, <2>2, Zenon
  <2>4. q = [line |-> l, file |-> f, paper |-> pp, hash |-> h, main |-> m, page |-> k,
             text |-> q.text, textHash |-> y]
    BY <2>2, <2>3, Zenon
  <2> QED BY <1>3, <2>3, <2>4 DEF IsLine, l, f, pp, h, m, y
<1> HIDE DEF q
<1>5. S = (R \ {p}) \cup {q}
  BY DEF q, t
<1>6. \A r \in S : \E i \in 1..Len(documents) :
          \E j \in 1..Len(documents[i].pages) : IsLine(r, i, j)
  <2> TAKE r \in S
  <2>1. CASE r \in R
    BY <2>1 DEF AreLines
  <2>2. CASE r = q
    BY <1>4, <2>2
  <2> QED BY <1>5, <2>1, <2>2
<1>7. \A i \in 1..Len(documents) : \A j \in 1..Len(documents[i].pages) :
          \E r \in S : r.line = <<i, j>>
  BY <1>4, <1>5 DEF AreLines
<1>8. \A r, s \in S : r.line = s.line => r = s
  BY <1>4, <1>5 DEF AreLines
<1> QED BY <1>6, <1>7, <1>8 DEF AreLines

(* Where no page is there twice, no attachment is there twice.              *)
LEMMA OneDocument ==
  ASSUME IngestInv, AreLines(Pages), ~TwicePaged,
         NEW n \in 1..Len(documents), NEW m \in 1..Len(documents),
         documents[n].file = documents[m].file
  PROVE  n = m
<1> SUFFICES ASSUME n # m PROVE FALSE
  OBVIOUS
<1>1. 1 \in 1..Len(documents[n].pages) /\ 1 \in 1..Len(documents[m].pages)
  BY DocumentsAre
<1>2. PICK r \in Pages : r.line = <<n, 1>>
  BY <1>1 DEF AreLines
<1>3. PICK s \in Pages : s.line = <<m, 1>>
  BY <1>1 DEF AreLines
<1>4. r.file = documents[n].file /\ r.page = 1
  <2>1. PICK i \in 1..Len(documents) : \E k \in 1..Len(documents[i].pages) : IsLine(r, i, k)
    BY DEF AreLines
  <2>2. PICK k \in 1..Len(documents[i].pages) : IsLine(r, i, k)
    BY <2>1
  <2>3. i \in Nat /\ k \in Nat
    BY DocumentsAre
  <2>4. <<i, k>> = <<n, 1>>
    BY <1>2, <2>2, <2>3, LineIs
  <2>5. i = n /\ k = 1
    BY <2>4, SamePlace
  <2>6. r.file = documents[i].file /\ r.page = k
    BY <2>2, LineIs
  <2> QED BY <2>5, <2>6
<1>5. s.file = documents[m].file /\ s.page = 1
  <2>1. PICK i \in 1..Len(documents) : \E k \in 1..Len(documents[i].pages) : IsLine(s, i, k)
    BY DEF AreLines
  <2>2. PICK k \in 1..Len(documents[i].pages) : IsLine(s, i, k)
    BY <2>1
  <2>3. i \in Nat /\ k \in Nat
    BY DocumentsAre
  <2>4. <<i, k>> = <<m, 1>>
    BY <1>3, <2>2, <2>3, LineIs
  <2>5. i = m /\ k = 1
    BY <2>4, SamePlace
  <2>6. s.file = documents[i].file /\ s.page = k
    BY <2>2, LineIs
  <2> QED BY <2>5, <2>6
<1>6. r # s
  <2>1. SUFFICES ASSUME r = s PROVE FALSE
    OBVIOUS
  <2>2. <<n, 1>> = <<m, 1>>
    BY <1>2, <1>3, <2>1
  <2> QED BY <2>2, SamePlace
<1> QED BY <1>4, <1>5, <1>6 DEF TwicePaged

(* The lines of the page file that are about file f.                        *)
OwnPages(f) == {p \in Pages : p.file = f}

(* Them, by their page.                                                     *)
OwnOrder(f) ==
  [k \in 1..Cardinality(OwnPages(f)) |->
     CHOOSE s \in OwnPages(f) : Cardinality({r \in OwnPages(f) : r.page < s.page}) = k - 1]

(* The pages of a file that the reader sees are the texts of its lines in   *)
(* order.                                                                   *)
LEMMA PagesUnfold ==
  ASSUME NEW f
  PROVE  PagesOfFile(f) = [k \in DOMAIN OwnOrder(f) |-> OwnOrder(f)[k].text]
BY Zenon DEF PagesOfFile, Ordered, OwnOrder, OwnPages

(* The pages the reader finds for an attachment are its document's lines,   *)
(* page by page.                                                            *)
ReadsLines(P, n) ==
  /\ P \in Seq(Text) /\ Len(P) = Len(documents[n].pages)
  /\ \A k \in 1..Len(P) : \E r \in Pages : IsLine(r, n, k) /\ P[k] = r.text

(* The pages of a file, when no two lines have one page, are lines of its   *)
(* document.                                                                *)
LEMMA PagesOfFileIs ==
  ASSUME IngestInv, AreLines(Pages), ~TwicePaged,
         NEW n \in 1..Len(documents), NEW f, f = documents[n].file
  PROVE  ReadsLines(PagesOfFile(f), n)
<1> DEFINE own == OwnPages(f)
           N == Len(documents[n].pages)
           q == OwnOrder(f)
<1>1. N \in Nat /\ n \in Nat
  BY DocumentsAre
<1>2. \A r \in own : r \in Pages /\ \E k \in 1..N : IsLine(r, n, k)
  <2> TAKE r \in own
  <2>1. r \in Pages /\ r.file = f
    BY DEF OwnPages
  <2>2. PICK i \in 1..Len(documents) : \E k \in 1..Len(documents[i].pages) : IsLine(r, i, k)
    BY <2>1 DEF AreLines
  <2>3. PICK k \in 1..Len(documents[i].pages) : IsLine(r, i, k)
    BY <2>2
  <2>4. i \in Nat /\ k \in Nat
    BY DocumentsAre
  <2>5. documents[i].file = documents[n].file
    BY <2>1, <2>3, <2>4, LineIs
  <2>6. i = n
    BY <2>5, OneDocument
  <2> QED BY <2>1, <2>3, <2>6
<1>3. \A k \in 1..N : \E r \in own : IsLine(r, n, k)
  <2> TAKE k \in 1..N
  <2>1. PICK r \in Pages : r.line = <<n, k>>
    BY DEF AreLines
  <2>2. PICK i \in 1..Len(documents) : \E j \in 1..Len(documents[i].pages) : IsLine(r, i, j)
    BY DEF AreLines
  <2>3. PICK j \in 1..Len(documents[i].pages) : IsLine(r, i, j)
    BY <2>2
  <2>4. i \in Nat /\ j \in Nat
    BY DocumentsAre
  <2>5. <<i, j>> = <<n, k>>
    BY <2>1, <2>3, <2>4, LineIs
  <2>6. IsLine(r, n, k)
    BY <2>3, <2>5, SamePlace
  <2>7. r.file = f
    BY <1>1, <2>6, LineIs
  <2> QED BY <2>6, <2>7 DEF OwnPages
<1>4. \A r \in own : r.page \in 1..N /\ IsLine(r, n, r.page)
  <2> TAKE r \in own
  <2>1. PICK k \in 1..N : IsLine(r, n, k)
    BY <1>2
  <2>2. r.page = k
    BY <1>1, <2>1, LineIs
  <2> QED BY <2>1, <2>2
<1>5. \A r, s \in own : r.page = s.page => r = s
  <2>1. \A r \in own : r \in Pages /\ r.file = f
    BY DEF OwnPages
  <2> QED BY <2>1 DEF TwicePaged
<1> DEFINE line == [k \in 1..N |-> CHOOSE r \in own : IsLine(r, n, k)]
<1>6. \A k \in 1..N : line[k] \in own /\ line[k].page = k /\ IsLine(line[k], n, k)
  <2> TAKE k \in 1..N
  <2>1. line[k] \in own /\ IsLine(line[k], n, k)
    BY <1>3
  <2> QED BY <1>1, <2>1, LineIs
<1>7. \A r \in own : line[r.page] = r
  BY <1>4, <1>5, <1>6
<1>15. line = [k \in 1..N |-> line[k]]
  OBVIOUS
<1> HIDE DEF own, N, line
<1>8. Cardinality(own) = N
  <2>1. line \in [1..N -> own]
    BY <1>6, <1>15
  <2>2. \A r \in own : \E k \in 1..N : line[k] = r
    BY <1>4, <1>7
  <2>3. \A i, j \in 1..N : line[i] = line[j] => i = j
    BY <1>6
  <2> QED BY <1>1, <2>1, <2>2, <2>3, CountTells
<1>9. ASSUME NEW s \in own
      PROVE  Cardinality({r \in own : r.page < s.page}) = s.page - 1
  <2> DEFINE T == {r \in own : r.page < s.page}
             M == s.page - 1
             part == [k \in 1..M |-> line[k]]
  <2>1. s.page \in 1..N /\ M \in Nat /\ M <= N
    BY <1>1, <1>4
  <2>2. \A r : r \in T <=> r \in own /\ r.page < s.page
    OBVIOUS
  <2>3. \A k \in 1..M : part[k] = line[k] /\ part[k] \in T
    BY <1>1, <1>6, <2>1
  <2>4. part \in [1..M -> T]
    BY <2>3
  <2>5. \A r \in T : \E k \in 1..M : part[k] = r
    <3> TAKE r \in T
    <3>1. r \in own /\ r.page < s.page /\ r.page \in 1..N
      BY <1>4, <2>2
    <3>2. r.page \in 1..M
      BY <1>1, <2>1, <3>1
    <3> QED BY <1>7, <2>3, <3>1, <3>2
  <2>6. \A i, j \in 1..M : part[i] = part[j] => i = j
    BY <1>1, <1>6, <2>1
  <2> HIDE DEF T, part, M
  <2>7. Cardinality(T) = M
    BY <2>1, <2>4, <2>5, <2>6, CountTells
  <2> QED BY <2>7 DEF T, M
<1>10. q = [k \in 1..N |-> CHOOSE s \in own : Cardinality({r \in own : r.page < s.page}) = k - 1]
  BY <1>8 DEF OwnOrder, own
<1>11. ASSUME NEW k \in 1..N
       PROVE  q[k] \in own /\ q[k].page = k
  <2> DEFINE Right(s) == Cardinality({r \in own : r.page < s.page}) = k - 1
  <2>1. Right(line[k])
    BY <1>6, <1>9
  <2>2. q[k] = CHOOSE s \in own : Right(s)
    BY <1>10
  <2> HIDE DEF Right
  <2>3. q[k] \in own /\ Right(q[k])
    BY <1>6, <2>1, <2>2
  <2>4. q[k].page - 1 = k - 1 /\ q[k].page \in 1..N
    BY <1>4, <1>9, <2>3 DEF Right
  <2> QED BY <1>1, <2>3, <2>4
<1>12. DOMAIN q = 1..N
  BY <1>10
<1> DEFINE P == PagesOfFile(f)
<1>13. P = [k \in 1..N |-> q[k].text]
  BY <1>12, PagesUnfold
<1> HIDE DEF q
<1>14. ASSUME NEW k \in 1..N
       PROVE  P[k] \in Text /\ \E r \in Pages : IsLine(r, n, k) /\ P[k] = r.text
  <2>1. P[k] = q[k].text /\ IsLine(q[k], n, k) /\ q[k] \in Pages
    BY <1>2, <1>4, <1>11, <1>13
  <2>2. q[k].text \in Text
    BY <1>1, <2>1, LineIs
  <2> QED BY <2>1, <2>2
<1>16. P = [k \in 1..N |-> P[k]]
  BY <1>13
<1> HIDE DEF P
<1>17. P \in Seq(Text) /\ Len(P) = N
  BY <1>1, <1>14, <1>16, MadeSeq
<1> QED BY <1>14, <1>17 DEF ReadsLines, P, N

(* A page that agrees with a span is the line of that page, undamaged.      *)
LEMMA AgreesIs ==
  ASSUME IngestInv, AreLines(Pages), ~TwicePaged, NEW meta, NEW s, PageAgrees(meta, s),
         NEW n \in 1..Len(documents), documents[n].file = meta.file
  PROVE  /\ s.page \in 1..Len(documents[n].pages)
         /\ \A r \in Pages : IsLine(r, n, s.page) => r.text = documents[n].pages[s.page]
<1>1. PICK p \in Pages : p.file = meta.file /\ p.page = s.page /\ p.text = p.textHash
  BY DEF PageAgrees
<1>2. PICK i \in 1..Len(documents) : \E k \in 1..Len(documents[i].pages) : IsLine(p, i, k)
  BY DEF AreLines
<1>3. PICK k \in 1..Len(documents[i].pages) : IsLine(p, i, k)
  BY <1>2
<1>4. p.file = documents[i].file /\ p.page = k /\ p.line = <<i, k>>
      /\ p.textHash = documents[i].pages[k]
  BY <1>3, LineIs
<1>5. i = n
  BY <1>1, <1>4, OneDocument
<1>6. k = s.page
  BY <1>1, <1>4
<1>7. ASSUME NEW r \in Pages, IsLine(r, n, s.page)
      PROVE  r.text = documents[n].pages[s.page]
  <2>1. r.line = p.line
    BY <1>4, <1>5, <1>6, <1>7, LineIs
  <2>2. r = p
    BY <2>1 DEF AreLines
  <2> QED BY <1>1, <1>4, <1>5, <1>6, <2>2
<1> QED BY <1>3, <1>5, <1>6, <1>7

(* Evidence is about a document of the build.                               *)
LEMMA EvidenceAbout ==
  ASSUME IngestInv, AreLines(Pages), NEW meta, meta.spans \in Seq(SpanSet), NEW t,
         Evidence(meta, t)
  PROVE  /\ ~TwicePaged /\ meta.generation = generation
         /\ \E n \in 1..Len(documents) : documents[n].file = meta.file
<1>1. /\ ~TwicePaged /\ meta.generation = generation /\ meta.spans # <<>>
      /\ \A s \in ToSet(meta.spans) : PageAgrees(meta, s)
  BY DEF Evidence
<1>2. IsList(meta.spans)
  BY InList
<1>3. PICK s \in ToSet(meta.spans) : TRUE
  <2>1. Len(meta.spans) \in Nat /\ Len(meta.spans) # 0
    BY <1>1
  <2>2. meta.spans[1] \in ToSet(meta.spans)
    BY <1>2, <2>1, ListIs
  <2> QED BY <2>2
<1>4. PICK p \in Pages : p.file = meta.file
  BY <1>1, <1>3 DEF PageAgrees
<1>5. PICK i \in 1..Len(documents) : \E k \in 1..Len(documents[i].pages) : IsLine(p, i, k)
  BY DEF AreLines
<1>6. documents[i].file = meta.file
  BY <1>4, <1>5, LineIs
<1> QED BY <1>1, <1>6

(* What the reader accepts as evidence stands, verbatim and at the spans it *)
(* names, in the text the build extracted, whatever page was damaged.       *)
LEMMA EvidenceStands ==
  ASSUME IngestInv, AreLines(Pages), NEW meta, meta.spans \in Seq(SpanSet), NEW t \in Text,
         Evidence(meta, t)
  PROVE  StandsIn(DocumentOf(meta.file).pages, t, meta.spans) /\ meta.generation = generation
<1> DEFINE spans == meta.spans
<1>1. /\ ~TwicePaged /\ meta.generation = generation /\ spans # <<>>
      /\ \A s \in ToSet(spans) : PageAgrees(meta, s)
      /\ Locate(PagesOfFile(meta.file), t, spans) # None
  BY DEF Evidence
<1>2. PICK n \in 1..Len(documents) : documents[n].file = meta.file
  BY EvidenceAbout
<1> DEFINE P == PagesOfFile(meta.file)
           D == documents[n].pages
           a == Locate(P, t, spans)
           b == a + Len(t)
<1>3. ReadsLines(P, n)
  BY <1>1, <1>2, PagesOfFileIs
<1>4. D \in Seq(Text) /\ DocumentOf(meta.file).pages = D
  <2>1. \E d \in ToSet(documents) : d.file = meta.file
    BY <1>2, DocumentsAre
  <2>2. PICK m \in 1..Len(documents) : LastOf(documents, meta.file) = documents[m]
                                       /\ documents[m].file = meta.file
    BY <2>1, DocumentOfIs DEF IngestInv, PlanMade
  <2>3. m = n
    BY <1>1, <1>2, <2>2, OneDocument
  <2> QED BY <2>2, <2>3, DocumentsAre DEF DocumentOf
<1>5. P \in Seq(Text) /\ Len(P) = Len(D)
  BY <1>3 DEF ReadsLines
<1>6. a \in Nat /\ Slice(Joined(P), a, a + Len(t)) = t /\ Spans(P, a, a + Len(t)) = spans
  BY <1>1, <1>5, LocateIs
<1>7. ASSUME NEW k \in 1..Len(P), NEW r \in Pages, IsLine(r, n, k), P[k] = r.text,
             NEW s \in ToSet(spans), s.page = k
      PROVE  P[k] = D[k]
  BY <1>1, <1>2, <1>7, AgreesIs
<1>8. \A k \in 1..Len(P) : P[k] = <<>> => D[k] = <<>>
  BY <1>3 DEF ReadsLines, IsLine
<1>9. \A k \in 1..Len(P) : \E r \in Pages : IsLine(r, n, k) /\ P[k] = r.text
  BY <1>3 DEF ReadsLines
<1>10. IsList(spans)
  BY InList
<1> HIDE DEF P, D, a, spans
<1>11. Len(t) \in Nat /\ b \in Nat
  BY <1>6 DEF Text
<1>12. a < b /\ b <= Len(Joined(P))
  <2>1. a < b
    BY <1>1, <1>5, <1>6, <1>11, SpansShort
  <2>2. Joined(P) \in Text
    BY <1>5, JoinedIs
  <2>3. t # <<>>
    BY <1>6, <1>11, <2>1
  <2>4. a + Len(t) <= Len(Joined(P))
    BY <1>6, <2>2, <2>3, SliceFound
  <2> QED BY <2>1, <2>4
<1>13. ASSUME NEW k \in 1..Len(P), NonEmpty(Overlap(P, k, a, b))
       PROVE  P[k] = D[k]
  <2>1. PICK m \in 1..Len(Spans(P, a, b)) : Spans(P, a, b)[m] = Overlap(P, k, a, b)
    BY <1>5, <1>6, <1>11, <1>13, SpanThere
  <2>2. Overlap(P, k, a, b).page = k
    BY DEF Overlap, SpanOnPage
  <2> DEFINE s == spans[m]
  <2>3. s \in ToSet(spans) /\ s.page = k
    BY <1>6, <1>10, <2>1, <2>2, ListIs
  <2> HIDE DEF s
  <2> QED BY <1>7, <1>9, <2>3
<1>14. MeetSame(D, P, a, b)
  BY <1>8, <1>13 DEF MeetSame
<1>15. StandsIn(D, Slice(Joined(P), a, b), Spans(P, a, b))
  BY <1>4, <1>5, <1>6, <1>11, <1>12, <1>14, SameStretch
<1>16. StandsIn(D, t, spans)
  BY <1>6, <1>15
<1> QED BY <1>1, <1>4, <1>16 DEF spans

(***************************************************************************)
(* The fragments of a packet                                               *)
(***************************************************************************)

(* What the metadata of a fragment may be, of whatever generation it is.    *)
MetaSet ==
  [generation : Nat, file : {d.file : d \in ToSet(documents)},
   paper : {d.paper : d \in ToSet(documents)}, hash : {d.hash : d \in ToSet(documents)},
   main : {SourceOf(d.file).main : d \in ToSet(documents)},
   textHash : Text, spans : Seq(SpanSet)]

(* The fragments of a packet.                                               *)
FragmentSet == [id : Nat, content : Text, meta : MetaSet, from : Nat, to : Nat]

(* A selection in the making: the characters used, the fragments taken.     *)
MadeSet == [used : Nat, failed : BOOLEAN, evidence : Seq(FragmentSet)]

(* The one identity of an attachment of which no page is there twice.       *)
IdentityOf(f) == <<generation, DocumentOf(f).paper, f, DocumentOf(f).hash, SourceOf(f).main>>

(* The metadata of a part of a source names the same source.                *)
PartOf(m, meta, from, to) ==
  /\ m \in MetaSet /\ m.file = meta.file /\ SourceIdentity(m) = SourceIdentity(meta)
  /\ m.textHash = Slice(Joined(PagesOfFile(meta.file)), from, to)
  /\ m.textHash \in Text /\ Len(m.textHash) = to - from
  /\ m.spans = Spans(PagesOfFile(meta.file), from, to)

(* The metadata of a piece are those of its candidate, with the place of    *)
(* the piece.                                                               *)
LEMMA PieceMetadataIs ==
  ASSUME NEW meta \in MetaSet, PagesOfFile(meta.file) \in Seq(Text),
         NEW from \in Nat, NEW to \in Nat, from <= to, to <= Len(Joined(PagesOfFile(meta.file))),
         NEW m, m = PieceMetadata(meta, from, to)
  PROVE  PartOf(m, meta, from, to)
<1> DEFINE g == meta.generation  f == meta.file  p == meta.paper  h == meta.hash  n == meta.main
           P == PagesOfFile(meta.file)
           t == Slice(Joined(P), from, to)  s == Spans(P, from, to)
           G == Nat  F == {d.file : d \in ToSet(documents)}
           R == {d.paper : d \in ToSet(documents)}  H == {d.hash : d \in ToSet(documents)}
           M == {SourceOf(d.file).main : d \in ToSet(documents)}
<1>1. t \in Text /\ Len(t) = to - from
  <2>1. Joined(P) \in Text
    BY JoinedIs
  <2> QED BY <2>1, SliceIs
<1>2. s \in Seq(SpanSet)
  BY SpansTyped
<1>3. m = [meta EXCEPT !.textHash = t, !.spans = s]
  BY DEF PieceMetadata
<1>4. MetaSet = [generation : G, file : F, paper : R, hash : H, main : M, textHash : Text,
                 spans : Seq(SpanSet)]
  BY DEF MetaSet
<1> HIDE DEF G, F, R, H, M, t, s, P
<1>5. /\ g \in G /\ f \in F /\ p \in R /\ h \in H /\ n \in M
      /\ m = [generation |-> g, file |-> f, paper |-> p, hash |-> h, main |-> n,
              textHash |-> t, spans |-> s]
  BY <1>3, <1>4
<1> HIDE DEF g, f, p, h, n
<1>6. /\ m.generation = g /\ m.file = f /\ m.paper = p /\ m.hash = h /\ m.main = n
      /\ m.textHash = t /\ m.spans = s
  BY <1>5
<1>7. m \in MetaSet
  BY <1>1, <1>2, <1>4, <1>5
<1>8. SourceIdentity(m) = SourceIdentity(meta)
  BY <1>6 DEF SourceIdentity, g, f, p, h, n
<1> QED BY <1>1, <1>6, <1>7, <1>8 DEF PartOf, f, t, s, P

(* A candidate: a stretch of a source that is known to the reader.          *)
IsCandidate(c) ==
  /\ c.meta \in MetaSet /\ SourceIdentity(c.meta) = IdentityOf(c.meta.file)
  /\ PagesOfFile(c.meta.file) \in Seq(Text)
  /\ c.at \in Nat /\ c.length \in Nat /\ c.from \in Nat /\ c.to \in Nat
  /\ c.to <= Len(Joined(PagesOfFile(c.meta.file)))

(* A fragment of a source, as long as the stretch it stands for.            *)
IsFragment(e) ==
  /\ e \in FragmentSet /\ SourceIdentity(e.meta) = IdentityOf(e.meta.file)
  /\ e.from <= e.to /\ Len(e.content) = e.to - e.from

(* A piece of a candidate: an interval of the file's text that is not       *)
(* empty.                                                                   *)
IsPiece(c, piece) ==
  /\ piece[1] \in Nat /\ piece[2] \in Nat /\ piece[1] < piece[2]
  /\ piece[2] <= Len(Joined(PagesOfFile(c.meta.file)))

(* The fragment cut from a piece.                                           *)
IsCutFrom(e, c, cut) ==
  /\ IsFragment(e) /\ e.meta.file = c.meta.file
  /\ e.from = cut[1] /\ e.to = cut[2]
  /\ e.content = Slice(Joined(PagesOfFile(c.meta.file)), cut[1], cut[2])

(* A fragment is cut from the text of its candidate's file.                 *)
LEMMA FragmentIs ==
  ASSUME NEW c, IsCandidate(c), NEW cut, cut[1] \in Nat, cut[2] \in Nat, cut[1] <= cut[2],
         cut[2] <= Len(Joined(PagesOfFile(c.meta.file))),
         NEW id \in Nat,
         NEW e, e = Fragment(id, PieceMetadata(c.meta, cut[1], cut[2]), cut)
  PROVE  IsCutFrom(e, c, cut)
<1> DEFINE m == PieceMetadata(c.meta, cut[1], cut[2])  a == cut[1]  b == cut[2]  t == m.textHash
<1>1. PartOf(m, c.meta, a, b)
  BY PieceMetadataIs DEF IsCandidate
<1>2. e = [id |-> id, content |-> t, meta |-> m, from |-> a, to |-> b]
  BY DEF Fragment
<1>3. a \in Nat /\ b \in Nat /\ a <= b
  OBVIOUS
<1> HIDE DEF m, a, b
<1>4. t \in Text /\ m \in MetaSet
  BY <1>1 DEF PartOf
<1> HIDE DEF t
<1>5. e.content = t /\ e.meta = m /\ e.from = a /\ e.to = b
  BY <1>2
<1>6. e \in FragmentSet
  BY <1>2, <1>3, <1>4 DEF FragmentSet
<1>7. /\ m.file = c.meta.file /\ SourceIdentity(m) = SourceIdentity(c.meta)
      /\ t = Slice(Joined(PagesOfFile(c.meta.file)), a, b) /\ Len(t) = b - a
  BY <1>1 DEF PartOf, t
<1>8. SourceIdentity(m) = IdentityOf(m.file)
  BY <1>7 DEF IsCandidate
<1>9. IsFragment(e)
  BY <1>3, <1>5, <1>6, <1>7, <1>8 DEF IsFragment
<1> QED BY <1>5, <1>7, <1>9 DEF IsCutFrom, a, b

(* Places of fragments and their number.                                   *)
PlacesIn(f, a, b) == {<<f, i>> : i \in a..(b - 1)}

(* The places that the fragments hold.                                      *)
TakenPlaces(ev) == UNION {Places(e) : e \in ToSet(ev)}

(* The text of the fragments.                                               *)
TextOf(ev) == FlattenSeq([i \in DOMAIN ev |-> ev[i].content])

(* An interval has as many places as it is long.                            *)
LEMMA PlacesCount ==
  ASSUME NEW f, NEW a \in Nat, NEW b \in Nat, a <= b
  PROVE  IsFiniteSet(PlacesIn(f, a, b)) /\ Cardinality(PlacesIn(f, a, b)) = b - a
<1> DEFINE N == b - a
           T == PlacesIn(f, a, b)
           g == [i \in 1..N |-> <<f, a + i - 1>>]
<1>1. N \in Nat
  OBVIOUS
<1>2. \A i \in 1..N : a + i - 1 \in a..(b - 1) /\ g[i] = <<f, a + i - 1>>
  OBVIOUS
<1>3. \A i \in 1..N : g[i] \in T
  BY <1>2 DEF PlacesIn
<1>4. \A t \in T : \E i \in 1..N : g[i] = t
  <2> TAKE t \in T
  <2>1. PICK j \in a..(b - 1) : t = <<f, j>>
    BY DEF PlacesIn
  <2>2. j - a + 1 \in 1..N /\ a + (j - a + 1) - 1 = j
    OBVIOUS
  <2> QED BY <1>2, <2>1, <2>2
<1>5. ASSUME NEW i \in 1..N, NEW j \in 1..N, g[i] = g[j]
      PROVE  i = j
  <2>1. <<f, a + i - 1>> = <<f, a + j - 1>>
    BY <1>2, <1>5
  <2>2. a + i - 1 = a + j - 1
    BY <2>1, SamePlace
  <2> QED BY <2>2
<1>6. g \in [1..N -> T]
  BY <1>3
<1> HIDE DEF N, T, g
<1>7. IsFiniteSet(T) /\ Cardinality(T) = N
  BY <1>1, <1>4, <1>5, <1>6, CountTells
<1> QED BY <1>7 DEF N, T

(* The length of a flattened sequence of texts grows by the text appended.  *)
LEMMA FlattenGrows ==
  ASSUME NEW R, NEW seqs \in Seq(Seq(R)), NEW s \in Seq(R),
         NEW more, more = Append(seqs, s)
  PROVE  Len(FlattenSeq(more)) = Len(FlattenSeq(seqs)) + Len(s)
<1> DEFINE N == Len(seqs)
<1>1. N \in Nat /\ more \in Seq(Seq(R)) /\ Len(more) = N + 1 /\ more[N + 1] = s
      /\ \A k \in 1..N : more[k] = seqs[k]
  OBVIOUS
<1>2. PICK x : Flattens(FlattenSeq(seqs), seqs, x)
  BY FlattenIs
<1>3. PICK y : Flattens(FlattenSeq(more), more, y)
  BY <1>1, FlattenIs
<1>4. /\ x[1] = 0 /\ \A k \in 1..N : x[k + 1] = x[k] + Len(seqs[k])
      /\ Len(FlattenSeq(seqs)) = x[N + 1]
  BY <1>2 DEF Flattens
<1>5. /\ y[1] = 0 /\ \A k \in 1..(N + 1) : y[k + 1] = y[k] + Len(more[k])
      /\ Len(FlattenSeq(more)) = y[N + 2]
  BY <1>1, <1>3 DEF Flattens
<1> HIDE DEF N
<1> DEFINE T == {k \in Nat : k <= N => x[k + 1] = y[k + 1]}
<1>6. 0 \in T
  BY <1>4, <1>5
<1>7. ASSUME NEW k \in Nat, k \in T
      PROVE  k + 1 \in T
  <2>1. SUFFICES ASSUME k + 1 <= N PROVE x[k + 2] = y[k + 2]
    OBVIOUS
  <2>2. x[k + 1] = y[k + 1]
    BY <1>1, <1>7, <2>1
  <2>3. k + 1 \in 1..N /\ k + 1 \in 1..(N + 1) /\ (k + 1) + 1 = k + 2
    BY <1>1, <2>1
  <2>4. x[k + 2] = x[k + 1] + Len(seqs[k + 1]) /\ y[k + 2] = y[k + 1] + Len(more[k + 1])
    BY <1>4, <1>5, <2>3
  <2>5. more[k + 1] = seqs[k + 1]
    BY <1>1, <2>3
  <2> QED BY <2>2, <2>4, <2>5
<1>8. N \in T
  <2> HIDE DEF T
  <2> QED BY <1>1, <1>6, <1>7, NatSetInduction
<1>9. x[N + 1] = y[N + 1]
  BY <1>1, <1>8
<1>10. y[N + 2] = y[N + 1] + Len(more[N + 1])
  <2>1. N + 1 \in 1..(N + 1) /\ (N + 1) + 1 = N + 2
    BY <1>1
  <2> QED BY <1>5, <2>1
<1> QED BY <1>1, <1>4, <1>5, <1>9, <1>10

(* Nothing, flattened, is empty.                                            *)
LEMMA FlattenNone ==
  Len(FlattenSeq(<<>>)) = 0
<1>1. <<>> \in Seq(Seq(Nat)) /\ Len(<<>>) = 0
  OBVIOUS
<1>2. PICK off : Flattens(FlattenSeq(<<>>), <<>>, off)
  BY <1>1, FlattenIs
<1> QED BY <1>1, <1>2 DEF Flattens

(* What is made of the hits so far: fragments of the sources, no place      *)
(* twice, as many characters as are counted, and within the budget.         *)
Apart(ev) ==
  \A i, j \in DOMAIN ev : i # j => Places(ev[i]) \cap Places(ev[j]) = {}

(* The characters used are those of the fragments, each place once.         *)
Counted(made) ==
  /\ made.used = Len(TextOf(made.evidence))
  /\ IsFiniteSet(TakenPlaces(made.evidence))
  /\ Cardinality(TakenPlaces(made.evidence)) = made.used

(* A selection that is within the budget and true to the pages.             *)
WellMade(made, budget) ==
  /\ made \in MadeSet
  /\ \A e \in ToSet(made.evidence) : IsFragment(e)
  /\ Apart(made.evidence)
  /\ Counted(made)
  /\ made.used <= budget

(* The places of a fragment and their number.                               *)
LEMMA FragmentPlaces ==
  ASSUME NEW e, IsFragment(e)
  PROVE  /\ e.content \in Text /\ e.from \in Nat /\ e.to \in Nat
         /\ Places(e) = PlacesIn(e.meta.file, e.from, e.to)
         /\ IsFiniteSet(Places(e)) /\ Cardinality(Places(e)) = Len(e.content)
<1>1. /\ e.content \in Text /\ e.from \in Nat /\ e.to \in Nat /\ e.from <= e.to
      /\ Len(e.content) = e.to - e.from
  BY DEF IsFragment, FragmentSet
<1>2. Places(e) = PlacesIn(e.meta.file, e.from, e.to)
  BY DEF Places, PlacesIn
<1> DEFINE f == e.meta.file  a == e.from  b == e.to
<1>3. a \in Nat /\ b \in Nat /\ a <= b
  BY <1>1
<1> HIDE DEF f, a, b
<1>4. IsFiniteSet(PlacesIn(f, a, b)) /\ Cardinality(PlacesIn(f, a, b)) = b - a
  BY <1>3, PlacesCount
<1> QED BY <1>1, <1>2, <1>4 DEF f, a, b

(* u is q with e appended, q being of length n.                             *)
Appends(u, q, e, n) ==
  /\ u = [i \in 1..(n + 1) |-> u[i]] /\ u[n + 1] = e
  /\ \A i \in 1..n : u[i] = q[i]

(* Appending to a sequence.                                                 *)
LEMMA AppendIs ==
  ASSUME NEW R, NEW q \in Seq(R), NEW e \in R, NEW u, u = Append(q, e), NEW n, n = Len(q)
  PROVE  Appends(u, q, e, n)
<1>1. Len(q) \in Nat /\ u \in Seq(R) /\ Len(u) = Len(q) + 1
  OBVIOUS
<1>2. u[Len(q) + 1] = e /\ \A i \in 1..Len(q) : u[i] = q[i]
  BY <1>1
<1>3. u = [i \in 1..Len(u) |-> u[i]]
  <2>1. IsList(u)
    BY <1>1, InList
  <2> QED BY <2>1, ListShape, Zenon
<1>4. u = [i \in 1..(Len(q) + 1) |-> u[i]]
  BY <1>1, <1>3
<1> QED BY <1>2, <1>4 DEF Appends

(* Fragments in a sequence of fragments.                                    *)
Appended(ev, e, more) ==
  /\ more \in Seq(FragmentSet) /\ Len(more) = Len(ev) + 1
  /\ ToSet(more) = ToSet(ev) \cup {e}
  /\ Len(TextOf(more)) = Len(TextOf(ev)) + Len(e.content)
  /\ TakenPlaces(more) = TakenPlaces(ev) \cup Places(e)
  /\ (Apart(ev) /\ Places(e) \cap TakenPlaces(ev) = {} => Apart(more))

(* Appending a fragment: its text and its places are added.                 *)
LEMMA AppendFragment ==
  ASSUME NEW ev \in Seq(FragmentSet), NEW e \in FragmentSet,
         NEW more, more = Append(ev, e)
  PROVE  Appended(ev, e, more)
<1> DEFINE N == Len(ev)
<1>1. N \in Nat /\ more \in Seq(FragmentSet) /\ Len(more) = N + 1 /\ more[N + 1] = e
      /\ \A k \in 1..N : more[k] = ev[k] /\ ev[k] \in FragmentSet
  OBVIOUS
<1>2. IsList(ev) /\ DOMAIN ev = 1..N /\ DOMAIN more = 1..(N + 1)
  BY <1>1, InList
<1>3. ToSet(more) = ToSet(ev) \cup {e}
  BY <1>2, AppendList DEF Extended
<1>4. Len(TextOf(more)) = Len(TextOf(ev)) + Len(e.content)
  <2> DEFINE old == [i \in DOMAIN ev |-> ev[i].content]
             new == [i \in DOMAIN more |-> more[i].content]
             s == e.content
  <2>1. \A f \in FragmentSet : f.content \in Seq(Characters)
    BY DEF FragmentSet, Text
  <2>2. s \in Seq(Characters) /\ \A i \in 1..N : ev[i].content \in Seq(Characters)
    BY <1>1, <2>1
  <2> DEFINE V == Seq(Characters)
  <2>3. /\ old = [i \in 1..N |-> old[i]] /\ \A i \in 1..N : old[i] \in V
    BY <1>2, <2>2
  <2>4. /\ new = [i \in 1..(N + 1) |-> new[i]]
        /\ \A i \in 1..N : new[i] = old[i]
        /\ new[N + 1] = s
    BY <1>1, <1>2
  <2>5. s \in V
    BY <2>2
  <2> HIDE DEF old, new, s, V
  <2>6. old \in Seq(V) /\ Len(old) = N
    BY <1>1, <2>3, MadeSeq
  <2>7. new = Append(old, s)
    <3> HIDE DEF N
    <3> DEFINE u == Append(old, s)
    <3>1. /\ u = [i \in 1..(N + 1) |-> u[i]] /\ u[N + 1] = s
          /\ \A i \in 1..N : u[i] = old[i]
      <4>0. u = Append(old, s) /\ old \in Seq(V) /\ s \in V
        BY <2>5, <2>6
      <4> HIDE DEF u
      <4>1. Appends(u, old, s, N)
        BY <2>6, <4>0, AppendIs
      <4> QED BY <4>1 DEF Appends
    <3> HIDE DEF u, N
    <3>2. \A i \in 1..(N + 1) : new[i] = u[i]
      <4> TAKE i \in 1..(N + 1)
      <4>1. i \in 1..N \/ i = N + 1
        BY <1>1
      <4> QED BY <2>4, <3>1, <4>1
    <3>3. new = u
      BY <2>4, <3>1, <3>2
    <3> QED BY <3>3 DEF u
  <2>8. Len(FlattenSeq(new)) = Len(FlattenSeq(old)) + Len(s)
    <3>1. old \in Seq(Seq(Characters)) /\ s \in Seq(Characters)
      BY <2>5, <2>6 DEF V
    <3> QED BY <2>7, <3>1, FlattenGrows
  <2> QED BY <2>8 DEF TextOf, old, new, s
<1>5. TakenPlaces(more) = TakenPlaces(ev) \cup Places(e)
  BY <1>3 DEF TakenPlaces
<1>6. ASSUME Apart(ev), Places(e) \cap TakenPlaces(ev) = {}
      PROVE  Apart(more)
  <2>1. \A k \in 1..N : ev[k] \in ToSet(ev)
    BY <1>2, ListIs
  <2>2. \A k \in 1..N : Places(ev[k]) \cap Places(e) = {}
    BY <1>6, <2>1 DEF TakenPlaces
  <2>3. ASSUME NEW i \in 1..(N + 1), NEW j \in 1..(N + 1), i # j
        PROVE  Places(more[i]) \cap Places(more[j]) = {}
    <3>0. N \in Nat
      BY <1>1
    <3> HIDE DEF N
    <3>1. \/ i \in 1..N /\ j \in 1..N
          \/ i \in 1..N /\ j = N + 1
          \/ i = N + 1 /\ j \in 1..N
      <4>1. i \in 1..N \/ i = N + 1
        BY <3>0
      <4>2. j \in 1..N \/ j = N + 1
        BY <3>0
      <4> QED BY <2>3, <4>1, <4>2, Zenon
    <3>2. CASE i \in 1..N /\ j \in 1..N
      BY <1>1, <1>2, <1>6, <2>3, <3>2 DEF Apart
    <3>3. CASE i \in 1..N /\ j = N + 1
      BY <1>1, <2>2, <3>3
    <3>4. CASE i = N + 1 /\ j \in 1..N
      BY <1>1, <2>2, <3>4
    <3> QED BY <3>1, <3>2, <3>3, <3>4
  <2> QED BY <1>2, <2>3 DEF Apart
<1> QED BY <1>1, <1>3, <1>4, <1>5, <1>6 DEF Appended

(* The selection with one fragment more.                                    *)
MadeWith(made, e, next, budget) ==
  /\ WellMade(next, budget)
  /\ TakenPlaces(next.evidence) = TakenPlaces(made.evidence) \cup Places(e)
  /\ next.used = made.used + Len(e.content)

(* One more fragment at places that were free keeps what is made.           *)
LEMMA AppendMade ==
  ASSUME NEW budget, NEW made, WellMade(made, budget), NEW e, IsFragment(e),
         Places(e) \cap TakenPlaces(made.evidence) = {},
         made.used + Len(e.content) <= budget, NEW failed \in BOOLEAN,
         NEW next, next = [used |-> made.used + Len(e.content), failed |-> failed,
                           evidence |-> Append(made.evidence, e)]
  PROVE  MadeWith(made, e, next, budget)
<1> DEFINE ev == made.evidence  more == Append(ev, e)  u == made.used  l == Len(e.content)
<1>1. u \in Nat /\ ev \in Seq(FragmentSet) /\ u = Len(TextOf(ev)) /\ Apart(ev)
      /\ IsFiniteSet(TakenPlaces(ev)) /\ Cardinality(TakenPlaces(ev)) = u
      /\ \A f \in ToSet(ev) : IsFragment(f)
  BY DEF WellMade, MadeSet, Counted
<1>2. e \in FragmentSet /\ l \in Nat /\ IsFiniteSet(Places(e)) /\ Cardinality(Places(e)) = l
  <2>1. e \in FragmentSet
    BY DEF IsFragment
  <2>2. e.content \in Text /\ IsFiniteSet(Places(e)) /\ Cardinality(Places(e)) = Len(e.content)
    BY FragmentPlaces
  <2> QED BY <2>1, <2>2 DEF Text
<1>3. Appended(ev, e, more)
  BY <1>1, <1>2, AppendFragment
<1>4. Places(e) \cap TakenPlaces(ev) = {} /\ u + l <= budget
      /\ next = [used |-> u + l, failed |-> failed, evidence |-> more]
  OBVIOUS
<1> HIDE DEF ev, more, u, l
<1>5. next.used = u + l /\ next.evidence = more /\ next \in MadeSet
  <2>1. u + l \in Nat
    BY <1>1, <1>2
  <2>5. more \in Seq(FragmentSet)
    BY <1>3 DEF Appended
  <2> DEFINE w == u + l
  <2>2. w \in Nat /\ next = [used |-> w, failed |-> failed, evidence |-> more]
    BY <1>4, <2>1
  <2> HIDE DEF w
  <2>3. next.used = w /\ next.evidence = more
    BY <2>2
  <2>4. next \in MadeSet
    <3> DEFINE S == Seq(FragmentSet)  B == BOOLEAN
    <3>1. more \in S /\ failed \in B /\ MadeSet = [used : Nat, failed : B, evidence : S]
      BY <2>5 DEF MadeSet
    <3>2. w \in Nat /\ next = [used |-> w, failed |-> failed, evidence |-> more]
      BY <2>2
    <3> HIDE DEF S, B
    <3>3. [used |-> w, failed |-> failed, evidence |-> more]
             \in [used : Nat, failed : B, evidence : S]
      BY <3>1, <3>2, Zenon
    <3> QED BY <3>1, <3>2, <3>3, Zenon
  <2> QED BY <2>3, <2>4 DEF w
<1>6. /\ ToSet(more) = ToSet(ev) \cup {e} /\ Apart(more)
      /\ Len(TextOf(more)) = Len(TextOf(ev)) + l
      /\ TakenPlaces(more) = TakenPlaces(ev) \cup Places(e)
  BY <1>1, <1>3, <1>4 DEF Appended, l
<1>7. IsFiniteSet(TakenPlaces(more)) /\ Cardinality(TakenPlaces(more)) = u + l
  <2> DEFINE S == TakenPlaces(ev)  T == Places(e)
  <2>1. IsFiniteSet(S) /\ IsFiniteSet(T) /\ S \cap T = {}
            /\ Cardinality(S) = u /\ Cardinality(T) = l
    BY <1>1, <1>2, <1>4
  <2> HIDE DEF S, T
  <2>2. /\ IsFiniteSet(S \cup T)
        /\ Cardinality(S \cup T) = Cardinality(S) + Cardinality(T) - Cardinality(S \cap T)
    BY <2>1, FS_Union
  <2>3. Cardinality(S \cap T) = 0
    BY <2>1, FS_EmptySet
  <2>4. Cardinality(S \cup T) = u + l
    BY <1>1, <1>2, <2>1, <2>2, <2>3
  <2> QED BY <1>6, <2>2, <2>4 DEF S, T
<1>8. Counted(next)
  BY <1>1, <1>5, <1>6, <1>7 DEF Counted
<1>9. \A f \in ToSet(more) : IsFragment(f)
  BY <1>1, <1>6
<1>10. WellMade(next, budget)
  BY <1>4, <1>5, <1>6, <1>8, <1>9 DEF WellMade
<1> QED BY <1>5, <1>6, <1>10 DEF MadeWith, ev, u, l

(* A place with something written on it.                                    *)
WrittenAt(f, i) == ~(Joined(PagesOfFile(f))[i + 1] \in Space)

(* What one more piece does: the places taken grow within the piece, and by *)
(* all of it that is written when it fits.                                  *)
Grows(made, next, f, a, b, budget) ==
  /\ TakenPlaces(made.evidence) \subseteq TakenPlaces(next.evidence)
  /\ TakenPlaces(next.evidence) \subseteq TakenPlaces(made.evidence) \cup PlacesIn(f, a, b)
  /\ made.used + (b - a) <= budget =>
       \A i \in a..(b - 1) : WrittenAt(f, i) => <<f, i>> \in TakenPlaces(next.evidence)

(* Adding a piece takes all of it, or what the room left allows.            *)
LEMMA AddPieceIs ==
  ASSUME NEW budget \in Nat, NEW made, WellMade(made, budget), NEW c, IsCandidate(c),
         NEW piece, IsPiece(c, piece), NEW f, f = c.meta.file,
         NEW a, a = piece[1], NEW b, b = piece[2],
         PlacesIn(f, a, b) \cap TakenPlaces(made.evidence) = {},
         NEW next, next = AddPiece(made, c, piece, budget)
  PROVE  WellMade(next, budget) /\ Grows(made, next, f, a, b, budget)
<1>1. made.used \in Nat /\ made.used <= budget /\ a \in Nat /\ b \in Nat /\ a < b
      /\ made.evidence \in Seq(FragmentSet) /\ made.failed \in BOOLEAN
      /\ b <= Len(Joined(PagesOfFile(f))) /\ PagesOfFile(f) \in Seq(Text)
  BY DEF WellMade, MadeSet, IsPiece, IsCandidate
<1>2. CASE made.used >= budget
  <2>1. next = made
    BY <1>2 DEF AddPiece
  <2>2. ~(made.used + (b - a) <= budget)
    BY <1>1, <1>2
  <2> QED BY <2>1, <2>2 DEF Grows
<1>3. CASE ~(made.used >= budget)
  <2> DEFINE text == Joined(PagesOfFile(f))
             room == budget - made.used
             cut == CutToFit(text, c, piece, room)
             n == Len(made.evidence) + 1
             e == Fragment(n, PieceMetadata(c.meta, cut[1], cut[2]), cut)
  <2>1. text \in Text /\ room \in Nat /\ n \in Nat
    BY <1>1, <1>3, JoinedIs, SMTT(30)
  <2>2. next = AddFragment(made, e)
    BY <1>3 DEF AddPiece, AddCut
  <2>3. Fits(cut, piece, room)
    BY <1>1, <2>1, CutToFitIs DEF IsCandidate
  <2> HIDE DEF cut, n, room
  <2> DEFINE x == cut[1]  y == cut[2]
  <2>4. /\ x \in Nat /\ y \in Nat /\ a <= x /\ x <= y /\ y <= b
        /\ b - a <= room => x = a /\ y = b
    BY <2>3 DEF Fits
  <2>5. y <= Len(text)
    <3> HIDE DEF x, y
    <3>1. Len(text) \in Nat
      BY <2>1 DEF Text
    <3> QED BY <1>1, <2>4, <3>1
  <2>6. IsCutFrom(e, c, cut)
    BY <2>1, <2>4, <2>5, FragmentIs
  <2> HIDE DEF e
  <2>7. /\ IsFragment(e) /\ e.meta.file = f /\ e.from = x /\ e.to = y
               /\ e.content = Slice(text, x, y)
    BY <2>6 DEF IsCutFrom
  <2>8. /\ e.content \in Text /\ Len(e.content) = y - x
        /\ \A i \in 1..(y - x) : e.content[i] = text[x + i]
    <3> HIDE DEF x, y, text
    <3>1. text \in Text /\ x \in Nat /\ y \in Nat /\ x <= y /\ y <= Len(text)
          /\ e.content = Slice(text, x, y)
      BY <2>1, <2>4, <2>5, <2>7
    <3> DEFINE t == e.content
    <3>2. t = Slice(text, x, y)
      BY <3>1
    <3> HIDE DEF t
    <3>3. t \in Text /\ Len(t) = y - x /\ \A i \in 1..(y - x) : t[i] = text[x + i]
      <4>1. IsSlice(t, text, x, y)
        BY <3>1, <3>2, SlicesAre
      <4> QED BY <4>1 DEF IsSlice
    <3> QED BY <3>3 DEF t
  <2>9. Places(e) = PlacesIn(f, x, y) /\ PlacesIn(f, x, y) \subseteq PlacesIn(f, a, b)
    <3>1. Places(e) = PlacesIn(f, x, y)
      BY <2>7, FragmentPlaces
    <3> HIDE DEF x, y
    <3>2. x..(y - 1) \subseteq a..(b - 1)
      BY <1>1, <2>4
    <3> QED BY <3>1, <3>2 DEF PlacesIn
  <2> HIDE DEF x, y, text
  <2>10. made.used + (b - a) <= budget => x = a /\ y = b
    BY <1>1, <2>1, <2>4, SMTT(30) DEF room
  <2>11. CASE Blank(e.content)
    <3>1. next = made
      BY <2>2, <2>11 DEF AddFragment
    <3>2. ASSUME made.used + (b - a) <= budget, NEW i \in a..(b - 1)
          PROVE  ~WrittenAt(f, i)
      <4>1. x = a /\ y = b
        BY <2>10, <3>2
      <4>2. i - a + 1 \in 1..(y - x) /\ x + (i - a + 1) = i + 1
        BY <1>1, <4>1, SMTT(30)
      <4>3. e.content[i - a + 1] = text[i + 1]
        BY <2>8, <4>2
      <4>4. i - a + 1 \in DOMAIN e.content
        <5>1. DOMAIN e.content = 1..(y - x)
          BY <2>8 DEF Text
        <5> QED BY <4>2, <5>1
      <4>5. text[i + 1] \in Space
        BY <2>11, <4>3, <4>4 DEF Blank
      <4> QED BY <4>5 DEF WrittenAt, text
    <3> QED BY <3>1, <3>2 DEF Grows
  <2>12. CASE ~Blank(e.content)
    <3> DEFINE failed == made.failed \/ ~Stands(e.meta)
    <3>1. next = [used |-> made.used + Len(e.content), failed |-> failed,
                  evidence |-> Append(made.evidence, e)]
      BY <2>2, <2>12 DEF AddFragment
    <3>2. failed \in BOOLEAN
      OBVIOUS
    <3> HIDE DEF failed
    <3>3. Places(e) \cap TakenPlaces(made.evidence) = {}
      BY <2>9
    <3>4. made.used + Len(e.content) <= budget
      <4>1. y - x <= room
        BY <2>3 DEF Fits, x, y
      <4> QED BY <1>1, <2>1, <2>4, <2>8, <4>1 DEF room
    <3>5. /\ WellMade(next, budget)
          /\ TakenPlaces(next.evidence) = TakenPlaces(made.evidence) \cup Places(e)
      <4>1. MadeWith(made, e, next, budget)
        BY <2>7, <3>1, <3>2, <3>3, <3>4, AppendMade
      <4> QED BY <4>1 DEF MadeWith
    <3>6. ASSUME made.used + (b - a) <= budget, NEW i \in a..(b - 1)
          PROVE  <<f, i>> \in TakenPlaces(next.evidence)
      <4>1. <<f, i>> \in PlacesIn(f, x, y)
        BY <2>10, <3>6 DEF PlacesIn
      <4> QED BY <2>9, <3>5, <4>1
    <3> QED BY <2>9, <3>5, <3>6 DEF Grows
  <2> QED BY <2>11, <2>12
<1> QED BY <1>2, <1>3

(***************************************************************************)
(* Pieces and candidates, one after the other                              *)
(***************************************************************************)

(* Adding a piece keeps the type of what is made, whatever was made before. *)
LEMMA AddPieceTyped ==
  ASSUME NEW budget \in Nat, NEW made \in MadeSet, NEW c, IsCandidate(c),
         NEW piece, IsPiece(c, piece),
         NEW next, next = AddPiece(made, c, piece, budget)
  PROVE  next \in MadeSet
<1> DEFINE f == c.meta.file  a == piece[1]  b == piece[2]  u == made.used  ev == made.evidence
           was == made.failed
<1>1. /\ u \in Nat /\ a \in Nat /\ b \in Nat /\ a < b
      /\ ev \in Seq(FragmentSet) /\ was \in BOOLEAN
      /\ b <= Len(Joined(PagesOfFile(f))) /\ PagesOfFile(f) \in Seq(Text)
  BY DEF MadeSet, IsPiece, IsCandidate
<1>2. CASE u >= budget
  BY <1>2 DEF AddPiece
<1>3. CASE ~(u >= budget)
  <2> DEFINE text == Joined(PagesOfFile(f))
             room == budget - u
             cut == CutToFit(text, c, piece, room)
             n == Len(ev) + 1
             e == Fragment(n, PieceMetadata(c.meta, cut[1], cut[2]), cut)
  <2>1. text \in Text /\ room \in Nat /\ n \in Nat
    BY <1>1, <1>3, JoinedIs, SMTT(30)
  <2>2. next = AddFragment(made, e)
    BY <1>3 DEF AddPiece, AddCut
  <2>3. Fits(cut, piece, room)
    BY <1>1, <2>1, CutToFitIs DEF IsCandidate
  <2> HIDE DEF cut, n, room
  <2> DEFINE x == cut[1]  y == cut[2]
  <2>4. x \in Nat /\ y \in Nat /\ x <= y /\ y <= b
    BY <2>3 DEF Fits
  <2>5. y <= Len(text)
    <3> HIDE DEF x, y
    <3>1. Len(text) \in Nat
      BY <2>1 DEF Text
    <3> QED BY <1>1, <2>4, <3>1
  <2>6. IsCutFrom(e, c, cut)
    BY <2>1, <2>4, <2>5, FragmentIs
  <2> HIDE DEF e
  <2>7. e \in FragmentSet /\ e.content \in Text
    BY <2>6, FragmentPlaces DEF IsCutFrom, IsFragment
  <2>8. CASE Blank(e.content)
    BY <2>2, <2>8 DEF AddFragment
  <2>9. CASE ~Blank(e.content)
    <3> DEFINE failed == was \/ ~Stands(e.meta)
               w == u + Len(e.content)
               more == Append(ev, e)
    <3>1. next = [used |-> w, failed |-> failed, evidence |-> more]
      BY <2>2, <2>9 DEF AddFragment
    <3>2. failed \in BOOLEAN /\ w \in Nat /\ more \in Seq(FragmentSet)
      <4>1. failed \in BOOLEAN
        OBVIOUS
      <4>2. Len(e.content) \in Nat
        BY <2>7 DEF Text
      <4>3. w \in Nat
        BY <1>1, <4>2
      <4>4. more \in Seq(FragmentSet)
        BY <1>1, <2>7
      <4> QED BY <4>1, <4>3, <4>4
    <3> HIDE DEF failed, w, more
    <3> DEFINE S == Seq(FragmentSet)  B == BOOLEAN
    <3>3. more \in S /\ failed \in B /\ MadeSet = [used : Nat, failed : B, evidence : S]
      BY <3>2 DEF MadeSet
    <3>4. w \in Nat
      BY <3>2
    <3> HIDE DEF S, B
    <3>5. [used |-> w, failed |-> failed, evidence |-> more]
             \in [used : Nat, failed : B, evidence : S]
      BY <3>3, <3>4, Zenon
    <3> QED BY <3>1, <3>3, <3>5, Zenon
  <2> QED BY <2>8, <2>9
<1> QED BY <1>2, <1>3

(* The pieces of a candidate and what is made after each of them.           *)
ArePieces(c, pieces, N) ==
  /\ N \in Nat /\ N = Len(pieces)
  /\ \A n \in 1..N : IsPiece(c, pieces[n])

(* g[n] is the selection after n pieces of the candidate.                   *)
Added(g, made, c, pieces, N, budget) ==
  /\ g[0] = made
  /\ \A n \in 0..N : g[n] \in MadeSet
  /\ \A n \in 1..N : g[n] = AddPiece(g[n - 1], c, pieces[n], budget)
  /\ AddPieces(made, c, pieces, budget) = g[N]

(* The recursion of AddPieces, unfolded.                                    *)
LEMMA AddPiecesUnfolds ==
  ASSUME NEW budget \in Nat, NEW made \in MadeSet, NEW c, IsCandidate(c),
         NEW pieces, NEW N, ArePieces(c, pieces, N)
  PROVE  \E g : Added(g, made, c, pieces, N, budget)
<1> DEFINE V == MadeSet
           step == [nv \in (1..N) \X V |-> AddPiece(nv[2], c, pieces[nv[1]], budget)]
           Equation(f) ==
             f = [n \in 0..N |-> IF n = 0 THEN made ELSE AddPiece(f[n - 1], c, pieces[n], budget)]
<1>1. N \in Nat /\ N = Len(pieces) /\ \A n \in 1..N : IsPiece(c, pieces[n])
  BY DEF ArePieces
<1>2. step \in [((0 + 1)..N) \X V -> V]
  <2> SUFFICES ASSUME NEW nv \in (1..N) \X V
               PROVE  AddPiece(nv[2], c, pieces[nv[1]], budget) \in V
    BY <1>1
  <2> DEFINE n == nv[1]  v == nv[2]  piece == pieces[n]
  <2>1. n \in 1..N /\ v \in V
    OBVIOUS
  <2>2. IsPiece(c, piece)
    BY <1>1, <2>1
  <2> HIDE DEF n, v, piece
  <2>3. AddPiece(v, c, piece, budget) \in V
    BY <2>1, <2>2, AddPieceTyped
  <2> QED BY <2>3 DEF n, v, piece
<1>3. PICK f : Solution(f, 0, N, V, made, step)
  <2>1. 0 \in Int /\ N \in Int /\ 0 <= N /\ made \in V
    BY <1>1
  <2> HIDE DEF step, V
  <2> QED BY <1>2, <2>1, RecursionExists
<1>4. /\ f \in [0..N -> V] /\ f[0] = made
      /\ \A n \in 1..N : f[n] = step[<<n, f[n - 1]>>]
  <2> HIDE DEF step, V
  <2> QED BY <1>3 DEF Solution
<1>5. ASSUME NEW n \in 1..N PROVE f[n] = AddPiece(f[n - 1], c, pieces[n], budget)
  <2>1. n - 1 \in 0..N
    BY <1>1
  <2>2. f[n - 1] \in V
    BY <1>4, <2>1
  <2>3. step[<<n, f[n - 1]>>] = AddPiece(f[n - 1], c, pieces[n], budget)
    BY <2>2
  <2> HIDE DEF step, V
  <2> QED BY <1>4, <2>3
<1>6. Equation(f)
  <2>1. f = [n \in 0..N |-> f[n]]
    BY <1>4
  <2>2. ASSUME NEW n \in 0..N
        PROVE  f[n] = IF n = 0 THEN made ELSE AddPiece(f[n - 1], c, pieces[n], budget)
    <3>1. CASE n = 0
      BY <1>4, <3>1
    <3>2. CASE n # 0
      <4>1. n \in 1..N
        BY <1>1, <3>2
      <4> QED BY <1>5, <3>2, <4>1
    <3> QED BY <3>1, <3>2
  <2>3. f = [n \in 0..N |-> IF n = 0 THEN made ELSE AddPiece(f[n - 1], c, pieces[n], budget)]
    BY <2>1, <2>2
  <2> QED BY <2>3
<1> DEFINE g == CHOOSE g : Equation(g)
<1>7. Equation(g)
  <2> HIDE DEF Equation
  <2> QED BY <1>6
<1>8. AddPieces(made, c, pieces, budget) = g[N]
  <2> DEFINE E2(h) == h = [n \in 0..Len(pieces) |->
                             IF n = 0 THEN made ELSE AddPiece(h[n - 1], c, pieces[n], budget)]
  <2>1. AddPieces(made, c, pieces, budget) = (CHOOSE h : E2(h))[Len(pieces)]
    BY DEF AddPieces
  <2> QED BY <1>1, <2>1
<1> HIDE DEF g
<1>9. g[0] = made /\ \A n \in 1..N : g[n] = AddPiece(g[n - 1], c, pieces[n], budget)
  <2>1. \A n \in 0..N : g[n] = IF n = 0 THEN made
                               ELSE AddPiece(g[n - 1], c, pieces[n], budget)
    BY <1>7
  <2>2. 0 \in 0..N /\ \A n \in 1..N : n \in 0..N /\ n # 0
    BY <1>1
  <2> QED BY <2>1, <2>2
<1>10. \A n \in 0..N : g[n] \in MadeSet
  <2> DEFINE T == {n \in Nat : n <= N => g[n] \in MadeSet}
  <2>1. 0 \in T
    BY <1>9
  <2>2. ASSUME NEW n \in Nat, n \in T
        PROVE  n + 1 \in T
    <3> SUFFICES ASSUME n + 1 <= N PROVE g[n + 1] \in MadeSet
      OBVIOUS
    <3> DEFINE piece == pieces[n + 1]  v == g[n]
    <3>1. n + 1 \in 1..N /\ (n + 1) - 1 = n /\ v \in MadeSet
      BY <1>1, <2>2
    <3>2. IsPiece(c, piece) /\ g[n + 1] = AddPiece(v, c, piece, budget)
      BY <1>1, <1>9, <3>1
    <3> HIDE DEF piece, v
    <3> QED BY <3>1, <3>2, AddPieceTyped
  <2> HIDE DEF T
  <2>3. \A n \in Nat : n \in T
    BY <2>1, <2>2, NatSetInduction
  <2> QED BY <1>1, <2>3 DEF T
<1> QED BY <1>8, <1>9, <1>10 DEF Added

(* Pieces of a source, apart from each other and from what is taken.        *)
InPieces(f, pieces, N) == UNION {PlacesIn(f, pieces[k][1], pieces[k][2]) : k \in 1..N}

(* The pieces are apart from each other and from what is taken.             *)
Separate(f, pieces, N, taken) ==
  \A n \in 1..N : /\ PlacesIn(f, pieces[n][1], pieces[n][2]) \cap taken = {}
                  /\ PlacesIn(f, pieces[n][1], pieces[n][2]) \cap InPieces(f, pieces, n - 1) = {}

(* The places fit into the budget.                                          *)
Room(places, budget) == IsFiniteSet(places) /\ Cardinality(places) <= budget

(* What is made grows within some places, and by all that is written on     *)
(* them when there is room for everything.                                  *)
GrowsWith(made, next, places, H, budget) ==
  /\ WellMade(next, budget)
  /\ TakenPlaces(made.evidence) \subseteq TakenPlaces(next.evidence)
  /\ TakenPlaces(next.evidence) \subseteq TakenPlaces(made.evidence) \cup places
  /\ Room(H, budget) /\ TakenPlaces(made.evidence) \cup places \subseteq H =>
       \A p \in places : WrittenAt(p[1], p[2]) => p \in TakenPlaces(next.evidence)

(* The places of the first pieces, and of one more.                         *)
LEMMA PiecesGrow ==
  ASSUME NEW f, NEW pieces, NEW n \in Nat
  PROVE  /\ InPieces(f, pieces, 0) = {}
         /\ InPieces(f, pieces, n + 1) =
              InPieces(f, pieces, n) \cup PlacesIn(f, pieces[n + 1][1], pieces[n + 1][2])
<1> DEFINE P(k) == PlacesIn(f, pieces[k][1], pieces[k][2])
<1>1. 1..0 = {} /\ 1..(n + 1) = (1..n) \cup {n + 1}
  OBVIOUS
<1>2. \A m : InPieces(f, pieces, m) = UNION {P(k) : k \in 1..m}
  BY DEF InPieces
<1> HIDE DEF P
<1>3. UNION {P(k) : k \in (1..n) \cup {n + 1}} = (UNION {P(k) : k \in 1..n}) \cup P(n + 1)
  OBVIOUS
<1> QED BY <1>1, <1>2, <1>3 DEF P

(* One piece more, with what there is room for.                             *)
LEMMA OneMore ==
  ASSUME NEW budget \in Nat, NEW made, WellMade(made, budget), NEW c, IsCandidate(c),
         NEW f, f = c.meta.file, NEW piece, IsPiece(c, piece),
         NEW places, places = PlacesIn(f, piece[1], piece[2]),
         places \cap TakenPlaces(made.evidence) = {},
         NEW next, next = AddPiece(made, c, piece, budget), NEW H
  PROVE  GrowsWith(made, next, places, H, budget)
<1> DEFINE a == piece[1]  b == piece[2]  S == TakenPlaces(made.evidence)
<1>1. a \in Nat /\ b \in Nat /\ a < b /\ places = PlacesIn(f, a, b)
  BY DEF IsPiece
<1> HIDE DEF a, b
<1>2. WellMade(next, budget) /\ Grows(made, next, f, a, b, budget)
  BY <1>1, AddPieceIs DEF a, b
<1>3. ASSUME Room(H, budget), S \cup places \subseteq H
      PROVE  made.used + (b - a) <= budget
  <2>1. IsFiniteSet(S) /\ Cardinality(S) = made.used /\ made.used \in Nat
    BY DEF WellMade, Counted, MadeSet
  <2>2. IsFiniteSet(places) /\ Cardinality(places) = b - a
    BY <1>1, PlacesCount
  <2> HIDE DEF S
  <2>3. /\ IsFiniteSet(S \cup places)
        /\ Cardinality(S \cup places)
             = Cardinality(S) + Cardinality(places) - Cardinality(S \cap places)
    BY <2>1, <2>2, FS_Union
  <2>4. Cardinality(S \cap places) = 0
    <3>1. S \cap places = {}
      BY DEF S
    <3> QED BY <3>1, FS_EmptySet
  <2>5. Cardinality(S \cup places) <= Cardinality(H) /\ Cardinality(H) <= budget
        /\ Cardinality(H) \in Nat
    <3>1. IsFiniteSet(H) /\ S \cup places \in SUBSET H /\ Cardinality(H) <= budget
      BY <1>3 DEF Room
    <3>2. Cardinality(S \cup places) <= Cardinality(H) /\ Cardinality(H) \in Nat
      BY <3>1, FS_Subset, FS_CardinalityType
    <3> QED BY <3>1, <3>2
  <2> QED BY <1>1, <2>1, <2>2, <2>3, <2>4, <2>5
<1>4. ASSUME Room(H, budget), S \cup places \subseteq H, NEW p \in places,
             WrittenAt(p[1], p[2])
      PROVE  p \in TakenPlaces(next.evidence)
  <2>1. PICK i \in a..(b - 1) : p = <<f, i>>
    BY <1>1 DEF PlacesIn
  <2>2. WrittenAt(f, i)
    BY <1>4, <2>1
  <2> QED BY <1>2, <1>3, <1>4, <2>1, <2>2 DEF Grows
<1>5. /\ TakenPlaces(made.evidence) \subseteq TakenPlaces(next.evidence)
      /\ TakenPlaces(next.evidence) \subseteq TakenPlaces(made.evidence) \cup places
  BY <1>1, <1>2 DEF Grows
<1> QED BY <1>2, <1>4, <1>5 DEF GrowsWith, S

(* Growing twice is growing.                                                *)
LEMMA GrowsOn ==
  ASSUME NEW budget, NEW H, NEW made, NEW mid, NEW next, NEW U, NEW W,
         GrowsWith(made, mid, U, H, budget), GrowsWith(mid, next, W, H, budget)
  PROVE  GrowsWith(made, next, U \cup W, H, budget)
<1> DEFINE T0 == TakenPlaces(made.evidence)  T1 == TakenPlaces(mid.evidence)
           T2 == TakenPlaces(next.evidence)
<1>1. /\ WellMade(next, budget) /\ T0 \subseteq T1 /\ T1 \subseteq T2
      /\ T1 \subseteq T0 \cup U /\ T2 \subseteq T1 \cup W
      /\ Room(H, budget) /\ T0 \cup U \subseteq H =>
           \A p \in U : WrittenAt(p[1], p[2]) => p \in T1
      /\ Room(H, budget) /\ T1 \cup W \subseteq H =>
           \A p \in W : WrittenAt(p[1], p[2]) => p \in T2
  BY DEF GrowsWith
<1>2. ASSUME Room(H, budget), T0 \cup (U \cup W) \subseteq H
      PROVE  \A p \in U \cup W : WrittenAt(p[1], p[2]) => p \in T2
  <2>1. T0 \cup U \subseteq H /\ T1 \cup W \subseteq H
    BY <1>1, <1>2
  <2> QED BY <1>1, <1>2, <2>1
<1>3. T0 \subseteq T2 /\ T2 \subseteq T0 \cup (U \cup W)
  BY <1>1
<1> QED BY <1>1, <1>2, <1>3 DEF GrowsWith

(* Adding nothing.                                                          *)
LEMMA GrowsNot ==
  ASSUME NEW budget, NEW H, NEW made, WellMade(made, budget)
  PROVE  GrowsWith(made, made, {}, H, budget)
BY DEF GrowsWith

(* Adding pieces that are apart takes them all as long as there is room.    *)
LEMMA AddPiecesIs ==
  ASSUME NEW budget \in Nat, NEW made, WellMade(made, budget), NEW c, IsCandidate(c),
         NEW f, f = c.meta.file, NEW pieces, NEW N, ArePieces(c, pieces, N),
         Separate(f, pieces, N, TakenPlaces(made.evidence)),
         NEW next, next = AddPieces(made, c, pieces, budget), NEW H
  PROVE  GrowsWith(made, next, InPieces(f, pieces, N), H, budget)
<1>1. made \in MadeSet
  BY DEF WellMade
<1>2. PICK g : Added(g, made, c, pieces, N, budget)
  BY <1>1, AddPiecesUnfolds
<1>3. /\ N \in Nat /\ g[0] = made /\ next = g[N]
      /\ \A n \in 1..N : g[n] = AddPiece(g[n - 1], c, pieces[n], budget)
      /\ \A n \in 1..N : IsPiece(c, pieces[n])
  BY <1>2 DEF Added, ArePieces
<1> DEFINE U(n) == InPieces(f, pieces, n)
           T == {n \in Nat : n <= N => GrowsWith(made, g[n], U(n), H, budget)}
<1>4. 0 \in T
  <2>1. U(0) = {}
    BY PiecesGrow
  <2>2. GrowsWith(made, g[0], U(0), H, budget)
    BY <1>3, <2>1, GrowsNot
  <2> HIDE DEF U
  <2> QED BY <2>2
<1>5. ASSUME NEW n \in Nat, n \in T
      PROVE  n + 1 \in T
  <2> SUFFICES ASSUME n + 1 <= N PROVE GrowsWith(made, g[n + 1], U(n + 1), H, budget)
    OBVIOUS
  <2> DEFINE piece == pieces[n + 1]  v == g[n]  w == g[n + 1]
             W == PlacesIn(f, piece[1], piece[2])
  <2>1. n + 1 \in 1..N /\ (n + 1) - 1 = n
    BY <1>3
  <2>2. GrowsWith(made, v, U(n), H, budget)
    <3> HIDE DEF U
    <3> QED BY <1>3, <1>5, <2>1
  <2>3. IsPiece(c, piece) /\ w = AddPiece(v, c, piece, budget)
    BY <1>3, <2>1
  <2>4. U(n + 1) = U(n) \cup W
    BY PiecesGrow
  <2>5. W \cap TakenPlaces(made.evidence) = {} /\ W \cap U(n) = {}
    BY <2>1 DEF Separate
  <2> HIDE DEF piece, v, w, U
  <2>6. WellMade(v, budget)
            /\ TakenPlaces(v.evidence) \subseteq TakenPlaces(made.evidence) \cup U(n)
    BY <2>2 DEF GrowsWith
  <2>7. W \cap TakenPlaces(v.evidence) = {}
    <3> HIDE DEF W
    <3> QED BY <2>5, <2>6
  <2>8. GrowsWith(v, w, W, H, budget)
    BY <2>3, <2>6, <2>7, OneMore
  <2> HIDE DEF W
  <2>9. GrowsWith(made, w, U(n) \cup W, H, budget)
    BY <2>2, <2>8, GrowsOn
  <2> QED BY <2>4, <2>9 DEF w
<1> HIDE DEF T
<1>6. \A n \in Nat : n \in T
  BY <1>4, <1>5, NatSetInduction
<1> QED BY <1>3, <1>6 DEF T

(* What covers a candidate are the places taken on its source.              *)
LEMMA CoveredIsTaken ==
  ASSUME NEW budget, NEW made, WellMade(made, budget), NEW c, IsCandidate(c),
         NEW f, f = c.meta.file, NEW i \in Nat
  PROVE  Lies(Covered(made.evidence, c.meta), i) <=> <<f, i>> \in TakenPlaces(made.evidence)
<1> DEFINE ev == made.evidence
<1>1. \A e \in ToSet(ev) : IsFragment(e) /\ e.from \in Nat /\ e.to \in Nat
  <2>1. \A e \in ToSet(ev) : IsFragment(e)
    BY DEF WellMade
  <2> QED BY <2>1, FragmentPlaces
<1>2. \A e : SourceIdentity(e.meta) = SourceIdentity(c.meta) => e.meta.file = f
  BY DEF SourceIdentity
<1>3. \A e \in ToSet(ev) : e.meta.file = f => SourceIdentity(e.meta) = SourceIdentity(c.meta)
  BY <1>1 DEF IsFragment, IsCandidate
<1> HIDE DEF ev
<1>4. ASSUME Lies(Covered(ev, c.meta), i)
      PROVE  <<f, i>> \in TakenPlaces(ev)
  <2>1. PICK e \in ToSet(ev) : /\ SourceIdentity(e.meta) = SourceIdentity(c.meta)
                               /\ e.from <= i /\ i < e.to
    <3>1. PICK d \in Covered(ev, c.meta) : d[1] <= i /\ i < d[2]
      BY <1>4 DEF Lies
    <3>2. PICK e \in ToSet(ev) : /\ SourceIdentity(e.meta) = SourceIdentity(c.meta)
                                 /\ d = <<e.from, e.to>>
      BY <3>1 DEF Covered
    <3> QED BY <3>1, <3>2
  <2>2. e.meta.file = f
    BY <1>2, <2>1
  <2>3. i \in e.from..(e.to - 1)
    BY <1>1, <2>1
  <2>4. <<f, i>> \in Places(e)
    BY <2>2, <2>3 DEF Places
  <2> QED BY <2>4 DEF TakenPlaces
<1>5. ASSUME <<f, i>> \in TakenPlaces(ev)
      PROVE  Lies(Covered(ev, c.meta), i)
  <2>1. PICK e \in ToSet(ev) : <<f, i>> \in Places(e)
    BY <1>5 DEF TakenPlaces
  <2>2. PICK j \in e.from..(e.to - 1) : <<f, i>> = <<e.meta.file, j>>
    BY <2>1 DEF Places
  <2>3. f = e.meta.file /\ i = j
    BY <2>2, SamePlace
  <2>4. SourceIdentity(e.meta) = SourceIdentity(c.meta)
    BY <1>3, <2>3
  <2> DEFINE d == <<e.from, e.to>>
  <2>5. d \in Covered(ev, c.meta)
    BY <2>4 DEF Covered
  <2>6. d[1] <= i /\ i < d[2]
    BY <1>1, <2>2, <2>3
  <2> HIDE DEF d
  <2> QED BY <2>5, <2>6 DEF Lies
<1> QED BY <1>4, <1>5 DEF ev

(* What is left of a candidate.                                             *)
LeavesPieces(f, from, to, pieces, N, taken) ==
  /\ Separate(f, pieces, N, taken)
  /\ InPieces(f, pieces, N) \subseteq PlacesIn(f, from, to)
  /\ PlacesIn(f, from, to) \subseteq taken \cup InPieces(f, pieces, N)

(* A place of a piece is a place of the pieces.                             *)
LEMMA InPiece ==
  ASSUME NEW f, NEW pieces, NEW N \in Nat, NEW n \in 1..N,
         NEW i \in pieces[n][1]..(pieces[n][2] - 1)
  PROVE  <<f, i>> \in InPieces(f, pieces, N)
BY DEF InPieces, PlacesIn

(* The pieces of an interval that are left are apart from what is taken.    *)
LEMMA PiecesLeft ==
  ASSUME NEW from \in Nat, NEW to \in Nat, NEW covered, NEW pieces,
         Clears(pieces, from, to, covered), NEW N, N = Len(pieces), NEW f, NEW taken,
         \A i \in Nat : Lies(covered, i) <=> <<f, i>> \in taken
  PROVE  N \in Nat /\ LeavesPieces(f, from, to, pieces, N, taken)
<1> DEFINE x(n) == pieces[n][1]  y(n) == pieces[n][2]
<1>1. /\ N \in Nat
      /\ \A n \in 1..N : /\ x(n) \in Nat /\ y(n) \in Nat
                         /\ from <= x(n) /\ x(n) < y(n) /\ y(n) <= to
      /\ \A n \in 1..N : \A i \in x(n)..(y(n) - 1) : ~Lies(covered, i)
  BY DEF Clears
<1>2. \A m, n \in 1..N : m < n => y(m) <= x(n)
  BY DEF Clears
<1>3. \A i \in from..(to - 1) :
        Lies(covered, i) \/ \E n \in 1..N : x(n) <= i /\ i < y(n)
  BY DEF Clears
<1>4. ASSUME NEW n \in 1..N
      PROVE  PlacesIn(f, x(n), y(n)) \cap taken = {}
  <2>1. x(n) \in Nat /\ y(n) \in Nat /\ \A i \in x(n)..(y(n) - 1) : ~Lies(covered, i)
    BY <1>1, Zenon
  <2> HIDE DEF x, y
  <2>2. \A i \in x(n)..(y(n) - 1) : i \in Nat
    BY <2>1
  <2>3. \A i \in x(n)..(y(n) - 1) : ~(<<f, i>> \in taken)
    BY <2>1, <2>2
  <2> QED BY <2>3 DEF PlacesIn
<1>5. ASSUME NEW n \in 1..N, NEW k \in 1..(n - 1)
      PROVE  PlacesIn(f, x(n), y(n)) \cap PlacesIn(f, x(k), y(k)) = {}
  <2>1. k \in 1..N /\ k < n
    BY <1>1
  <2>2. x(n) \in Nat /\ y(n) \in Nat /\ x(k) \in Nat /\ y(k) \in Nat
    BY <1>1, <2>1, Zenon
  <2>3. y(k) <= x(n)
    BY <1>2, <2>1, Zenon
  <2> HIDE DEF x, y
  <2>4. SUFFICES ASSUME NEW i \in x(n)..(y(n) - 1), NEW j \in x(k)..(y(k) - 1),
                        <<f, i>> = <<f, j>>
                 PROVE  FALSE
    BY DEF PlacesIn
  <2>5. i = j
    BY <2>4, SamePlace
  <2> QED BY <2>2, <2>3, <2>4, <2>5
<1>6. Separate(f, pieces, N, taken)
  <2>1. ASSUME NEW n \in 1..N
        PROVE  PlacesIn(f, x(n), y(n)) \cap InPieces(f, pieces, n - 1) = {}
    <3>1. InPieces(f, pieces, n - 1) = UNION {PlacesIn(f, x(k), y(k)) : k \in 1..(n - 1)}
      BY DEF InPieces
    <3> HIDE DEF x, y
    <3> QED BY <1>5, <3>1
  <2> QED BY <1>4, <2>1 DEF Separate
<1>7. InPieces(f, pieces, N) \subseteq PlacesIn(f, from, to)
  <2>1. InPieces(f, pieces, N) = UNION {PlacesIn(f, x(k), y(k)) : k \in 1..N}
    BY DEF InPieces
  <2>2. ASSUME NEW k \in 1..N
        PROVE  PlacesIn(f, x(k), y(k)) \subseteq PlacesIn(f, from, to)
    <3>1. x(k) \in Nat /\ y(k) \in Nat /\ from <= x(k) /\ y(k) <= to
      BY <1>1, Zenon
    <3> HIDE DEF x, y
    <3>2. x(k)..(y(k) - 1) \subseteq from..(to - 1)
      BY <3>1
    <3> QED BY <3>2 DEF PlacesIn
  <2> HIDE DEF x, y
  <2> QED BY <2>1, <2>2
<1>8. ASSUME NEW p \in PlacesIn(f, from, to)
      PROVE  p \in taken \cup InPieces(f, pieces, N)
  <2>1. PICK i \in from..(to - 1) : p = <<f, i>>
    BY DEF PlacesIn
  <2>2. i \in Nat
    OBVIOUS
  <2>3. CASE Lies(covered, i)
    BY <2>1, <2>2, <2>3
  <2>4. CASE ~Lies(covered, i)
    <3>1. PICK n \in 1..N : x(n) <= i /\ i < y(n)
      BY <1>3, <2>4, Zenon
    <3>2. x(n) \in Nat /\ y(n) \in Nat
      BY <1>1, Zenon
    <3>3. i \in x(n)..(y(n) - 1)
      <4> HIDE DEF x, y
      <4> QED BY <2>2, <3>1, <3>2
    <3>4. <<f, i>> \in InPieces(f, pieces, N)
      BY <1>1, <3>3, InPiece
    <3> QED BY <2>1, <3>4
  <2> QED BY <2>3, <2>4
<1> HIDE DEF x, y
<1> QED BY <1>1, <1>6, <1>7, <1>8 DEF LeavesPieces

(* What is left of a candidate is in pieces of it.                          *)
LEMMA CandidatePieces ==
  ASSUME NEW c, IsCandidate(c), NEW covered,
         NEW pieces, pieces = Subtract(c.from, c.to, covered), NEW N, N = Len(pieces)
  PROVE  Clears(pieces, c.from, c.to, covered) /\ ArePieces(c, pieces, N)
<1> DEFINE from == c.from  to == c.to  f == c.meta.file  L == Len(Joined(PagesOfFile(f)))
<1>1. from \in Nat /\ to \in Nat /\ to <= L /\ L \in Nat
  <2>1. PagesOfFile(f) \in Seq(Text)
    BY DEF IsCandidate
  <2>2. Joined(PagesOfFile(f)) \in Text
    BY <2>1, JoinedIs
  <2> QED BY <2>2 DEF IsCandidate, Text
<1>2. Clears(pieces, from, to, covered)
  <2>1. pieces = Subtract(from, to, covered)
    OBVIOUS
  <2> HIDE DEF from, to
  <2> QED BY <1>1, <2>1, SubtractIs
<1> HIDE DEF from, to, L
<1>3. /\ N \in Nat
      /\ \A n \in 1..N : /\ pieces[n][1] \in Nat /\ pieces[n][2] \in Nat
                         /\ pieces[n][1] < pieces[n][2] /\ pieces[n][2] <= to
  BY <1>2 DEF Clears
<1>4. ASSUME NEW n \in 1..N PROVE IsPiece(c, pieces[n])
  <2> DEFINE y == pieces[n][2]
  <2>1. y \in Nat /\ y <= to /\ pieces[n][1] \in Nat /\ pieces[n][1] < y
    BY <1>3, Zenon
  <2> HIDE DEF y
  <2>2. y <= L
    BY <1>1, <2>1
  <2> QED BY <2>1, <2>2 DEF IsPiece, y, L
<1>5. ArePieces(c, pieces, N)
  BY <1>3, <1>4 DEF ArePieces
<1> QED BY <1>2, <1>5 DEF from, to

(* A candidate adds what is left of it.                                     *)
LEMMA AddCandidateIs ==
  ASSUME NEW budget \in Nat, NEW made, WellMade(made, budget), NEW c, IsCandidate(c),
         NEW next, next = AddCandidate(made, c, budget), NEW H
  PROVE  GrowsWith(made, next, PlacesIn(c.meta.file, c.from, c.to), H, budget)
<1> DEFINE f == c.meta.file  from == c.from  to == c.to  ev == made.evidence
           covered == Covered(ev, c.meta)  taken == TakenPlaces(ev)
           pieces == Subtract(from, to, covered)  N == Len(pieces)
           U == InPieces(f, pieces, N)  W == PlacesIn(f, from, to)
<1>1. from \in Nat /\ to \in Nat
  BY DEF IsCandidate
<1>2. \A i \in Nat : Lies(covered, i) <=> <<f, i>> \in taken
  BY CoveredIsTaken
<1>3. next = AddPieces(made, c, pieces, budget)
  BY DEF AddCandidate
<1>4. Clears(pieces, from, to, covered) /\ ArePieces(c, pieces, N)
  BY CandidatePieces
<1> HIDE DEF pieces, N
<1>5. N \in Nat /\ LeavesPieces(f, from, to, pieces, N, taken)
  <2>0. N = Len(pieces)
    BY DEF N
  <2> HIDE DEF from, to, covered, taken, f
  <2> QED BY <1>1, <1>2, <1>4, <2>0, PiecesLeft
<1>7. GrowsWith(made, next, U, H, budget)
  <2>1. Separate(f, pieces, N, TakenPlaces(made.evidence))
    BY <1>5 DEF LeavesPieces
  <2> HIDE DEF f, ev
  <2>2. f = c.meta.file
    BY DEF f
  <2> QED BY <1>3, <1>4, <2>1, <2>2, AddPiecesIs
<1>8. U \subseteq W /\ W \subseteq taken \cup U
  BY <1>5 DEF LeavesPieces
<1> HIDE DEF U, W
<1>9. GrowsWith(made, next, W, H, budget)
  <2> DEFINE T0 == TakenPlaces(made.evidence)  T1 == TakenPlaces(next.evidence)
  <2>1. /\ WellMade(next, budget) /\ T0 \subseteq T1 /\ T1 \subseteq T0 \cup U
        /\ Room(H, budget) /\ T0 \cup U \subseteq H =>
             \A p \in U : WrittenAt(p[1], p[2]) => p \in T1
    BY <1>7 DEF GrowsWith
  <2>2. U \subseteq W /\ W \subseteq T0 \cup U
    BY <1>8
  <2>3. T1 \subseteq T0 \cup W
    BY <2>1, <2>2
  <2>4. ASSUME Room(H, budget), T0 \cup W \subseteq H
        PROVE  \A p \in W : WrittenAt(p[1], p[2]) => p \in T1
    <3>1. T0 \cup U \subseteq H
      BY <2>2, <2>4
    <3> QED BY <2>1, <2>2, <2>4, <3>1
  <2> QED BY <2>1, <2>3, <2>4 DEF GrowsWith
<1> QED BY <1>9 DEF W, f, from, to

(* The candidates in their order.                                           *)
LEMMA AddCandidateTyped ==
  ASSUME NEW budget \in Nat, NEW made \in MadeSet, NEW c, IsCandidate(c),
         NEW next, next = AddCandidate(made, c, budget)
  PROVE  next \in MadeSet
<1> DEFINE pieces == Subtract(c.from, c.to, Covered(made.evidence, c.meta))  N == Len(pieces)
<1>1. next = AddPieces(made, c, pieces, budget)
  BY DEF AddCandidate
<1>2. ArePieces(c, pieces, N)
  BY CandidatePieces
<1> HIDE DEF pieces, N
<1>3. PICK g : Added(g, made, c, pieces, N, budget)
  BY <1>2, AddPiecesUnfolds
<1>4. N \in 0..N /\ next = g[N] /\ \A n \in 0..N : g[n] \in MadeSet
  BY <1>1, <1>2, <1>3 DEF Added, ArePieces
<1> QED BY <1>4, Zenon

(* A list of N candidates.                                                  *)
AreCandidates(cs, N) ==
  /\ N \in Nat /\ N = Len(cs)
  /\ \A n \in 1..N : IsCandidate(cs[n])

(* The empty selection.                                                     *)
NothingYet == [used |-> 0, failed |-> FALSE, evidence |-> <<>>]

(* g[n] is the selection after n candidates.                                *)
AddedAll(g, cs, N, budget) ==
  /\ g[0] = NothingYet
  /\ \A n \in 1..N : g[n] = AddCandidate(g[n - 1], cs[n], budget)
  /\ AddCandidates(cs, budget) = g[N]

(* The empty selection is well made.                                        *)
LEMMA NothingWellMade ==
  ASSUME NEW budget \in Nat
  PROVE  WellMade(NothingYet, budget) /\ TakenPlaces(NothingYet.evidence) = {}
<1> DEFINE none == <<>>
<1>1. NothingYet.used = 0 /\ NothingYet.evidence = none
  BY DEF NothingYet
<1>2. NothingYet \in MadeSet
  BY DEF NothingYet, MadeSet
<1>3. ToSet(none) = {} /\ DOMAIN none = {}
  <2>1. none \in Seq(Nat) /\ Len(none) = 0
    OBVIOUS
  <2>2. DOMAIN none = {}
    BY <2>1
  <2>3. ToSet(none) = {none[i] : i \in DOMAIN none}
    BY DEF ToSet
  <2> QED BY <2>2, <2>3
<1>4. TextOf(none) = FlattenSeq(<<>>)
  <2>1. [i \in DOMAIN none |-> none[i].content] = <<>>
    BY <1>3
  <2> QED BY <2>1 DEF TextOf
<1>5. Len(TextOf(none)) = 0
  BY <1>4, FlattenNone
<1> HIDE DEF none
<1>6. TakenPlaces(none) = {}
  BY <1>3 DEF TakenPlaces
<1>7. Counted(NothingYet)
  BY <1>1, <1>5, <1>6, FS_EmptySet DEF Counted
<1>8. Apart(none)
  BY <1>3 DEF Apart
<1> QED BY <1>1, <1>2, <1>3, <1>6, <1>7, <1>8 DEF WellMade

(* The recursion of AddCandidates, unfolded.                                *)
LEMMA AddCandidatesUnfolds ==
  ASSUME NEW budget \in Nat, NEW cs, NEW N, AreCandidates(cs, N)
  PROVE  \E g : AddedAll(g, cs, N, budget)
<1> DEFINE V == MadeSet  none == NothingYet
           step == [nv \in (1..N) \X V |-> AddCandidate(nv[2], cs[nv[1]], budget)]
           Equation(f) ==
             f = [n \in 0..N |-> IF n = 0 THEN none ELSE AddCandidate(f[n - 1], cs[n], budget)]
<1>1. N \in Nat /\ N = Len(cs) /\ \A n \in 1..N : IsCandidate(cs[n])
  BY DEF AreCandidates
<1>2. step \in [((0 + 1)..N) \X V -> V]
  <2> SUFFICES ASSUME NEW nv \in (1..N) \X V
               PROVE  AddCandidate(nv[2], cs[nv[1]], budget) \in V
    BY <1>1
  <2> DEFINE n == nv[1]  v == nv[2]  c == cs[n]
  <2>1. n \in 1..N /\ v \in V
    OBVIOUS
  <2>2. IsCandidate(c)
    BY <1>1, <2>1
  <2> HIDE DEF n, v, c
  <2>3. AddCandidate(v, c, budget) \in V
    BY <2>1, <2>2, AddCandidateTyped
  <2> QED BY <2>3 DEF n, v, c
<1>3. PICK f : Solution(f, 0, N, V, none, step)
  <2>1. 0 \in Int /\ N \in Int /\ 0 <= N /\ none \in V
    BY <1>1, NothingWellMade DEF WellMade
  <2> HIDE DEF step, V, none
  <2> QED BY <1>2, <2>1, RecursionExists
<1>4. /\ f \in [0..N -> V] /\ f[0] = none
      /\ \A n \in 1..N : f[n] = step[<<n, f[n - 1]>>]
  <2> HIDE DEF step, V, none
  <2> QED BY <1>3 DEF Solution
<1>5. ASSUME NEW n \in 1..N PROVE f[n] = AddCandidate(f[n - 1], cs[n], budget)
  <2>1. n - 1 \in 0..N
    BY <1>1
  <2>2. f[n - 1] \in V
    BY <1>4, <2>1
  <2>3. step[<<n, f[n - 1]>>] = AddCandidate(f[n - 1], cs[n], budget)
    BY <2>2
  <2> HIDE DEF step, V
  <2> QED BY <1>4, <2>3
<1>6. Equation(f)
  <2> HIDE DEF none
  <2>1. f = [n \in 0..N |-> f[n]]
    BY <1>4
  <2>2. ASSUME NEW n \in 0..N
        PROVE  f[n] = IF n = 0 THEN none ELSE AddCandidate(f[n - 1], cs[n], budget)
    <3>1. CASE n = 0
      BY <1>4, <3>1
    <3>2. CASE n # 0
      <4>1. n \in 1..N
        BY <1>1, <3>2
      <4> QED BY <1>5, <3>2, <4>1
    <3> QED BY <3>1, <3>2
  <2>3. f = [n \in 0..N |-> IF n = 0 THEN none ELSE AddCandidate(f[n - 1], cs[n], budget)]
    BY <2>1, <2>2
  <2> QED BY <2>3
<1> DEFINE g == CHOOSE g : Equation(g)
<1>7. Equation(g)
  <2> HIDE DEF Equation
  <2> QED BY <1>6
<1>8. AddCandidates(cs, budget) = g[N]
  <2> DEFINE E2(h) == h = [n \in 0..Len(cs) |->
                             IF n = 0 THEN [used |-> 0, failed |-> FALSE, evidence |-> <<>>]
                             ELSE AddCandidate(h[n - 1], cs[n], budget)]
  <2>1. AddCandidates(cs, budget) = (CHOOSE h : E2(h))[Len(cs)]
    BY DEF AddCandidates
  <2> QED BY <1>1, <2>1 DEF NothingYet
<1> HIDE DEF g
<1>9. g[0] = none /\ \A n \in 1..N : g[n] = AddCandidate(g[n - 1], cs[n], budget)
  <2> HIDE DEF none
  <2>1. \A n \in 0..N : g[n] = IF n = 0 THEN none
                               ELSE AddCandidate(g[n - 1], cs[n], budget)
    BY <1>7
  <2>2. 0 \in 0..N /\ \A n \in 1..N : n \in 0..N /\ n # 0
    BY <1>1
  <2> QED BY <2>1, <2>2
<1> QED BY <1>8, <1>9 DEF AddedAll

(* The places of the first m candidates.                                    *)
InCandidates(cs, m) ==
  UNION {PlacesIn(cs[k].meta.file, cs[k].from, cs[k].to) : k \in 1..m}

(* Those of one candidate more.                                             *)
LEMMA CandidatesGrow ==
  ASSUME NEW cs, NEW n \in Nat
  PROVE  /\ InCandidates(cs, 0) = {}
         /\ InCandidates(cs, n + 1) = InCandidates(cs, n)
              \cup PlacesIn(cs[n + 1].meta.file, cs[n + 1].from, cs[n + 1].to)
<1> DEFINE P(k) == PlacesIn(cs[k].meta.file, cs[k].from, cs[k].to)
<1>1. 1..0 = {} /\ 1..(n + 1) = (1..n) \cup {n + 1}
  OBVIOUS
<1>2. \A m : InCandidates(cs, m) = UNION {P(k) : k \in 1..m}
  BY DEF InCandidates
<1> HIDE DEF P
<1>3. UNION {P(k) : k \in (1..n) \cup {n + 1}} = (UNION {P(k) : k \in 1..n}) \cup P(n + 1)
  OBVIOUS
<1> QED BY <1>1, <1>2, <1>3 DEF P

(* All that is written in the first candidates is taken when there is room  *)
(* for them, whatever comes after.                                          *)
Takes(made, cs, m, budget) ==
  /\ WellMade(made, budget)
  /\ \A p \in InCandidates(cs, m) : WrittenAt(p[1], p[2]) => p \in TakenPlaces(made.evidence)

(* Adding candidates takes the first m of them whole when they fit.         *)
LEMMA AddCandidatesIs ==
  ASSUME NEW budget \in Nat, NEW cs, NEW N, AreCandidates(cs, N), NEW m \in 0..N,
         NEW H, Room(H, budget), InCandidates(cs, m) \subseteq H,
         NEW made, made = AddCandidates(cs, budget)
  PROVE  Takes(made, cs, m, budget)
<1>1. PICK g : AddedAll(g, cs, N, budget)
  BY AddCandidatesUnfolds
<1>2. /\ N \in Nat /\ made = g[N] /\ g[0] = NothingYet
      /\ \A n \in 1..N : g[n] = AddCandidate(g[n - 1], cs[n], budget)
      /\ \A n \in 1..N : IsCandidate(cs[n])
  BY <1>1 DEF AddedAll, AreCandidates
<1> DEFINE U(n) == InCandidates(cs, n)
           taken(n) == TakenPlaces(g[n].evidence)
           T == {n \in Nat : n <= N => /\ GrowsWith(NothingYet, g[n], U(n), H, budget)
                                       /\ (m <= n => taken(m) \subseteq taken(n))}
<1>3. 0 \in T
  <2>1. U(0) = {}
    BY CandidatesGrow
  <2>2. GrowsWith(NothingYet, g[0], U(0), H, budget)
    BY <1>2, <2>1, NothingWellMade, GrowsNot
  <2>3. m <= 0 => m = 0
    BY <1>2
  <2> HIDE DEF U
  <2> QED BY <2>2, <2>3
<1>4. ASSUME NEW n \in Nat, n \in T
      PROVE  n + 1 \in T
  <2> SUFFICES ASSUME n + 1 <= N
               PROVE  /\ GrowsWith(NothingYet, g[n + 1], U(n + 1), H, budget)
                      /\ (m <= n + 1 => taken(m) \subseteq taken(n + 1))
    OBVIOUS
  <2> DEFINE c == cs[n + 1]  v == g[n]  w == g[n + 1]  W == PlacesIn(c.meta.file, c.from, c.to)
  <2>1. n + 1 \in 1..N /\ (n + 1) - 1 = n /\ n <= N
    BY <1>2
  <2>2. GrowsWith(NothingYet, v, U(n), H, budget) /\ (m <= n => taken(m) \subseteq taken(n))
    <3> HIDE DEF U, taken
    <3> QED BY <1>4, <2>1
  <2>3. IsCandidate(c) /\ w = AddCandidate(v, c, budget)
    BY <1>2, <2>1
  <2>4. U(n + 1) = U(n) \cup W
    BY CandidatesGrow
  <2> HIDE DEF c, v, w, U
  <2>5. WellMade(v, budget)
    BY <2>2 DEF GrowsWith
  <2>6. GrowsWith(v, w, W, H, budget)
    BY <2>3, <2>5, AddCandidateIs
  <2> HIDE DEF W
  <2>7. GrowsWith(NothingYet, w, U(n) \cup W, H, budget)
    BY <2>2, <2>6, GrowsOn
  <2>8. taken(n) \subseteq taken(n + 1)
    BY <2>6 DEF GrowsWith, v, w
  <2>9. m <= n + 1 => taken(m) \subseteq taken(n + 1)
    <3>1. m <= n + 1 => m <= n \/ m = n + 1
      BY <1>2
    <3> HIDE DEF taken
    <3> QED BY <2>2, <2>8, <3>1
  <2> HIDE DEF taken
  <2> QED BY <2>4, <2>7, <2>9 DEF w
<1> HIDE DEF T
<1>5. \A n \in Nat : n \in T
  BY <1>3, <1>4, NatSetInduction
<1>6. N \in T /\ m \in T /\ m \in Nat /\ m <= N /\ N <= N
  BY <1>2, <1>5
<1>7. GrowsWith(NothingYet, g[m], U(m), H, budget)
  BY <1>6 DEF T
<1>8. GrowsWith(NothingYet, g[N], U(N), H, budget) /\ taken(m) \subseteq taken(N)
  BY <1>6 DEF T
<1>9. TakenPlaces(NothingYet.evidence) = {}
  BY NothingWellMade
<1>10. \A p \in U(m) : WrittenAt(p[1], p[2]) => p \in taken(m)
  BY <1>7, <1>9 DEF GrowsWith
<1>11. WellMade(g[N], budget)
  BY <1>8 DEF GrowsWith
<1> QED BY <1>2, <1>8, <1>10, <1>11 DEF Takes

(***************************************************************************)
(* Contexts, and the packet that is made of them                           *)
(***************************************************************************)

(* The one document of an attachment of which no page is there twice.       *)
OneSource(f, n) ==
  /\ n \in 1..Len(documents) /\ documents[n].file = f
  /\ DocumentOf(f) = documents[n] /\ ReadsLines(PagesOfFile(f), n)
  /\ PagesOfFile(f) \in Seq(Text)

(* A file of the documents has one source when no page is there twice.      *)
LEMMA OneSourceIs ==
  ASSUME IngestInv, AreLines(Pages), ~TwicePaged, NEW f, \E d \in ToSet(documents) : d.file = f
  PROVE  \E n : OneSource(f, n)
<1>1. PICK m \in 1..Len(documents) : LastOf(documents, f) = documents[m] /\ documents[m].file = f
  BY DocumentOfIs DEF IngestInv, PlanMade
<1>2. ReadsLines(PagesOfFile(f), m)
  BY <1>1, PagesOfFileIs
<1>3. PagesOfFile(f) \in Seq(Text)
  BY <1>2 DEF ReadsLines
<1>4. OneSource(f, m)
  BY <1>1, <1>2, <1>3 DEF OneSource, DocumentOf
<1> QED BY <1>4

(* A chunk of the build names the source its document has.                  *)
LEMMA ChunkSource ==
  ASSUME IngestInv, AreLines(Pages), ~TwicePaged, NEW h, IsPlaced(h, documents), NEW n,
         OneSource(h.file, n)
  PROVE  /\ documents[n] \in ToSet(documents)
         /\ h.paper = documents[n].paper /\ h.hash = documents[n].hash
         /\ h.file = documents[n].file
<1>1. PICK d \in ToSet(documents) : SameSource(h, d)
  BY DEF IsPlaced
<1>2. IsList(documents)
  BY DEF IngestInv, PlanMade
<1>3. PICK m \in 1..Len(documents) : d = documents[m]
  BY <1>2, ListIs
<1>4. n \in 1..Len(documents) /\ documents[n].file = h.file
  BY DEF OneSource
<1>5. documents[m].file = documents[n].file
  BY <1>1, <1>3, <1>4 DEF SameSource
<1>6. m = n
  BY <1>4, <1>5, OneDocument
<1> QED BY <1>1, <1>2, <1>3, <1>4, <1>6, ListIs DEF SameSource

(* The metadata of a hit, as the reader writes them.                        *)
IsMetadata(m, h) ==
  /\ m \in MetaSet /\ m.file = h.file /\ SourceIdentity(m) = IdentityOf(h.file)
  /\ m.generation = generation /\ m.paper = h.paper /\ m.hash = h.hash
  /\ m.main = SourceOf(h.file).main
  /\ m.textHash = h.text /\ m.spans = h.spans

(* The reader writes these metadata.                                        *)
LEMMA MetadataIs ==
  ASSUME IngestInv, AreLines(Pages), ~TwicePaged, generation \in Nat,
         NEW h, IsPlaced(h, documents), NEW m, m = Metadata(h)
  PROVE  IsMetadata(m, h)
<1>1. \E d \in ToSet(documents) : d.file = h.file
  BY DEF IsPlaced, SameSource
<1>2. PICK n : OneSource(h.file, n)
  BY <1>1, OneSourceIs
<1>3. /\ documents[n] \in ToSet(documents) /\ DocumentOf(h.file) = documents[n]
      /\ h.paper = documents[n].paper /\ h.hash = documents[n].hash
      /\ h.file = documents[n].file
  BY <1>2, ChunkSource DEF OneSource
<1>4. h.text \in Text /\ h.spans \in Seq(SpanSet)
  BY DEF IsPlaced, IsChunk
<1> DEFINE f == h.file  p == h.paper  k == h.hash  s == SourceOf(h.file).main
           t == h.text  sp == h.spans  g == generation
           F == {d.file : d \in ToSet(documents)}  R == {d.paper : d \in ToSet(documents)}
           H == {d.hash : d \in ToSet(documents)}
           M == {SourceOf(d.file).main : d \in ToSet(documents)}
<1>5. MetaSet = [generation : Nat, file : F, paper : R, hash : H, main : M, textHash : Text,
                 spans : Seq(SpanSet)]
  BY DEF MetaSet
<1>6. f \in F /\ p \in R /\ k \in H /\ s \in M /\ t \in Text /\ sp \in Seq(SpanSet) /\ g \in Nat
  BY <1>3, <1>4
<1>7. m = [generation |-> g, file |-> f, paper |-> p, hash |-> k, main |-> s,
           textHash |-> t, spans |-> sp]
  BY DEF Metadata
<1> HIDE DEF F, R, H, M, f, p, k, s, t, sp, g
<1>8. /\ m.generation = g /\ m.file = f /\ m.paper = p /\ m.hash = k /\ m.main = s
      /\ m.textHash = t /\ m.spans = sp
  BY <1>7
<1>9. m \in MetaSet
  BY <1>5, <1>6, <1>7
<1>10. SourceIdentity(m) = IdentityOf(h.file)
  BY <1>3, <1>8 DEF SourceIdentity, IdentityOf, f, p, k, s, g
<1> QED BY <1>8, <1>9, <1>10 DEF IsMetadata, f, p, k, s, t, sp, g

(* What is around a hit that is found on the pages: a stretch that holds    *)
(* it, and the hit itself.                                                  *)
Surrounds(x, h) ==
  /\ x = [meta |-> x.meta, at |-> x.at, length |-> x.length, from |-> x.from, to |-> x.to]
  /\ x.meta = Metadata(h) /\ x.length = Len(h.text)
  /\ x.at = Locate(PagesOfFile(h.file), h.text, h.spans)
  /\ x.at \in Nat /\ x.length \in Nat /\ x.length > 0
  /\ x.at + x.length <= Len(Joined(PagesOfFile(h.file)))
  /\ Bounded(x, x.at, x.at + x.length, Len(Joined(PagesOfFile(h.file))), ContextBudget)

(* The text around a hit, field by field.                                   *)
LEMMA AroundIs ==
  ASSUME NEW h, IsChunk(h), PagesOfFile(h.file) \in Seq(Text),
         Locate(PagesOfFile(h.file), h.text, h.spans) # None,
         NEW x, x = Around(h)
  PROVE  Surrounds(x, h)
<1> DEFINE P == PagesOfFile(h.file)  t == Joined(P)  at == Locate(P, h.text, h.spans)
           l == Len(h.text)  m == Metadata(h)
           b == ContextBounds(t, at, at + l, ContextBudget)
           u == b.from  v == b.to
<1>1. at \in Nat /\ l \in Nat /\ l > 0 /\ at + l <= Len(t)
  BY PlacedAt
<1>2. t \in Text
  BY JoinedIs
<1>3. ContextBudget \in Nat
  BY AnswerAssumption
<1>4. x = [meta |-> m, at |-> at, length |-> l, from |-> u, to |-> v]
  BY DEF Around, ContextOf
<1>5. Bounded(b, at, at + l, Len(t), ContextBudget)
  <2> DEFINE e == at + l
  <2>1. at \in Nat /\ e \in Nat /\ at <= e /\ e <= Len(t)
            /\ b = ContextBounds(t, at, e, ContextBudget)
    BY <1>1
  <2> HIDE DEF at, l, e, b, t
  <2> QED BY <1>2, <1>3, <2>1, ContextBoundsIs DEF e
<1> HIDE DEF b, at, l, t, m, P
<1>6. x.meta = m /\ x.at = at /\ x.length = l /\ x.from = b.from /\ x.to = b.to
  BY <1>4
<1>7. Bounded(x, at, at + l, Len(t), ContextBudget)
  BY <1>5, <1>6 DEF Bounded
<1>8. x = [meta |-> x.meta, at |-> x.at, length |-> x.length, from |-> x.from, to |-> x.to]
  BY <1>4, <1>6
<1> QED BY <1>1, <1>6, <1>7, <1>8 DEF Surrounds, P, at, l, t, m

(* Narrowing a context to the hit.                                          *)
LEMMA OriginalIs ==
  ASSUME NEW S, NEW x \in [meta : S, at : Nat, length : Nat, from : Nat, to : Nat],
         NEW a, NEW b, NEW y, y = [x EXCEPT !.from = a, !.to = b]
  PROVE  y = [meta |-> x.meta, at |-> x.at, length |-> x.length, from |-> a, to |-> b]
OBVIOUS

(* The candidates of an accepted hit.                                       *)
IsContextOf(x, h) ==
  /\ IsCandidate(x) /\ IsCandidate(Original(x))
  /\ Original(x).meta.file = h.file
  /\ Original(x).from = Locate(PagesOfFile(h.file), h.text, h.spans)
  /\ Original(x).to = Locate(PagesOfFile(h.file), h.text, h.spans) + Len(h.text)

(* A hit that has a context is located in its file, inside the context.     *)
LEMMA ContextIs ==
  ASSUME IngestInv, AreLines(Pages), generation \in Nat, NEW h, IsPlaced(h, documents),
         NEW x, x = Context(h), x # None
  PROVE  IsContextOf(x, h) /\ PagesOfFile(h.file) \in Seq(Text)
<1>1. x = Around(h) /\ Stands(Metadata(h))
  BY DEF Context, IfAccepted, Accepted
<1> DEFINE m == Metadata(h)
<1>2. ~TwicePaged /\ Locate(PagesOfFile(m.file), m.textHash, m.spans) # None
  BY <1>1 DEF Stands, Evidence
<1>3. IsMetadata(m, h)
  BY <1>2, MetadataIs
<1>4. \E d \in ToSet(documents) : d.file = h.file
  BY DEF IsPlaced, SameSource
<1>5. PagesOfFile(h.file) \in Seq(Text)
  <2>1. PICK n : OneSource(h.file, n)
    BY <1>2, <1>4, OneSourceIs
  <2> QED BY <2>1 DEF OneSource
<1>6. Locate(PagesOfFile(h.file), h.text, h.spans) # None
  BY <1>2, <1>3 DEF IsMetadata
<1>7. Surrounds(x, h)
  BY <1>1, <1>5, <1>6, AroundIs DEF IsPlaced
<1> HIDE DEF m
<1> DEFINE at == x.at  l == x.length  n == Len(Joined(PagesOfFile(h.file)))
           u == x.from  v == x.to  end == at + l
<1>8. /\ x = [meta |-> m, at |-> at, length |-> l, from |-> u, to |-> v]
      /\ at \in Nat /\ l \in Nat /\ end <= n /\ u \in 0..at /\ v \in end..n
      /\ at = Locate(PagesOfFile(h.file), h.text, h.spans) /\ l = Len(h.text)
  BY <1>7 DEF Surrounds, Bounded, m
<1>9. n \in Nat
  <2>1. Joined(PagesOfFile(h.file)) \in Text
    BY <1>5, JoinedIs
  <2> QED BY <2>1 DEF Text
<1> DEFINE o == [meta |-> m, at |-> at, length |-> l, from |-> at, to |-> end]
<1>10. Original(x) = o
  <2>1. Original(x) = [x EXCEPT !.from = at, !.to = end]
    BY DEF Original
  <2> DEFINE S == {m}
  <2>2. x \in [meta : S, at : Nat, length : Nat, from : Nat, to : Nat]
    <3>1. m \in S /\ u \in Nat /\ v \in Nat
      <4> HIDE DEF at, l, u, v
      <4> QED BY <1>8, <1>9
    <3> HIDE DEF S, at, l, u, v, end
    <3> QED BY <1>8, <3>1
  <2> HIDE DEF S, end, m
  <2>3. /\ x.meta = m /\ x.at = at /\ x.length = l
    BY <1>8
  <2> HIDE DEF at, l
  <2> DEFINE y == Original(x)
  <2>4. y = [x EXCEPT !.from = at, !.to = end]
    BY <2>1
  <2> HIDE DEF y
  <2>5. y = [meta |-> x.meta, at |-> x.at, length |-> x.length, from |-> at, to |-> end]
    BY <2>2, <2>4, OriginalIs
  <2> QED BY <2>3, <2>5 DEF y
<1>11. u \in Nat /\ v \in Nat /\ v <= n /\ end \in Nat
  <2> HIDE DEF at, l, u, v, n
  <2> QED BY <1>8, <1>9
<1>12. m.file = h.file /\ m \in MetaSet /\ SourceIdentity(m) = IdentityOf(m.file)
  BY <1>3 DEF IsMetadata
<1> HIDE DEF at, l, u, v, end
<1>13. x.meta = m /\ x.at = at /\ x.length = l /\ x.from = u /\ x.to = v
  BY <1>8
<1>14. o.meta = m /\ o.at = at /\ o.length = l /\ o.from = at /\ o.to = end
  OBVIOUS
<1> HIDE DEF o, n
<1>15. PagesOfFile(m.file) \in Seq(Text) /\ Len(Joined(PagesOfFile(m.file))) = n
  BY <1>5, <1>12 DEF n
<1>16. IsCandidate(x)
  BY <1>8, <1>11, <1>12, <1>13, <1>15 DEF IsCandidate
<1>17. IsCandidate(o)
  BY <1>8, <1>11, <1>12, <1>14, <1>15 DEF IsCandidate
<1>18. o.from = Locate(PagesOfFile(h.file), h.text, h.spans)
       /\ o.to = Locate(PagesOfFile(h.file), h.text, h.spans) + Len(h.text)
  BY <1>8, <1>14 DEF end
<1> QED BY <1>5, <1>10, <1>12, <1>14, <1>16, <1>17, <1>18 DEF IsContextOf

(* The candidates of the hits of a question.                                *)
LEMMA CandidatesFinite ==
  ASSUME NEW cs, NEW N, AreCandidates(cs, N), NEW m \in 0..N
  PROVE  IsFiniteSet(InCandidates(cs, m))
<1>1. N \in Nat /\ \A n \in 1..N : IsCandidate(cs[n])
  BY DEF AreCandidates
<1> DEFINE T == {n \in Nat : n <= N => IsFiniteSet(InCandidates(cs, n))}
<1>2. 0 \in T
  <2>1. InCandidates(cs, 0) = {}
    BY CandidatesGrow
  <2> QED BY <2>1, FS_EmptySet
<1>3. ASSUME NEW n \in Nat, n \in T
      PROVE  n + 1 \in T
  <2> SUFFICES ASSUME n + 1 <= N PROVE IsFiniteSet(InCandidates(cs, n + 1))
    OBVIOUS
  <2> DEFINE c == cs[n + 1]  a == c.from  b == c.to  W == PlacesIn(c.meta.file, a, b)
  <2>1. n + 1 \in 1..N /\ IsFiniteSet(InCandidates(cs, n))
    BY <1>1, <1>3
  <2>2. a \in Nat /\ b \in Nat
    BY <1>1, <2>1 DEF IsCandidate
  <2>3. InCandidates(cs, n + 1) = InCandidates(cs, n) \cup W
    BY CandidatesGrow
  <2> HIDE DEF c, a, b
  <2>4. IsFiniteSet(W)
    <3>1. CASE a <= b
      BY <2>2, <3>1, PlacesCount
    <3>2. CASE ~(a <= b)
      <4>1. a..(b - 1) = {}
        BY <2>2, <3>2
      <4>2. W = {}
        BY <4>1 DEF PlacesIn
      <4> QED BY <4>2, FS_EmptySet
    <3> QED BY <3>1, <3>2
  <2> DEFINE V == InCandidates(cs, n)
  <2>5. IsFiniteSet(V) /\ InCandidates(cs, n + 1) = V \cup W
    BY <2>1, <2>3
  <2> HIDE DEF V, W
  <2>6. IsFiniteSet(V \cup W)
    BY <2>4, <2>5, FS_Union
  <2> QED BY <2>5, <2>6
<1> HIDE DEF T
<1>4. \A n \in Nat : n \in T
  BY <1>2, <1>3, NatSetInduction
<1>5. m \in Nat /\ m <= N /\ m \in T
  BY <1>1, <1>4
<1> QED BY <1>5 DEF T

(* The contexts of hits of which each is accepted.                          *)
AreContexts(contexts, hits, N) ==
  /\ N \in Nat /\ contexts = [i \in 1..N |-> contexts[i]]
  /\ \A i \in 1..N : IsContextOf(contexts[i], hits[i])

(* The places of the first N hits.                                          *)
HitPlaces(hits, N) ==
  UNION {PlacesIn(hits[k].file, Locate(PagesOfFile(hits[k].file), hits[k].text, hits[k].spans),
                  Locate(PagesOfFile(hits[k].file), hits[k].text, hits[k].spans)
                    + Len(hits[k].text)) : k \in 1..N}

(* The candidates of a list of contexts: first the hits, then what is       *)
(* around them.                                                             *)
LEMMA CandidatesAre ==
  ASSUME NEW contexts, NEW hits, NEW N, AreContexts(contexts, hits, N),
         NEW cs, cs = Candidates(contexts)
  PROVE  /\ AreCandidates(cs, N + N) /\ N \in 0..(N + N)
         /\ InCandidates(cs, N) = HitPlaces(hits, N)
<1>1. N \in Nat /\ contexts = [i \in 1..N |-> contexts[i]] /\ DOMAIN contexts = 1..N
      /\ \A i \in 1..N : IsContextOf(contexts[i], hits[i])
  BY DEF AreContexts
<1> DEFINE q == [i \in 1..N |-> Original(contexts[i])]
<1>2. q = [i \in 1..N |-> q[i]] /\ \A i \in 1..N : q[i] = Original(contexts[i])
  OBVIOUS
<1>3. cs = q \o contexts
  BY <1>1 DEF Candidates
<1> HIDE DEF q
<1>4. IsList(q) /\ Len(q) = N /\ IsList(contexts) /\ Len(contexts) = N
  BY <1>1, <1>2, MadeList
<1>5. Joins(cs, q, contexts)
  BY <1>3, <1>4, ConcatList
<1>6. /\ Len(cs) = N + N
      /\ \A i \in 1..N : cs[i] = q[i]
      /\ \A i \in 1..N : cs[N + i] = contexts[i]
  BY <1>4, <1>5 DEF Joins
<1>7. ASSUME NEW n \in 1..(N + N) PROVE IsCandidate(cs[n])
  <2>1. CASE n \in 1..N
    BY <1>1, <1>2, <1>6, <2>1 DEF IsContextOf
  <2>2. CASE ~(n \in 1..N)
    <3> DEFINE k == n - N
    <3>1. k \in 1..N /\ n = N + k
      BY <1>1, <2>2
    <3> HIDE DEF k
    <3>2. cs[n] = contexts[k]
      BY <1>6, <3>1
    <3> QED BY <1>1, <3>1, <3>2 DEF IsContextOf
  <2> QED BY <2>1, <2>2
<1>8. AreCandidates(cs, N + N)
  BY <1>1, <1>6, <1>7 DEF AreCandidates
<1>9. ASSUME NEW k \in 1..N
      PROVE  PlacesIn(cs[k].meta.file, cs[k].from, cs[k].to)
               = PlacesIn(hits[k].file,
                          Locate(PagesOfFile(hits[k].file), hits[k].text, hits[k].spans),
                          Locate(PagesOfFile(hits[k].file), hits[k].text, hits[k].spans)
                            + Len(hits[k].text))
  <2>1. cs[k] = Original(contexts[k])
    BY <1>2, <1>6
  <2>2. IsContextOf(contexts[k], hits[k])
    BY <1>1
  <2> QED BY <2>1, <2>2 DEF IsContextOf
<1>10. InCandidates(cs, N) = HitPlaces(hits, N)
  BY <1>9 DEF InCandidates, HitPlaces
<1> QED BY <1>1, <1>8, <1>10

(* What is selected: within the budget, no place twice, and all that is     *)
(* written in the hits when there is room for them.                         *)
SelectedFor(made, hits, N, budget) ==
  /\ WellMade(made, budget)
  /\ Cardinality(HitPlaces(hits, N)) <= budget =>
       \A p \in HitPlaces(hits, N) :
         WrittenAt(p[1], p[2]) => p \in TakenPlaces(made.evidence)

(* What is selected of the contexts holds the hits when they fit.           *)
LEMMA SelectedIs ==
  ASSUME NEW contexts, NEW hits, NEW N, AreContexts(contexts, hits, N), NEW budget \in Nat,
         NEW made, made = Selected(contexts, budget)
  PROVE  SelectedFor(made, hits, N, budget)
<1> DEFINE cs == Candidates(contexts)  M == N + N
<1>1. /\ AreCandidates(cs, M) /\ N \in 0..M /\ InCandidates(cs, N) = HitPlaces(hits, N)
  BY CandidatesAre
<1>2. made = AddCandidates(cs, budget)
  BY DEF Selected
<1> HIDE DEF cs, M
<1>3. WellMade(made, budget)
  <2>1. M \in Nat /\ 0 \in 0..M
    BY <1>1 DEF AreCandidates
  <2> DEFINE H == {}  m == 0
  <2>2. m \in 0..M /\ InCandidates(cs, m) \subseteq H
    BY <2>1, CandidatesGrow
  <2>3. Room(H, budget)
    BY FS_EmptySet DEF Room
  <2> HIDE DEF H, m
  <2>4. Takes(made, cs, m, budget)
    BY <1>1, <1>2, <2>2, <2>3, AddCandidatesIs
  <2> QED BY <2>4 DEF Takes
<1>4. ASSUME Cardinality(HitPlaces(hits, N)) <= budget
      PROVE  \A p \in HitPlaces(hits, N) :
               WrittenAt(p[1], p[2]) => p \in TakenPlaces(made.evidence)
  <2> DEFINE H == InCandidates(cs, N)
  <2>1. Room(H, budget)
    BY <1>1, <1>4, CandidatesFinite DEF Room
  <2>2. InCandidates(cs, N) \subseteq H
    OBVIOUS
  <2> HIDE DEF H
  <2>3. Takes(made, cs, N, budget)
    BY <1>1, <1>2, <2>1, <2>2, AddCandidatesIs
  <2> QED BY <1>1, <2>3 DEF Takes
<1> QED BY <1>3, <1>4 DEF SelectedFor

(* The packet a question gets.                                              *)
KeptFragments(q) == q \in Seq(FragmentSet)

(* PacketSound, of one packet.                                              *)
SoundPacket(p) ==
  LET taken == p.evidence
      hits == UNION {PlacesOfHit(p.pages, h) : h \in ToSet(p.hits)}
  IN /\ p.used = Len(FlattenSeq([i \in DOMAIN taken |-> taken[i].content]))
     /\ p.used <= p.budget
     /\ \A i, j \in DOMAIN taken : i # j => Places(taken[i]) \cap Places(taken[j]) = {}
     /\ Cardinality(hits) <= p.budget =>
          Written(p.pages, hits) \subseteq UNION {Places(e) : e \in ToSet(taken)}

(* The fields of a packet.                                                  *)
PacketFields(p) ==
  p = [hits |-> p.hits, budget |-> p.budget, used |-> p.used, evidence |-> p.evidence,
       sources |-> p.sources, checksum |-> p.checksum, pages |-> p.pages]

(* What a packet is when it is made.                                        *)
IsPacket(p) == PacketFields(p) /\ KeptFragments(p.evidence) /\ SoundPacket(p)

(* The places of the hits on the pages the packet keeps.                    *)
FoundHits(hits, N) ==
  /\ N \in Nat /\ DOMAIN hits = 1..N
  /\ \A k \in 1..N : /\ PagesOfFile(hits[k].file) \in Seq(Text) /\ IsChunk(hits[k])
                      /\ Locate(PagesOfFile(hits[k].file), hits[k].text, hits[k].spans) # None

(* The places that have text are among the places, and the text is the      *)
(* builder's.                                                               *)
AllWritten(pages, places) ==
  \A p \in Written(pages, places) : p \in places /\ WrittenAt(p[1], p[2])

(* The pages of the files hit, as a packet keeps them.                      *)
PagesKept(hits) == [f \in {h.file : h \in ToSet(hits)} |-> PagesOfFile(f)]

(* The places of the hits on those pages.                                   *)
PlacesKept(pages, hits) == UNION {PlacesOfHit(pages, h) : h \in ToSet(hits)}

(* The places of the hits, as PacketSound counts them.                      *)
LEMMA HitPlacesAre ==
  ASSUME NEW hits, NEW N, FoundHits(hits, N),
         NEW pages, pages = PagesKept(hits),
         NEW places, places = PlacesKept(pages, hits)
  PROVE  places = HitPlaces(hits, N) /\ AllWritten(pages, places)
<1> USE DEF PagesKept, PlacesKept
<1>0. /\ N \in Nat /\ DOMAIN hits = 1..N
      /\ \A k \in 1..N : /\ PagesOfFile(hits[k].file) \in Seq(Text) /\ IsChunk(hits[k])
                          /\ Locate(PagesOfFile(hits[k].file), hits[k].text, hits[k].spans) # None
  BY DEF FoundHits
<1>1. ToSet(hits) = {hits[k] : k \in 1..N}
  BY <1>0 DEF ToSet
<1> DEFINE at(h) == Locate(PagesOfFile(h.file), h.text, h.spans)
<1>2. ASSUME NEW h \in ToSet(hits)
      PROVE  PlacesOfHit(pages, h) = PlacesIn(h.file, at(h), at(h) + Len(h.text))
  <2>1. pages[h.file] = PagesOfFile(h.file)
    OBVIOUS
  <2>2. PICK k \in 1..N : h = hits[k]
    BY <1>1
  <2> DEFINE a == at(h)  l == Len(h.text)
  <2>3. a \in Nat /\ l \in Nat
    BY <1>0, <2>2, PlacedAt
  <2> HIDE DEF a, l
  <2>4. a..(a + l - 1) = a..((a + l) - 1)
    BY <2>3
  <2>5. PlacesOfHit(pages, h) = {<<h.file, i>> : i \in a..(a + l - 1)}
    BY <2>1 DEF PlacesOfHit, a, l
  <2> QED BY <2>4, <2>5 DEF PlacesIn, a, l
<1>3. places = HitPlaces(hits, N)
  <2>1. HitPlaces(hits, N)
          = UNION {PlacesIn(hits[k].file, at(hits[k]), at(hits[k]) + Len(hits[k].text)) :
              k \in 1..N}
    BY DEF HitPlaces
  <2> DEFINE W(h) == PlacesIn(h.file, at(h), at(h) + Len(h.text))
  <2>2. HitPlaces(hits, N) = UNION {W(hits[k]) : k \in 1..N}
    BY <2>1
  <2>3. \A h \in ToSet(hits) : PlacesOfHit(pages, h) = W(h)
    BY <1>2
  <2> HIDE DEF W, at
  <2>4. ASSUME NEW x PROVE x \in places <=> x \in HitPlaces(hits, N)
    <3>1. x \in places <=> \E h \in ToSet(hits) : x \in PlacesOfHit(pages, h)
      OBVIOUS
    <3>2. x \in HitPlaces(hits, N) <=> \E k \in 1..N : x \in W(hits[k])
      BY <2>2
    <3>3. ASSUME NEW h \in ToSet(hits), x \in PlacesOfHit(pages, h)
          PROVE  \E k \in 1..N : x \in W(hits[k])
      <4>1. PICK k \in 1..N : h = hits[k]
        BY <1>1
      <4> QED BY <2>3, <3>3, <4>1
    <3>4. ASSUME NEW k \in 1..N, x \in W(hits[k])
          PROVE  \E h \in ToSet(hits) : x \in PlacesOfHit(pages, h)
      <4>1. hits[k] \in ToSet(hits)
        BY <1>1
      <4> QED BY <2>3, <3>4, <4>1
    <3> QED BY <3>1, <3>2, <3>3, <3>4
  <2> QED BY <2>4
<1>4. ASSUME NEW p \in Written(pages, places)
      PROVE  p \in places /\ WrittenAt(p[1], p[2])
  <2>1. p \in places /\ ~(Joined(pages[p[1]])[p[2] + 1] \in Space)
    BY DEF Written
  <2>2. PICK h \in ToSet(hits) : p \in PlacesOfHit(pages, h)
    BY <2>1
  <2>3. p[1] = h.file
    <3> DEFINE a == Locate(pages[h.file], h.text, h.spans)  b == a + Len(h.text) - 1
    <3>1. PlacesOfHit(pages, h) = {<<h.file, i>> : i \in a..b}
      BY DEF PlacesOfHit
    <3> HIDE DEF a, b
    <3>2. PICK i \in a..b : p = <<h.file, i>>
      BY <2>2, <3>1
    <3> QED BY <3>2
  <2>4. pages[p[1]] = PagesOfFile(p[1])
    BY <2>3
  <2> QED BY <2>1, <2>4 DEF WrittenAt
<1> QED BY <1>3, <1>4 DEF AllWritten

(* A packet that is made is one.                                            *)
LEMMA PacketIs ==
  ASSUME IngestInv, AreLines(Pages), generation \in Nat,
         NEW hits, NEW N \in Nat, hits = [k \in 1..N |-> hits[k]],
         \A k \in 1..N : IsPlaced(hits[k], documents),
         NEW budget \in Nat, NEW p, p = Packet(hits, budget), p # None
  PROVE  IsPacket(p)
<1> DEFINE contexts == [i \in DOMAIN hits |-> Context(hits[i])]
           made == Selected(contexts, budget)
           pages == [f \in {h.file : h \in ToSet(hits)} |-> PagesOfFile(f)]
           places == UNION {PlacesOfHit(pages, h) : h \in ToSet(hits)}
<1>0. DOMAIN hits = 1..N
  OBVIOUS
<1>1. /\ \A i \in 1..N : contexts[i] # None
      /\ p = PacketOf(hits, budget, made)
  BY <1>0 DEF Packet, FromContexts
<1> DEFINE sources == EntrySources(made.evidence)
           sum == Sum(made.evidence, sources)
<1>2. p = [hits |-> hits, budget |-> budget, used |-> made.used, evidence |-> made.evidence,
           sources |-> sources, checksum |-> sum, pages |-> pages]
  BY <1>1 DEF PacketOf
<1> HIDE DEF sources, sum
<1>3. ASSUME NEW i \in 1..N
      PROVE  /\ IsContextOf(contexts[i], hits[i])
             /\ PagesOfFile(hits[i].file) \in Seq(Text) /\ IsChunk(hits[i])
             /\ Locate(PagesOfFile(hits[i].file), hits[i].text, hits[i].spans) # None
  <2> DEFINE h == hits[i]  x == contexts[i]
  <2>1. IsPlaced(h, documents) /\ x = Context(h) /\ x # None
    BY <1>0, <1>1
  <2> HIDE DEF h, x
  <2>2. IsContextOf(x, h) /\ PagesOfFile(h.file) \in Seq(Text)
    BY <2>1, ContextIs
  <2>3. IsChunk(h)
    BY <2>1 DEF IsPlaced
  <2>4. IsCandidate(Original(x)) /\ Original(x).from = Locate(PagesOfFile(h.file), h.text, h.spans)
    BY <2>2 DEF IsContextOf
  <2>5. Locate(PagesOfFile(h.file), h.text, h.spans) # None
    BY <2>4, NoneAssumption DEF IsCandidate
  <2> QED BY <2>2, <2>3, <2>5 DEF h, x
<1>4. contexts = [i \in 1..N |-> contexts[i]]
  BY <1>0
<1>5. AreContexts(contexts, hits, N)
  <2> HIDE DEF contexts
  <2> QED BY <1>3, <1>4 DEF AreContexts
<1>6. SelectedFor(made, hits, N, budget)
  <2> HIDE DEF contexts
  <2> DEFINE m == made
  <2>1. m = Selected(contexts, budget)
    OBVIOUS
  <2> HIDE DEF m
  <2>2. SelectedFor(m, hits, N, budget)
    BY <1>5, <2>1, SelectedIs
  <2> QED BY <2>2 DEF m
<1> HIDE DEF contexts
<1>7. places = HitPlaces(hits, N) /\ AllWritten(pages, places)
  <2> DEFINE P == pages  L == places
  <2>1. P = PagesKept(hits) /\ L = PlacesKept(P, hits)
    BY DEF PagesKept, PlacesKept
  <2> HIDE DEF P, L, made
  <2>2. FoundHits(hits, N)
    BY <1>0, <1>3 DEF FoundHits
  <2>3. L = HitPlaces(hits, N) /\ AllWritten(P, L)
    BY <2>1, <2>2, HitPlacesAre
  <2> QED BY <2>3 DEF P, L
<1> HIDE DEF made, pages
<1> DEFINE ev == made.evidence
<1>8. p.hits = hits /\ p.budget = budget /\ p.used = made.used /\ p.evidence = ev
      /\ p.sources = sources /\ p.checksum = sum /\ p.pages = pages
  BY <1>2, SMTT(30)
<1>9. PacketFields(p)
  BY <1>2, <1>8 DEF PacketFields
<1>10. WellMade(made, budget)
  BY <1>6 DEF SelectedFor
<1>11. KeptFragments(p.evidence)
  BY <1>8, <1>10 DEF KeptFragments, WellMade, MadeSet
<1>12. SoundPacket(p)
  <2>1. p.used = Len(TextOf(p.evidence)) /\ p.used <= p.budget /\ Apart(p.evidence)
    BY <1>8, <1>10 DEF WellMade, Counted
  <2>2. UNION {PlacesOfHit(p.pages, h) : h \in ToSet(p.hits)} = places
    BY <1>8
  <2> HIDE DEF places, ev
  <2>3. ASSUME Cardinality(places) <= p.budget
        PROVE  Written(p.pages, places) \subseteq TakenPlaces(p.evidence)
    <3>1. \A q \in places : WrittenAt(q[1], q[2]) => q \in TakenPlaces(made.evidence)
      BY <1>6, <1>7, <1>8, <2>3 DEF SelectedFor
    <3> QED BY <1>7, <1>8, <3>1 DEF ev, AllWritten
  <2> QED BY <2>1, <2>2, <2>3 DEF SoundPacket, TextOf, Apart, TakenPlaces
<1> QED BY <1>9, <1>11, <1>12 DEF IsPacket

(***************************************************************************)
(* The reader's checks on its own generation                               *)
(***************************************************************************)

(* Undamaged pages of a plan without a repeated attachment.                 *)
LEMMA NoPageTwice ==
  ASSUME IngestInv, AreLines(Pages), ~Repeats(documents)
  PROVE  ~TwicePaged
<1> SUFFICES ASSUME NEW p \in Pages, NEW q \in Pages, p # q, p.file = q.file, p.page = q.page
             PROVE  FALSE
  BY DEF TwicePaged
<1>1. DOMAIN documents = 1..Len(documents)
  BY DocumentsAre
<1>2. PICK n \in 1..Len(documents) : \E k \in 1..Len(documents[n].pages) : IsLine(p, n, k)
  BY DEF AreLines
<1>3. PICK k \in 1..Len(documents[n].pages) : IsLine(p, n, k)
  BY <1>2
<1>4. PICK m \in 1..Len(documents) : \E l \in 1..Len(documents[m].pages) : IsLine(q, m, l)
  BY DEF AreLines
<1>5. PICK l \in 1..Len(documents[m].pages) : IsLine(q, m, l)
  BY <1>4
<1>6. p.line = <<n, k>> /\ p.file = documents[n].file /\ p.page = k
  BY <1>3, LineIs
<1>7. q.line = <<m, l>> /\ q.file = documents[m].file /\ q.page = l
  BY <1>5, LineIs
<1>8. n = m
  BY <1>1, <1>6, <1>7 DEF Repeats
<1>9. p.line = q.line
  BY <1>6, <1>7, <1>8
<1> QED BY <1>9 DEF AreLines

(* The reader's pages of a file are the build's when nothing is damaged.    *)
LEMMA UndamagedPages ==
  ASSUME IngestInv, Undamaged(Pages), NEW n \in 1..Len(documents),
         NEW P, ReadsLines(P, n)
  PROVE  P = documents[n].pages
<1> DEFINE D == documents[n].pages
<1>1. D \in Seq(Text)
  BY DocumentsAre
<1>2. P \in Seq(Text) /\ Len(P) = Len(D)
  BY DEF ReadsLines
<1>3. \A k \in 1..Len(P) : \E r \in Pages : IsLine(r, n, k) /\ P[k] = r.text
  BY DEF ReadsLines
<1>4. ASSUME NEW k \in 1..Len(P) PROVE P[k] = D[k]
  <2>1. PICK r \in Pages : IsLine(r, n, k) /\ P[k] = r.text
    BY <1>3
  <2>2. r.textHash = D[k]
    BY <2>1, LineIs
  <2> QED BY <2>1, <2>2 DEF Undamaged
<1> HIDE DEF D
<1>5. P = D
  BY <1>1, <1>2, <1>4
<1> QED BY <1>5 DEF D

(* A stretch of an undamaged source is evidence.                            *)
Stretch(m, D, a, b) ==
  /\ m.textHash = Slice(Joined(D), a, b) /\ m.spans = Spans(D, a, b) /\ m.spans # <<>>

(* The reader's check of one span passes on the document's own page.        *)
LEMMA PageAgreesThere ==
  ASSUME IngestInv, AreLines(Pages), Undamaged(Pages), NEW f, NEW n, OneSource(f, n),
         NEW m, m.file = f, SourceIdentity(m) = IdentityOf(f),
         NEW s, s.page \in 1..Len(documents[n].pages),
         s.hash = documents[n].pages[s.page], s.from \in Nat, s.to \in Int, s.from < s.to,
         s.to <= Len(documents[n].pages[s.page])
  PROVE  PageAgrees(m, s)
<1> DEFINE k == s.page
<1>1. n \in 1..Len(documents) /\ documents[n].file = f /\ DocumentOf(f) = documents[n]
  BY DEF OneSource
<1>2. PICK p \in Pages : p.line = <<n, k>>
  BY <1>1 DEF AreLines
<1>3. PICK i \in 1..Len(documents) : \E j \in 1..Len(documents[i].pages) : IsLine(p, i, j)
  BY DEF AreLines
<1>4. PICK j \in 1..Len(documents[i].pages) : IsLine(p, i, j)
  BY <1>3
<1>5. p.line = <<i, j>>
  BY <1>4, LineIs
<1>6. i = n /\ j = k
  BY <1>2, <1>5, SamePlace
<1>7. /\ p.file = documents[n].file /\ p.paper = documents[n].paper
      /\ p.hash = documents[n].hash /\ p.main = SourceOf(documents[n].file).main
      /\ p.page = k /\ p.textHash = documents[n].pages[k]
  BY <1>4, <1>6, LineIs
<1>8. p.text = p.textHash
  BY DEF Undamaged
<1>9. m.paper = documents[n].paper /\ m.hash = documents[n].hash /\ m.main = SourceOf(f).main
  BY <1>1 DEF SourceIdentity, IdentityOf
<1>10. p.paper = m.paper /\ p.hash = m.hash /\ p.main = m.main /\ p.file = m.file
  BY <1>1, <1>7, <1>9
<1>11. /\ p.text = p.textHash /\ p.textHash = s.hash /\ p.page = s.page
       /\ 0 <= s.from /\ s.from < s.to /\ s.to <= Len(p.text)
  BY <1>7, <1>8
<1> QED BY <1>10, <1>11 DEF PageAgrees

(* The reader's check of the metadata of a stretch passes.                  *)
LEMMA StretchStands ==
  ASSUME IngestInv, AreLines(Pages), Undamaged(Pages), ~TwicePaged,
         NEW f, NEW n, OneSource(f, n),
         NEW m, m.file = f, SourceIdentity(m) = IdentityOf(f),
         NEW a \in Nat, NEW b \in Nat, a <= b, b <= Len(Joined(documents[n].pages)),
         Stretch(m, documents[n].pages, a, b)
  PROVE  Stands(m)
<1> DEFINE D == documents[n].pages  t == m.textHash  sp == m.spans
<1>1. n \in 1..Len(documents) /\ ReadsLines(PagesOfFile(f), n)
  BY DEF OneSource
<1>2. D \in Seq(Text) /\ PagesOfFile(f) = D
  BY <1>1, DocumentsAre, UndamagedPages
<1>3. t = Slice(Joined(D), a, b) /\ sp = Spans(D, a, b) /\ sp # <<>>
  BY DEF Stretch
<1> HIDE DEF D, t, sp
<1>4. Locate(D, t, sp) # None
  <2>1. b <= Len(Joined(D))
    BY DEF D
  <2> QED BY <1>2, <1>3, <2>1, LocateFinds
<1>5. ASSUME NEW s \in ToSet(sp) PROVE PageAgrees(m, s)
  <2>1. sp \in Seq(SpanSet)
    BY <1>2, <1>3, SpansTyped
  <2>2. IsList(sp)
    BY <2>1, InList
  <2>3. PICK i \in 1..Len(sp) : s = sp[i]
    BY <2>2, ListIs
  <2>4. /\ s.page \in 1..Len(D) /\ s = Overlap(D, s.page, a, b) /\ NonEmpty(s)
    BY <1>2, <1>3, <2>3, SpanIs
  <2> DEFINE k == s.page  S == PageStart(D, k)  l == Len(D[k])
  <2>5. /\ s.hash = D[k] /\ s.from \in Nat /\ s.to \in Int
        /\ s.to = (IF b <= S + l THEN b ELSE S + l) - S
        /\ s.from < s.to
    BY <1>2, <2>4, OverlapIs, SMTT(30)
  <2>6. S \in Int /\ l \in Nat
    <3>1. k \in 1..(Len(D) + 1) /\ D[k] \in Text
      BY <1>2, <2>4
    <3> QED BY <1>2, <3>1, PageStartIs DEF Text
  <2> HIDE DEF S, l
  <2>7. s.to <= l
    BY <2>5, <2>6
  <2> QED BY <2>4, <2>5, <2>7, PageAgreesThere DEF D, l
<1>6. m.generation = generation
  BY DEF SourceIdentity, IdentityOf
<1>7. m.spans # <<>> /\ \A s \in ToSet(m.spans) : PageAgrees(m, s)
  BY <1>3, <1>5 DEF sp
<1>8. Locate(PagesOfFile(m.file), m.textHash, m.spans) # None
  BY <1>2, <1>4 DEF t, sp
<1> QED BY <1>6, <1>7, <1>8 DEF Stands, Evidence

(* A longer stretch meets the pages a shorter one meets.                    *)
LEMMA LongerMeets ==
  ASSUME NEW D \in Seq(Text), NEW a \in Int, NEW b \in Int, NEW u \in Int, NEW v \in Int,
         u <= a, b <= v, Spans(D, a, b) # <<>>
  PROVE  Spans(D, u, v) # <<>>
<1> DEFINE q == Spans(D, a, b)  r == Spans(D, u, v)
<1>1. q \in Seq(SpanSet) /\ r \in Seq(SpanSet)
  BY SpansTyped
<1>2. Len(q) \in Nat /\ Len(q) # 0
  BY <1>1
<1>3. 1 \in 1..Len(q)
  BY <1>2
<1> DEFINE s == q[1]  k == s.page
<1>4. k \in 1..Len(D) /\ s = Overlap(D, k, a, b) /\ NonEmpty(s)
  BY <1>3, SpanIs
<1> HIDE DEF q, s, k
<1> DEFINE o == Overlap(D, k, u, v)  S == PageStart(D, k)  l == Len(D[k])
<1>5. /\ s.from = (IF a >= S THEN a ELSE S) - S
      /\ s.to = (IF b <= S + l THEN b ELSE S + l) - S
      /\ s.from < s.to
  BY <1>4, OverlapIs
<1>6. /\ o.from = (IF u >= S THEN u ELSE S) - S
      /\ o.to = (IF v <= S + l THEN v ELSE S + l) - S
      /\ (NonEmpty(o) <=> o.from < o.to)
  BY <1>4, OverlapIs
<1>7. S \in Int /\ l \in Nat
  <2>1. k \in 1..(Len(D) + 1) /\ D[k] \in Text
    BY <1>4
  <2> QED BY <2>1, PageStartIs DEF Text
<1> HIDE DEF o, S, l
<1>8. o.from < o.to
  BY <1>5, <1>6, <1>7
<1>9. NonEmpty(o)
  BY <1>6, <1>8
<1>10. \E i \in 1..Len(Spans(D, u, v)) : Spans(D, u, v)[i] = Overlap(D, k, u, v)
  BY <1>4, <1>9, SpanThere DEF o
<1>11. Len(r) # 0
  BY <1>1, <1>10
<1> QED BY <1>1, <1>11

(* Every chunk of a plan that passed the builder's checks is accepted, with *)
(* a context that holds it and is no longer than the budget allows.         *)
LEMMA AcceptedIs ==
  ASSUME IngestInv, AreLines(Pages), Undamaged(Pages), ~Repeats(documents),
         generation \in Nat, NEW h, IsPlaced(h, documents), Located(h)
  PROVE  Holds(Around(h), Joined(DocumentOf(h.file).pages), h)
<1> DEFINE f == h.file  m == Metadata(h)  x == Around(h)  P == PagesOfFile(f)
           at == x.at  l == x.length  u == x.from  v == x.to
           t == Joined(P)  end == at + l
<1>1. ~TwicePaged
  BY NoPageTwice
<1>2. \E d \in ToSet(documents) : d.file = f
  BY DEF IsPlaced, SameSource
<1>3. PICK n : OneSource(f, n)
  BY <1>1, <1>2, OneSourceIs
<1>4. n \in 1..Len(documents) /\ DocumentOf(f) = documents[n] /\ P \in Seq(Text)
  BY <1>3 DEF OneSource
<1>5. P = documents[n].pages
  BY <1>3, <1>4, UndamagedPages DEF OneSource
<1>6. Locate(P, h.text, h.spans) # None
  BY <1>4, <1>5 DEF Located
<1>7. IsMetadata(m, h)
  BY <1>1, MetadataIs
<1>8. IsChunk(h) /\ h.spans # <<>>
  BY DEF IsPlaced
<1>9. Surrounds(x, h)
  BY <1>4, <1>6, <1>8, AroundIs
<1>10. StandsAt(P, h, at, end)
  <2>1. at = Locate(P, h.text, h.spans) /\ l = Len(h.text)
    BY <1>9 DEF Surrounds
  <2> QED BY <1>4, <1>6, <1>8, <2>1, PlacedAt
<1>11. /\ at \in Nat /\ l \in Nat /\ l > 0 /\ end <= Len(t) /\ x.meta = m
       /\ Bounded(x, at, end, Len(t), ContextBudget)
  BY <1>9 DEF Surrounds
<1>12. t \in Text /\ Len(t) \in Nat
  BY <1>4, JoinedIs DEF Text
<1> HIDE DEF P, t, at, l
<1>13. end \in Nat /\ at <= end
  BY <1>11
<1>14. u \in 0..at /\ v \in end..Len(t) /\ (v - u <= ContextBudget \/ v - u <= end - at)
  BY <1>11 DEF Bounded
<1>15. u \in Nat /\ v \in Nat /\ u <= at /\ end <= v /\ v <= Len(t) /\ u <= v /\ at <= end
  BY <1>11, <1>12, <1>13, <1>14
<1>16. Stands(m)
  <2>1. m.file = f /\ SourceIdentity(m) = IdentityOf(f)
    BY <1>7 DEF IsMetadata
  <2>2. m.textHash = Slice(Joined(P), at, end) /\ m.spans = Spans(P, at, end) /\ m.spans # <<>>
    BY <1>7, <1>8, <1>10 DEF IsMetadata, StandsAt
  <2> HIDE DEF m, end
  <2>3. Stretch(m, P, at, end)
    BY <2>2 DEF Stretch
  <2> QED BY <1>1, <1>3, <1>5, <1>11, <1>13, <2>1, <2>3, StretchStands DEF t
<1>17. Stands(PieceMetadata(m, u, v))
  <2> DEFINE w == PieceMetadata(m, u, v)
  <2>1. m \in MetaSet /\ m.file = f /\ SourceIdentity(m) = IdentityOf(f)
    BY <1>7 DEF IsMetadata
  <2> HIDE DEF m, u, v, f
  <2>2. PartOf(w, m, u, v)
    <3>1. w = PieceMetadata(m, u, v) /\ PagesOfFile(m.file) \in Seq(Text)
          /\ v <= Len(Joined(PagesOfFile(m.file)))
      BY <1>4, <1>15, <2>1 DEF P, t
    <3> HIDE DEF w
    <3> QED BY <1>15, <2>1, <3>1, PieceMetadataIs
  <2> HIDE DEF w
  <2>3. w.file = f /\ SourceIdentity(w) = IdentityOf(f)
        /\ w.textHash = Slice(Joined(P), u, v) /\ w.spans = Spans(P, u, v)
    BY <2>1, <2>2 DEF PartOf, P
  <2>4. w.spans # <<>>
    <3>1. Spans(P, at, end) # <<>>
      BY <1>8, <1>10 DEF StandsAt
    <3> HIDE DEF end
    <3>2. Spans(P, u, v) # <<>>
      BY <1>4, <1>11, <1>13, <1>15, <3>1, LongerMeets
    <3> QED BY <2>3, <3>2
  <2>5. Stretch(w, P, u, v)
    BY <2>3, <2>4 DEF Stretch
  <2>6. Stands(w)
    BY <1>1, <1>3, <1>5, <1>15, <2>3, <2>5, StretchStands DEF t
  <2> QED BY <2>6 DEF w
<1>18. Accepted(h, x)
  BY <1>11, <1>16, <1>17 DEF Accepted
<1>19. Slice(t, at, end) = h.text
  BY <1>10 DEF StandsAt, t
<1>20. v - u <= Max({ContextBudget, l})
  <2> DEFINE M == Max({ContextBudget, l})
  <2>1. ContextBudget \in Int /\ l \in Int /\ M = Max({ContextBudget, l})
    BY <1>11, AnswerAssumption
  <2> HIDE DEF M, u, v
  <2>2. M = IF ContextBudget >= l THEN ContextBudget ELSE l
    BY <2>1, MaxOfTwo
  <2>3. v - u <= ContextBudget \/ v - u <= l
    BY <1>11, <1>14
  <2>4. v - u <= M
    BY <1>15, <2>1, <2>2, <2>3
  <2> QED BY <2>4 DEF M
<1> QED BY <1>4, <1>5, <1>15, <1>18, <1>19, <1>20 DEF Holds, t, at, l

(***************************************************************************)
(* The invariant of the server, and the theorems                           *)
(***************************************************************************)

(* The pages that may be stored or loaded.                                  *)
Kept(R) == AreLines(R) /\ (faults = 0 => Undamaged(R))

(* What a quotation of a checked answer is bound to.                        *)
BoundTo(b) ==
  /\ StandsIn(DocumentOf(b[1].meta.file).pages, b[1].content, b[1].meta.spans)
  /\ b[1].content \in Text /\ DocumentOf(b[1].meta.file).pages \in Seq(Text)
  /\ b[1].meta.generation = generation
  /\ Within(b[2], b[1].content) /\ ~Blank(b[2])

(* A generation is served only after a build was published.                 *)
Serving ==
  /\ generation \in Nat \cup {None} /\ faults \in Nat
  /\ generation # None => pc = "published"

(* The page file has the lines of the build.                                *)
StoredKept == pc \in {"write", "failed", "published"} => Kept(stored)

(* The lines that the server has read are lines of the build.               *)
BookKept == book # None => generation # None /\ Kept(book)

(* The packet's fragments are of the build; its sums hold until it is       *)
(* edited.                                                                  *)
PacketKept ==
  packet # None =>
    /\ generation # None /\ PacketFields(packet) /\ KeptFragments(packet.evidence)
    /\ ~edited => SoundPacket(packet)

(* The sources of a packet say what the documents say.                      *)
SourcesTrue(p) ==
  \A i \in DOMAIN p.evidence :
    p.sources[i]
      = ProofFrom(p.evidence[i].meta, DocumentOf(p.evidence[i].meta.file).pages)

(* The bindings of a verdict are bound to the documents, and so are the     *)
(* sources of a packet that passed.                                         *)
VerdictKept ==
  verdict # None =>
    /\ packet # None /\ \A b \in verdict.bindings : BoundTo(b)
    /\ verdict.outcome = "passed" => SourcesTrue(packet)

(* The inductive invariant of the server.                                   *)
ServerInv == IngestInv /\ Serving /\ StoredKept /\ BookKept /\ PacketKept /\ VerdictKept

(* The invariant holds initially.                                           *)
LEMMA InitServerGood ==
  InitServer => ServerInv
<1> SUFFICES ASSUME InitServer PROVE ServerInv
  OBVIOUS
<1>1. IngestInv
  BY InitGood DEF InitServer
<1>2. /\ generation = None /\ book = None /\ packet = None /\ verdict = None /\ faults = 0
      /\ pc = "discover"
  BY DEF InitServer, Init
<1> QED BY <1>1, <1>2 DEF ServerInv, Serving, StoredKept, BookKept, PacketKept, VerdictKept

(* Nothing that is kept depends on more than the plan and the generation.   *)
LEMMA KeptStays ==
  ASSUME UNCHANGED <<inventory, documents>>, NEW R, Kept(R), faults = 0 \/ faults' # 0
  PROVE  /\ stored' = R => Kept(stored)'
         /\ book' = R => Kept(book)'
<1>1. ASSUME NEW f PROVE SourceOf(f)' = SourceOf(f)
  BY DEF SourceOf, LastOf
<1>2. ASSUME NEW r, NEW n, NEW k, IsLine(r, n, k) PROVE IsLine(r, n, k)'
  BY <1>1, <1>2 DEF IsLine
<1>3. ASSUME stored' = R PROVE Kept(stored)'
  <2>1. AreLines(stored)'
    BY <1>2, <1>3 DEF Kept, AreLines
  <2>2. (faults = 0 => Undamaged(stored))'
    BY <1>3 DEF Kept, Undamaged
  <2> QED BY <2>1, <2>2 DEF Kept
<1>4. ASSUME book' = R PROVE Kept(book)'
  <2>1. AreLines(book)'
    BY <1>2, <1>4 DEF Kept, AreLines
  <2>2. (faults = 0 => Undamaged(book))'
    BY <1>4 DEF Kept, Undamaged
  <2> QED BY <2>1, <2>2 DEF Kept
<1> QED BY <1>3, <1>4

(* The lines stay lines while the documents stay.                           *)
LEMMA LinesStay ==
  ASSUME UNCHANGED <<inventory, documents>>, NEW R, AreLines(R), stored' = R
  PROVE  AreLines(stored)'
<1>1. ASSUME NEW f PROVE SourceOf(f)' = SourceOf(f)
  BY DEF SourceOf, LastOf
<1>2. ASSUME NEW r, NEW n, NEW k, IsLine(r, n, k) PROVE IsLine(r, n, k)'
  BY <1>1, <1>2 DEF IsLine
<1> QED BY <1>2 DEF AreLines

(* The fragments stay fragments while the documents stay.                   *)
LEMMA FragmentsStay ==
  ASSUME UNCHANGED <<inventory, documents>>
  PROVE  FragmentSet' = FragmentSet
<1> QED BY DEF FragmentSet, MetaSet, SourceOf, LastOf

(* A binding stays bound while the documents and the generation stay.       *)
LEMMA BoundStays ==
  ASSUME UNCHANGED <<documents, generation>>, NEW b, BoundTo(b)
  PROVE  BoundTo(b)'
<1> QED BY DEF BoundTo, DocumentOf, LastOf

(* So do the sources of a packet.                                           *)
LEMMA SourcesStay ==
  ASSUME UNCHANGED <<documents, packet>>, SourcesTrue(packet)
  PROVE  SourcesTrue(packet)'
<1> QED BY DEF SourcesTrue, ProofFrom, DocumentOf, LastOf

(* A build step: the server has not started.                                *)
LEMMA NextEnds ==
  ASSUME Next
  PROVE  /\ pc # "published"
         /\ pc' \in {"write", "failed", "published"} =>
              /\ UNCHANGED <<inventory, documents>>
              /\ stored' = PageRecords \/ (pc = "write" /\ stored' = stored)
<1>1. CASE DiscoverSources
  BY <1>1 DEF DiscoverSources, Stop, Goto
<1>2. CASE Identify
  BY <1>2 DEF Identify, Failed, Recorded, Proceed, Goto
<1>3. CASE HashSource
  BY <1>3 DEF HashSource, Failed, Recorded, Proceed, Goto
<1>4. CASE CompareOriginal
  BY <1>4 DEF CompareOriginal, Failed, Recorded, Proceed, Goto
<1>5. CASE Rehash
  BY <1>5 DEF Rehash, ExtractionFails, Failed, Recorded, Proceed, Goto
<1>6. CASE Extract
  BY <1>6 DEF Extract, TakeDocument, Take, ExtractionFails, Failed, Recorded, Goto
<1>7. CASE CheckPublishable
  BY <1>7 DEF CheckPublishable, Goto
<1>8. CASE SplitChunks
  <2>1. pc = "split" /\ (pc' = "stopped" \/ pc' = "validate")
    BY <1>8, Zenon DEF SplitChunks, Stop, Goto
  <2> QED BY <2>1
<1>9. CASE Validate
  BY <1>9 DEF Validate, Stop, Goto
<1>10. CASE WriteBatch
  BY <1>10 DEF WriteBatch, Goto
<1>11. CASE CheckCollection
  BY <1>11 DEF CheckCollection, Goto
<1>12. CASE \E path \in corpus.changing, bytes \in corpus.bytes : Change(path, bytes)
  BY <1>12 DEF Change
<1> QED BY <1>1, <1>2, <1>3, <1>4, <1>5, <1>6, <1>7, <1>8, <1>9, <1>10, <1>11, <1>12
     DEF Next, Build

(* A step of the build keeps the invariant.                                 *)
LEMMA BuildKeeps ==
  ASSUME ServerInv, Next, UNCHANGED <<generation, book, packet, verdict, edited, faults>>
  PROVE  ServerInv'
<1>1. IngestInv'
  BY NextKeeps DEF ServerInv
<1>2. generation = None /\ book = None /\ packet = None /\ verdict = None /\ faults \in Nat
  BY NextEnds DEF ServerInv, Serving, BookKept, PacketKept, VerdictKept
<1>3. StoredKept'
  <2> SUFFICES ASSUME pc' \in {"write", "failed", "published"} PROVE Kept(stored)'
    BY DEF StoredKept
  <2>1. UNCHANGED <<inventory, documents>>
    BY NextEnds
  <2>2. CASE stored' = PageRecords
    <3>1. Kept(PageRecords)
      BY RecordsAreLines DEF Kept, ServerInv
    <3> QED BY <2>1, <2>2, <3>1, <1>2, KeptStays
  <2>3. CASE pc = "write" /\ stored' = stored
    <3>1. Kept(stored)
      BY <2>3 DEF ServerInv, StoredKept
    <3> QED BY <2>1, <2>3, <3>1, <1>2, KeptStays
  <2> QED BY <2>2, <2>3, NextEnds
<1> QED BY <1>1, <1>2, <1>3 DEF ServerInv, Serving, BookKept, PacketKept, VerdictKept

(* A packet that was returned is one with the fields and facts above.       *)
LEMMA PacketReturned ==
  ASSUME UNCHANGED <<inventory, documents>>, NEW p, p # None, generation' # None,
         PacketFields(p), KeptFragments(p.evidence), edited' \/ SoundPacket(p), packet' = p
  PROVE  PacketKept'
<1>1. PacketFields(packet)'
  BY DEF PacketFields
<1>2. KeptFragments(packet.evidence)'
  BY FragmentsStay DEF KeptFragments
<1>3. SoundPacket(p) => SoundPacket(packet)'
  BY DEF SoundPacket
<1> QED BY <1>1, <1>2, <1>3 DEF PacketKept

(* The packet keeps while the documents stay.                               *)
LEMMA PacketStays ==
  ASSUME PacketKept, UNCHANGED <<inventory, documents, packet, edited>>, generation' # None
  PROVE  PacketKept'
<1>1. CASE packet = None
  BY <1>1 DEF PacketKept
<1>2. CASE packet # None
  <2> DEFINE p == packet
  <2>1. p # None /\ packet' = p /\ PacketFields(p) /\ KeptFragments(p.evidence)
        /\ (edited' \/ SoundPacket(p))
    BY <1>2 DEF PacketKept
  <2> HIDE DEF p
  <2> QED BY <2>1, PacketReturned
<1> QED BY <1>1, <1>2

(* A step of the server keeps the invariant of the build.                   *)
LEMMA UnseenByBuild ==
  ASSUME ServerInv,
         UNCHANGED <<corpus, disk, pc, todo, hash, inventory, documents, chunks, collection, torn>>
  PROVE  IngestInv'
<1> QED BY UnseenKeeps DEF ServerInv

(* Starting the server keeps the invariant.                                 *)
LEMMA StartKeeps ==
  ASSUME ServerInv, StartServer
  PROVE  ServerInv'
<1>1. /\ UNCHANGED <<corpus, disk, pc, todo, hash, inventory, documents, chunks, collection, torn>>
      /\ UNCHANGED <<stored, book, packet, verdict, edited, faults>>
      /\ pc = "published" /\ generation = None /\ generation' = 1
  BY DEF StartServer, ingest
<1>2. IngestInv'
  BY <1>1, UnseenByBuild
<1>3. book = None /\ packet = None /\ verdict = None /\ faults \in Nat
  BY <1>1 DEF ServerInv, Serving, BookKept, PacketKept, VerdictKept
<1>4. Kept(stored)'
  <2>1. Kept(stored)
    BY <1>1 DEF ServerInv, StoredKept
  <2> QED BY <1>1, <2>1, KeptStays
<1>5. 1 # None
  BY NoneAssumption
<1> QED BY <1>1, <1>2, <1>3, <1>4, <1>5
     DEF ServerInv, Serving, StoredKept, BookKept, PacketKept, VerdictKept

(* What a server that has started reads.                                    *)
LEMMA PagesAreKept ==
  ASSUME ServerInv, generation # None
  PROVE  /\ Kept(Pages) /\ pc = "published" /\ generation \in Nat
         /\ ToSet(collection) = ToSet(chunks) /\ AreSplit(documents, chunks) /\ Valid
<1>1. pc = "published" /\ generation \in Nat
  BY DEF ServerInv, Serving
<1>2. Kept(stored) /\ (book # None => Kept(book))
  BY <1>1 DEF ServerInv, StoredKept, BookKept
<1>3. Kept(Pages)
  BY <1>2 DEF Pages
<1>4. ToSet(collection) = ToSet(chunks) /\ AreSplit(documents, chunks) /\ Valid
  BY <1>1 DEF ServerInv, IngestInv, Split
<1> QED BY <1>1, <1>3, <1>4

(* Preparing an answer keeps it.                                            *)
LEMMA PrepareKeeps ==
  ASSUME ServerInv, NEW hits \in Hits, NEW budget \in Budgets, PrepareAnswer(hits, budget)
  PROVE  ServerInv'
<1>1. /\ UNCHANGED <<corpus, disk, pc, todo, hash, inventory, documents, chunks, collection, torn>>
      /\ UNCHANGED <<stored, generation, verdict, edited, faults>>
      /\ generation # None /\ packet = None
      /\ book' = book \/ book' = Loaded
      /\ packet' = Packet(hits, budget)
  BY DEF PrepareAnswer, ingest
<1>2. IngestInv'
  BY <1>1, UnseenByBuild
<1>3. /\ Kept(Pages) /\ pc = "published" /\ generation \in Nat
      /\ ToSet(collection) = ToSet(chunks) /\ AreSplit(documents, chunks)
  BY <1>1, PagesAreKept
<1>4. Serving' /\ VerdictKept'
  <2>1. verdict = None
    BY <1>1 DEF ServerInv, VerdictKept
  <2> QED BY <1>1, <2>1 DEF ServerInv, Serving, VerdictKept
<1>5. StoredKept'
  <2>1. Kept(stored)
    BY <1>3 DEF ServerInv, StoredKept
  <2> QED BY <1>1, <2>1, KeptStays DEF StoredKept
<1>6. BookKept'
  <2>1. CASE book' = None
    BY <2>1 DEF BookKept
  <2>2. CASE book' # None
    <3>1. Kept(Pages) /\ (book' = Pages \/ (book' = book /\ Kept(book)))
      BY <1>1, <1>3, <2>2 DEF Loaded, ServerInv, BookKept
    <3>2. Kept(book)'
      BY <1>1, <3>1, KeptStays
    <3> QED BY <1>1, <3>2 DEF BookKept
  <2> QED BY <2>1, <2>2
<1>7. PacketKept'
  <2>1. CASE packet' = None
    BY <2>1 DEF PacketKept
  <2>2. CASE packet' # None
    <3> DEFINE p == Packet(hits, budget)
    <3>1. PICK n \in 0..MaxHits : hits \in [1..n -> ToSet(collection)]
      BY DEF Hits
    <3>2. n \in Nat /\ hits = [k \in 1..n |-> hits[k]]
      BY <3>1, AnswerAssumption
    <3>3. \A k \in 1..n : IsPlaced(hits[k], documents)
      BY <1>3, <3>1 DEF AreSplit
    <3>4. budget \in Nat
      BY AnswerAssumption
    <3>5. p # None /\ p = Packet(hits, budget) /\ packet' = p
      BY <1>1, <2>2
    <3> HIDE DEF p
    <3>6. IsPacket(p)
      BY <1>3, <3>2, <3>3, <3>4, <3>5, PacketIs DEF Kept, ServerInv
    <3> QED BY <1>1, <3>5, <3>6, PacketReturned DEF IsPacket
  <2> QED BY <2>1, <2>2
<1> QED BY <1>2, <1>4, <1>5, <1>6, <1>7 DEF ServerInv

(* A document of the plan has pages of text.                                *)
LEMMA DocumentPages ==
  ASSUME IngestInv, NEW f, \E d \in ToSet(documents) : d.file = f
  PROVE  DocumentOf(f).pages \in Seq(Text)
<1>1. IsList(documents) /\ AreTaken(documents, corpus, torn)
  BY DEF IngestInv, PlanMade
<1>2. PICK m \in 1..Len(documents) : LastOf(documents, f) = documents[m]
  BY <1>1, DocumentOfIs
<1>3. documents[m] \in ToSet(documents)
  BY <1>1, ListIs
<1>4. IsDocument(documents[m])
  BY <1>1, <1>3, TakenIs
<1> QED BY <1>2, <1>4 DEF IsDocument, DocumentOf

(* Evidence that was checked is bound to the text of the build.             *)
LEMMA FragmentBound ==
  ASSUME IngestInv, AreLines(Pages), NEW e \in FragmentSet, Evidence(e.meta, e.content),
         NEW q, ~Blank(q), Within(q, e.content), NEW b, b = <<e, q>>
  PROVE  BoundTo(b)
<1>1. e.content \in Text /\ e.meta \in MetaSet
  BY DEF FragmentSet
<1>2. e.meta.spans \in Seq(SpanSet) /\ e.meta.file \in {d.file : d \in ToSet(documents)}
  BY <1>1 DEF MetaSet
<1>3. StandsIn(DocumentOf(e.meta.file).pages, e.content, e.meta.spans)
      /\ e.meta.generation = generation
  BY <1>1, <1>2, EvidenceStands
<1>4. DocumentOf(e.meta.file).pages \in Seq(Text)
  BY <1>2, DocumentPages
<1>5. b[1] = e /\ b[2] = q
  OBVIOUS
<1> QED BY <1>1, <1>3, <1>4, <1>5 DEF BoundTo

(* The fragment with an identifier is the only one.                         *)
LEMMA OneFound ==
  ASSUME NEW ev, IsList(ev), ~(\E i, j \in DOMAIN ev : i # j /\ ev[i].id = ev[j].id),
         NEW d \in ToSet(ev), NEW e \in ToSet(ev), d.id = e.id
  PROVE  d = e
<1>1. PICK i \in 1..Len(ev) : d = ev[i]
  BY ListIs
<1>2. PICK j \in 1..Len(ev) : e = ev[j]
  BY ListIs
<1>3. i \in DOMAIN ev /\ j \in DOMAIN ev
  BY ListIs
<1> QED BY <1>1, <1>2, <1>3

(* The bindings of fragments that passed the reader's check are bound.      *)
LEMMA BindingsBound ==
  ASSUME IngestInv, AreLines(Pages), NEW ev, KeptFragments(ev),
         ~(\E i, j \in DOMAIN ev : i # j /\ ev[i].id = ev[j].id),
         ~(\E e \in ToSet(ev) : ~Evidence(e.meta, e.content)),
         NEW claims, NEW b \in Bindings(ev, claims)
  PROVE  BoundTo(b)
<1>1. IsList(ev) /\ ToSet(ev) \subseteq FragmentSet
  BY InList DEF KeptFragments
<1>2. PICK c : Supports(ev, c) /\ \E e \in Found(ev, c) : b = <<e, QuoteOf(e, c)>>
  BY DEF Bindings
<1>3. PICK e \in Found(ev, c) : b = <<e, QuoteOf(e, c)>>
  BY <1>2
<1>4. PICK d \in Found(ev, c) : ~Blank(QuoteOf(d, c)) /\ Within(QuoteOf(d, c), d.content)
  BY <1>2 DEF Supports
<1>5. d \in ToSet(ev) /\ e \in ToSet(ev) /\ d.id = e.id
  BY DEF Found
<1>6. d = e
  BY <1>1, <1>5, OneFound
<1>7. e \in FragmentSet /\ Evidence(e.meta, e.content)
  BY <1>1, <1>5
<1> QED BY <1>3, <1>4, <1>6, <1>7, FragmentBound

(* The bindings of a verdict are bound.                                     *)
LEMMA CheckedBound ==
  ASSUME IngestInv, AreLines(Pages), NEW p, KeptFragments(p.evidence), NEW answer,
         NEW v, v = Checked(p, answer), NEW b \in v.bindings
  PROVE  BoundTo(b)
<1> DEFINE ev == p.evidence
<1>1. /\ v.bindings = Bindings(ev, answer.claims)
      /\ ~(\E i, j \in DOMAIN ev : i # j /\ ev[i].id = ev[j].id)
      /\ ~(\E e \in ToSet(ev) : ~Evidence(e.meta, e.content))
  BY Zenon DEF Checked
<1> QED BY <1>1, BindingsBound

(* The proof of a fragment that the reader accepts is what the documents    *)
(* say.                                                                     *)
LEMMA ProofIsTrue ==
  ASSUME IngestInv, AreLines(Pages), NEW meta, meta.spans \in Seq(SpanSet), NEW t,
         Evidence(meta, t)
  PROVE  ProofOf(meta) = ProofFrom(meta, DocumentOf(meta.file).pages)
<1> DEFINE spans == meta.spans
           P == PagesOfFile(meta.file)
           D == DocumentOf(meta.file).pages
<1>1. ~TwicePaged /\ \A s \in ToSet(spans) : PageAgrees(meta, s)
  BY DEF Evidence
<1>2. PICK n \in 1..Len(documents) : documents[n].file = meta.file
  BY EvidenceAbout
<1>3. ReadsLines(P, n)
  BY <1>1, <1>2, PagesOfFileIs
<1>4. D = documents[n].pages
  <2>1. \E d \in ToSet(documents) : d.file = meta.file
    BY <1>2, DocumentsAre
  <2>2. PICK m \in 1..Len(documents) : LastOf(documents, meta.file) = documents[m]
                                       /\ documents[m].file = meta.file
    BY <2>1, DocumentOfIs DEF IngestInv, PlanMade
  <2>3. m = n
    BY <1>1, <1>2, <2>2, OneDocument
  <2> QED BY <2>2, <2>3 DEF DocumentOf
<1>5. ASSUME NEW k \in DOMAIN spans PROVE P[spans[k].page] = D[spans[k].page]
  <2> DEFINE s == spans[k]
  <2>1. s \in ToSet(spans)
    BY DEF ToSet
  <2>2. PageAgrees(meta, s)
    BY <1>1, <2>1
  <2> HIDE DEF s, P, D
  <2>3. /\ s.page \in 1..Len(documents[n].pages)
        /\ \A r \in Pages : IsLine(r, n, s.page) => r.text = documents[n].pages[s.page]
    BY <1>1, <1>2, <2>2, AgreesIs
  <2>4. \E r \in Pages : IsLine(r, n, s.page) /\ P[s.page] = r.text
    BY <1>3, <2>3 DEF ReadsLines
  <2>5. P[s.page] = D[s.page]
    BY <1>4, <2>3, <2>4
  <2> QED BY <2>5 DEF s
<1> HIDE DEF P, D
<1>6. Segments(spans, P) = Segments(spans, D)
  BY <1>5 DEF Segments
<1> QED BY <1>6 DEF ProofOf, ProofFrom, P, D

(* The sources of a packet that passes are true.                            *)
LEMMA CheckedSources ==
  ASSUME IngestInv, AreLines(Pages), NEW p, KeptFragments(p.evidence), NEW answer,
         NEW v, v = Checked(p, answer), v.outcome = "passed"
  PROVE  SourcesTrue(p)
<1> DEFINE ev == p.evidence
<1>1. /\ ~(\E e \in ToSet(ev) : ~Evidence(e.meta, e.content))
      /\ ~(\E i \in DOMAIN ev : ProofOf(ev[i].meta) # p.sources[i])
  BY DEF Checked
<1> HIDE DEF ev
<1>2. ASSUME NEW i \in DOMAIN ev
      PROVE  p.sources[i] = ProofFrom(ev[i].meta, DocumentOf(ev[i].meta.file).pages)
  <2> DEFINE m == ev[i].meta
  <2>1. ev[i] \in FragmentSet /\ ev[i] \in ToSet(ev)
    BY DEF KeptFragments, ToSet, ev
  <2>2. m.spans \in Seq(SpanSet)
    BY <2>1 DEF FragmentSet, MetaSet
  <2>3. Evidence(m, ev[i].content) /\ ProofOf(m) = p.sources[i]
    BY <1>1, <2>1
  <2> HIDE DEF m
  <2>4. p.sources[i] = ProofFrom(m, DocumentOf(m.file).pages)
    BY <2>2, <2>3, ProofIsTrue
  <2> QED BY <2>4 DEF m
<1> QED BY <1>2 DEF SourcesTrue, ev

(* Checking an answer keeps the invariant.                                  *)
LEMMA CheckKeeps ==
  ASSUME ServerInv, NEW answer, CheckAnswer(answer)
  PROVE  ServerInv'
<1>1. /\ UNCHANGED <<corpus, disk, pc, todo, hash, inventory, documents, chunks, collection, torn>>
      /\ UNCHANGED <<stored, generation, packet, edited, faults>>
      /\ packet # None /\ verdict = None
      /\ book' = book \/ book' = Loaded
      /\ verdict' = Checked(packet, answer)
  BY DEF CheckAnswer, ingest
<1>2. IngestInv'
  BY <1>1, UnseenByBuild
<1>3. generation # None /\ PacketFields(packet) /\ KeptFragments(packet.evidence)
      /\ (edited \/ SoundPacket(packet))
  BY <1>1 DEF ServerInv, PacketKept
<1>4. Kept(Pages) /\ pc = "published" /\ generation \in Nat
  BY <1>3, PagesAreKept
<1>5. Serving' /\ PacketKept'
  <2> DEFINE p == packet
  <2>1. p # None /\ packet' = p /\ generation' # None /\ PacketFields(p)
        /\ KeptFragments(p.evidence) /\ (edited' \/ SoundPacket(p))
    BY <1>1, <1>3
  <2> HIDE DEF p
  <2>2. PacketKept'
    BY <1>1, <2>1, PacketReturned
  <2> QED BY <1>1, <2>2 DEF ServerInv, Serving
<1>6. StoredKept'
  <2>1. Kept(stored)
    BY <1>4 DEF ServerInv, StoredKept
  <2> QED BY <1>1, <2>1, KeptStays DEF StoredKept
<1>7. BookKept'
  <2>1. CASE book' = None
    BY <2>1 DEF BookKept
  <2>2. CASE book' # None
    <3>1. Kept(Pages) /\ (book' = Pages \/ (book' = book /\ Kept(book)))
      BY <1>1, <1>4, <2>2 DEF Loaded, ServerInv, BookKept
    <3>2. Kept(book)'
      BY <1>1, <3>1, KeptStays
    <3> QED BY <1>1, <1>3, <3>2 DEF BookKept
  <2> QED BY <2>1, <2>2
<1>8. VerdictKept'
  <2> DEFINE v == Checked(packet, answer)
  <2>1. v = Checked(packet, answer) /\ verdict' = v
    BY <1>1
  <2> HIDE DEF v
  <2>2. ASSUME NEW b \in v.bindings PROVE BoundTo(b)'
    <3>1. BoundTo(b)
      BY <1>3, <1>4, <2>1, CheckedBound DEF Kept, ServerInv
    <3> QED BY <1>1, <3>1, BoundStays
  <2>3. ASSUME v.outcome = "passed" PROVE SourcesTrue(packet)'
    <3>1. SourcesTrue(packet)
      BY <1>3, <1>4, <2>1, <2>3, CheckedSources DEF Kept, ServerInv
    <3> QED BY <1>1, <3>1, SourcesStay
  <2> QED BY <1>1, <2>1, <2>2, <2>3 DEF VerdictKept
<1> QED BY <1>2, <1>5, <1>6, <1>7, <1>8 DEF ServerInv

(* Damage to the page file keeps it.                                        *)
LEMMA DamageKeeps ==
  ASSUME ServerInv, DamagePage
  PROVE  ServerInv'
<1>1. /\ UNCHANGED <<corpus, disk, pc, todo, hash, inventory, documents, chunks, collection, torn>>
      /\ UNCHANGED <<generation, book, packet, verdict, edited>>
      /\ generation # None /\ verdict = None /\ faults' = faults + 1
  BY DEF DamagePage, Fault
<1>2. IngestInv'
  BY <1>1, UnseenByBuild
<1>3. faults \in Nat /\ faults' \in Nat /\ faults' # 0
  BY <1>1 DEF ServerInv, Serving
<1>4. Kept(stored)
  BY <1>1, PagesAreKept DEF ServerInv, StoredKept
<1>5. Kept(stored)'
  <2>1. PICK p \in stored :
          stored' = (stored \ {p}) \cup {[p EXCEPT !.text = Append(p.text, "x")]}
    BY DEF DamagePage
  <2> DEFINE S == (stored \ {p}) \cup {[p EXCEPT !.text = Append(p.text, "x")]}
  <2>2. S = (stored \ {p}) \cup {[p EXCEPT !.text = Append(p.text, "x")]} /\ stored' = S
    BY <2>1
  <2> HIDE DEF S
  <2>3. AreLines(S)
    BY <1>4, <2>2, DamagedAreLines DEF Kept, ServerInv
  <2>4. AreLines(stored)'
    BY <1>1, <2>2, <2>3, LinesStay
  <2> QED BY <1>3, <2>4 DEF Kept
<1>6. BookKept'
  <2>1. ASSUME book # None PROVE Kept(book)'
    <3>1. Kept(book)
      BY <2>1 DEF ServerInv, BookKept
    <3> QED BY <1>1, <1>3, <3>1, KeptStays
  <2> QED BY <1>1, <2>1 DEF BookKept
<1>7. PacketKept'
  BY <1>1, PacketStays DEF ServerInv
<1> QED BY <1>1, <1>2, <1>3, <1>5, <1>6, <1>7 DEF ServerInv, Serving, StoredKept, VerdictKept

(* Moving on to another generation keeps it.                                *)
LEMMA MoveOnKeeps ==
  ASSUME ServerInv, MoveOn
  PROVE  ServerInv'
<1>1. /\ UNCHANGED <<corpus, disk, pc, todo, hash, inventory, documents, chunks, collection, torn>>
      /\ UNCHANGED <<packet, verdict, edited>>
      /\ generation # None /\ verdict = None /\ faults' = faults + 1
      /\ generation' = generation + 1 /\ stored' = PageRecords /\ book' = None
  BY DEF MoveOn, Fault
<1>2. IngestInv'
  BY <1>1, UnseenByBuild
<1>3. /\ faults \in Nat /\ faults' \in Nat /\ faults' # 0
      /\ generation' \in Nat /\ generation' # None /\ pc = "published"
  BY <1>1, NoneAssumption DEF ServerInv, Serving
<1>4. Kept(stored)'
  <2>1. Kept(PageRecords)
    BY RecordsAreLines DEF Kept, ServerInv
  <2> QED BY <1>1, <1>3, <2>1, KeptStays
<1>5. PacketKept'
  BY <1>1, <1>3, PacketStays DEF ServerInv
<1> QED BY <1>1, <1>2, <1>3, <1>4, <1>5
        DEF ServerInv, Serving, StoredKept, BookKept, VerdictKept

(* A fragment with a longer text is a fragment still.                       *)
LEMMA LongerFragment ==
  ASSUME NEW e \in FragmentSet, NEW y, y = Longer(e)
  PROVE  y \in FragmentSet
<1> DEFINE z == "z"
<1>0. z \in Characters
  BY DEF Characters
<1> HIDE DEF z
<1> DEFINE t == Append(e.content, z)  n == [e.meta EXCEPT !.textHash = t]
<1>1. e.content \in Text /\ t \in Text
  BY <1>0 DEF FragmentSet, Text
<1>2. y = [e EXCEPT !.content = t, !.meta = n]
  BY DEF Longer, z
<1>3. n \in MetaSet
  BY <1>1 DEF FragmentSet, MetaSet
<1> HIDE DEF t, n
<1> QED BY <1>1, <1>2, <1>3 DEF FragmentSet

(* A fragment was replaced or added.                                        *)
ChangedTo(q, ev, i, y) ==
  i \in DOMAIN ev /\ y \in FragmentSet /\ q \in {ev, [ev EXCEPT ![i] = y], Append(ev, y)}

(* Changing one field of a fragment leaves kept fragments.                  *)
LEMMA ChangeKept ==
  ASSUME NEW ev, KeptFragments(ev), NEW i, NEW y, NEW q, ChangedTo(q, ev, i, y)
  PROVE  KeptFragments(q)
<1> DEFINE S == FragmentSet
<1>1. ev \in Seq(S) /\ y \in S
  BY DEF KeptFragments, ChangedTo
<1>2. i \in DOMAIN ev /\ q \in {ev, [ev EXCEPT ![i] = y], Append(ev, y)}
  BY DEF ChangedTo
<1> HIDE DEF S
<1>3. q \in Seq(S)
  BY <1>1, <1>2
<1> QED BY <1>3 DEF S, KeptFragments

(* Editing the packet keeps the invariant.                                  *)
LEMMA ChangePacketKeeps ==
  ASSUME ServerInv, ChangePacket
  PROVE  ServerInv'
<1>1. /\ UNCHANGED <<corpus, disk, pc, todo, hash, inventory, documents, chunks, collection, torn>>
      /\ UNCHANGED <<stored, generation, book, verdict>>
      /\ packet # None /\ verdict = None /\ faults' = faults + 1 /\ edited' = TRUE
  BY DEF ChangePacket, Fault
<1>2. IngestInv'
  BY <1>1, UnseenByBuild
<1>3. generation # None /\ PacketFields(packet) /\ KeptFragments(packet.evidence)
  BY <1>1 DEF ServerInv, PacketKept
<1>4. faults \in Nat /\ faults' \in Nat /\ faults' # 0 /\ pc = "published"
  BY <1>1, <1>3 DEF ServerInv, Serving
<1>5. StoredKept' /\ BookKept'
  <2>1. Kept(stored)
    BY <1>4 DEF ServerInv, StoredKept
  <2>2. ASSUME book # None PROVE Kept(book)'
    <3>1. Kept(book)
      BY <2>2 DEF ServerInv, BookKept
    <3> QED BY <1>1, <1>4, <3>1, KeptStays
  <2> QED BY <1>1, <1>3, <1>4, <2>1, <2>2, KeptStays DEF StoredKept, BookKept
<1>6. PacketKept'
  <2> DEFINE ev == packet.evidence
  <2>9. PICK i \in DOMAIN ev : \E resum \in BOOLEAN : \E new \in Changes(packet, i) :
          packet' = [packet EXCEPT !.evidence = new[1], !.sources = new[2],
                                   !.checksum = IF resum THEN Sum(new[1], new[2]) ELSE @]
    BY DEF ChangePacket
  <2>1. PICK resum \in BOOLEAN, new \in Changes(packet, i) :
          packet' = [packet EXCEPT !.evidence = new[1], !.sources = new[2],
                                   !.checksum = IF resum THEN Sum(new[1], new[2]) ELSE @]
    BY <2>9
  <2> DEFINE q == new[1]  sources == new[2]
             sum == IF resum THEN Sum(q, sources) ELSE packet.checksum
  <2>2. q \in {ev, [ev EXCEPT ![i] = Longer(ev[i])], Append(ev, Longer(ev[i]))}
    BY DEF Changes
  <2>8. packet' = [packet EXCEPT !.evidence = q, !.sources = sources, !.checksum = sum]
    BY <2>1
  <2> HIDE DEF q, sources, sum
  <2>3. ev[i] \in FragmentSet
    BY <1>3 DEF KeptFragments
  <2>4. Longer(ev[i]) \in FragmentSet
    BY <2>3, LongerFragment
  <2>5. KeptFragments(q)
    <3> DEFINE y == Longer(ev[i])
    <3>1. ChangedTo(q, ev, i, y)
      BY <2>2, <2>4 DEF ChangedTo
    <3>2. KeptFragments(ev)
      BY <1>3
    <3> HIDE DEF y, ev
    <3> QED BY <3>1, <3>2, ChangeKept
  <2>6. PacketFields(packet)' /\ packet'.evidence = q
    BY <1>3, <2>8 DEF PacketFields
  <2>7. KeptFragments(packet.evidence)'
    BY <1>1, <2>5, <2>6, FragmentsStay DEF KeptFragments
  <2> QED BY <1>1, <1>3, <2>6, <2>7 DEF PacketKept
<1> QED BY <1>1, <1>2, <1>4, <1>5, <1>6 DEF ServerInv, Serving, VerdictKept

(* A stuttering step keeps it.                                              *)
LEMMA UnseenServer ==
  ASSUME ServerInv, UNCHANGED vars
  PROVE  ServerInv'
<1>1. /\ UNCHANGED <<corpus, disk, pc, todo, hash, inventory, documents, chunks, collection, torn>>
      /\ UNCHANGED <<stored, generation, book, packet, verdict, edited, faults>>
  BY DEF vars, ingest
<1>2. IngestInv'
  BY <1>1, UnseenByBuild
<1>3. Serving'
  BY <1>1 DEF ServerInv, Serving
<1>4. StoredKept'
  <2>1. ASSUME Kept(stored) PROVE Kept(stored)'
    BY <1>1, <2>1, KeptStays
  <2> QED BY <1>1, <2>1 DEF ServerInv, StoredKept
<1>5. BookKept'
  <2>1. ASSUME Kept(book) PROVE Kept(book)'
    BY <1>1, <2>1, KeptStays
  <2> QED BY <1>1, <2>1 DEF ServerInv, BookKept
<1>6. PacketKept'
  <2>1. CASE packet = None
    BY <1>1, <2>1 DEF PacketKept
  <2>2. CASE packet # None
    BY <1>1, <2>2, PacketStays DEF ServerInv, PacketKept
  <2> QED BY <2>1, <2>2
<1>7. VerdictKept'
  <2>1. ASSUME NEW b, BoundTo(b) PROVE BoundTo(b)'
    BY <1>1, <2>1, BoundStays
  <2>2. SourcesTrue(packet) => SourcesTrue(packet)'
    BY <1>1, SourcesStay
  <2> QED BY <1>1, <2>1, <2>2 DEF ServerInv, VerdictKept
<1> QED BY <1>2, <1>3, <1>4, <1>5, <1>6, <1>7 DEF ServerInv

(* Every step of the build, the server, the client and the disk keeps the   *)
(* inductive invariant.                                                     *)
LEMMA ServerKeeps ==
  ASSUME ServerInv, [NextServer]_vars
  PROVE  ServerInv'
<1>1. CASE Next /\ UNCHANGED <<generation, book, packet, verdict, edited, faults>>
  BY <1>1, BuildKeeps
<1>2. CASE Serve
  <2>1. CASE StartServer
    BY <2>1, StartKeeps
  <2>2. CASE \E hits \in Hits, budget \in Budgets : PrepareAnswer(hits, budget)
    BY <2>2, PrepareKeeps, Zenon
  <2>3. CASE \E answer \in (IF corpus.asked THEN Answers ELSE {}) : CheckAnswer(answer)
    BY <2>3, CheckKeeps, Zenon
  <2> QED BY <1>2, <2>1, <2>2, <2>3 DEF Serve
<1>3. CASE DamagePage
  BY <1>3, DamageKeeps
<1>4. CASE MoveOn
  BY <1>4, MoveOnKeeps
<1>5. CASE ChangePacket
  BY <1>5, ChangePacketKeeps
<1>6. CASE UNCHANGED vars
  BY <1>6, UnseenServer
<1> QED BY <1>1, <1>2, <1>3, <1>4, <1>5, <1>6 DEF NextServer

(* The inductive invariant holds in every state of a server.                *)
THEOREM ServerInvariant ==
  SpecServer => []ServerInv
<1>1. InitServer => ServerInv
  BY InitServerGood
<1>2. ServerInv /\ [NextServer]_vars => ServerInv'
  BY ServerKeeps
<1> QED BY <1>1, <1>2, PTL DEF SpecServer

(* A packet as it was returned is within its budget, holds no character     *)
(* twice, and holds its hits when they fit.                                 *)
THEOREM PacketIsSound ==
  SpecServer => []PacketSound
<1>1. ServerInv => PacketSound
  BY DEF ServerInv, PacketKept, SoundPacket, PacketSound
<1> QED BY <1>1, ServerInvariant, PTL

(* An accepted answer quotes the documents, from the invariant.             *)
LEMMA VerbatimHolds ==
  ASSUME ServerInv
  PROVE  AnswerVerbatim
<1>1. ASSUME verdict # None, NEW b \in verdict.bindings,
             NEW pages, pages = DocumentOf(b[1].meta.file).pages,
             NEW t, t = b[1].content
      PROVE  /\ Within(b[2], t)
             /\ \E i \in 0..(Len(Joined(pages)) - Len(t)) :
                  /\ Slice(Joined(pages), i, i + Len(t)) = t
                  /\ Spans(pages, i, i + Len(t)) = b[1].meta.spans
             /\ ~Blank(b[2])
             /\ b[1].meta.generation = generation
  <2>1. BoundTo(b)
    BY <1>1 DEF ServerInv, VerdictKept
  <2>2. /\ StandsIn(pages, t, b[1].meta.spans) /\ t \in Text /\ pages \in Seq(Text)
        /\ b[1].meta.generation = generation /\ Within(b[2], t) /\ ~Blank(b[2])
    BY <1>1, <2>1 DEF BoundTo
  <2>3. PICK i \in Nat : /\ i + Len(t) <= Len(Joined(pages))
                         /\ Slice(Joined(pages), i, i + Len(t)) = t
                         /\ Spans(pages, i, i + Len(t)) = b[1].meta.spans
    BY <2>2 DEF StandsIn
  <2>4. i \in 0..(Len(Joined(pages)) - Len(t))
    <3> DEFINE n == Len(Joined(pages))  m == Len(t)
    <3>1. n \in Nat /\ m \in Nat /\ i + m <= n
      BY <2>2, <2>3, JoinedIs DEF Text
    <3> HIDE DEF n, m
    <3>2. i \in 0..(n - m)
      BY <3>1
    <3> QED BY <3>2 DEF n, m
  <2> QED BY <2>2, <2>3, <2>4
<1>2. verdict # None /\ verdict.outcome = "passed" => SourcesTrue(packet)
  BY DEF ServerInv, VerdictKept
<1>3. verdict # None =>
        \A b \in verdict.bindings :
          LET pages == DocumentOf(b[1].meta.file).pages
          IN /\ Within(b[2], b[1].content)
             /\ \E i \in 0..(Len(Joined(pages)) - Len(b[1].content)) :
                  /\ Slice(Joined(pages), i, i + Len(b[1].content)) = b[1].content
                  /\ Spans(pages, i, i + Len(b[1].content)) = b[1].meta.spans
             /\ ~Blank(b[2])
  BY <1>1, Zenon
<1>4. verdict # None => \A b \in verdict.bindings : b[1].meta.generation = generation
  BY <1>1, Zenon
<1> QED BY <1>2, <1>3, <1>4, Zenon DEF AnswerVerbatim, SourcesTrue

(* An answer that passed is bound, verbatim and at the named spans, to the  *)
(* text the pinned generation was built from, and its sources say what that *)
(* text says.                                                               *)
THEOREM AnswerIsVerbatim ==
  SpecServer => []AnswerVerbatim
<1>1. ServerInv => AnswerVerbatim
  BY VerbatimHolds
<1> QED BY <1>1, ServerInvariant, PTL

(* The reader accepts what it prepared, from the invariant.                 *)
LEMMA AcceptsHolds ==
  ASSUME Telling, ServerInv
  PROVE  ReaderAccepts
<1> SUFFICES ASSUME generation # None, faults = 0, torn = {}, NEW c \in ToSet(collection)
             PROVE  Holds(Around(c), Joined(DocumentOf(c.file).pages), c)
  BY DEF ReaderAccepts
<1>1. /\ Kept(Pages) /\ pc = "published" /\ generation \in Nat
      /\ ToSet(collection) = ToSet(chunks) /\ AreSplit(documents, chunks) /\ Valid
  BY PagesAreKept
<1>2. AreLines(Pages) /\ Undamaged(Pages)
  BY <1>1 DEF Kept
<1>3. ~Repeats(documents)
  <2>1. DistinctIn(chunks)
    BY <1>1 DEF Valid, DistinctIds, DistinctIn
  <2> QED BY <1>1, <2>1 DEF ServerInv, IngestInv, Split
<1>4. IsPlaced(c, documents) /\ Located(c)
  BY <1>1 DEF AreSplit, Valid
<1> QED BY <1>1, <1>2, <1>3, <1>4, AcceptedIs DEF ServerInv

(* Where two different files of a library are told apart by a chunk, every  *)
(* chunk of a published generation is accepted by its reader.               *)
THEOREM ReaderIsAccepting ==
  ASSUME Telling
  PROVE  SpecServer => []ReaderAccepts
<1>1. ServerInv => ReaderAccepts
  BY AcceptsHolds
<1> QED BY <1>1, ServerInvariant, PTL

=============================================================================
