------------------------- MODULE EmbeddingSessionProofs -------------------------
(***************************************************************************)
(* For any number of sessions, batches, model weights, pulls and changes   *)
(* of aliases: vectors come from the weights of the contract, a receipt     *)
(* names the alias its session left, and so does the exception of a copy   *)
(* whose outcome is unknown.                                               *)
(***************************************************************************)
EXTENDS EmbeddingSession, TLAPS

Tags == Builds \cup {Source}
Weights == Digests \cup {None}
Labels == {"idle", "entering", "copying", "verifying", "ready", "asking", "posting", "replied",
           "finishing", "finishing alias", "cleaning", "deleting", "closed", "failed",
           "sealed"}
Replies == [weights : Digests, kind : {"valid", "numeric", "malformed"}]

(* The types of what the proofs below update: a label or a flag per        *)
(* session, and what the daemon and the session have written down.         *)
TypeInv ==
  /\ tags \in [Tags -> Weights]
  /\ pc \in [Builds -> Labels]
  /\ expected \in [Builds -> Weights]
  /\ reply = [b \in Builds |-> reply[b]] /\ recorded = [b \in Builds |-> recorded[b]]
  /\ copied \in [Builds -> BOOLEAN] /\ named \in [Builds -> BOOLEAN]
  /\ warned \in [Builds -> BOOLEAN] /\ cut \in [Builds -> BOOLEAN]
  /\ failed \in [Builds -> BOOLEAN] /\ receipt \in [Builds -> BOOLEAN]
  /\ changed \in [Builds -> Nat]

(* A reply that is being checked was computed by other weights than the    *)
(* contract's only if the alias was changed after it was looked at, and    *)
(* then it still is changed unless it was changed twice.                   *)
FreshInv(b) ==
  /\ recorded[b] \in Seq(Digests)
  /\ pc[b] \in {"idle", "entering", "copying", "verifying"} => recorded[b] = <<>>
  /\ pc[b] = "posting" /\ changed[b] = 0 => tags[b] = expected[b]
  /\ pc[b] = "replied" =>
       /\ reply[b] \in Replies
       /\ changed[b] = 0 => reply[b].weights = expected[b]
       /\ changed[b] <= 1 /\ reply[b].weights # expected[b] => tags[b] # expected[b]

VectorsInv(b) ==
  changed[b] <= 1 => \A n \in 1 .. Len(recorded[b]) : recorded[b][n] = expected[b]

(* An alias that exists is known to be the session's, or named by an       *)
(* exception on its way out; until it is copied there is none.  A session  *)
(* that closed and left it has warned of it, for its build to write down.  *)
AliasInv(b) ==
  /\ pc[b] \in {"idle", "entering", "copying"} => tags[b] = None
  /\ named[b] => failed[b]
  /\ pc[b] \in {"closed", "sealed"} => ~failed[b]
  /\ pc[b] = "deleting" => copied[b]
  /\ tags[b] # None /\ ~cut[b] =>
       /\ copied[b] \/ named[b]
       /\ pc[b] = "closed" => warned[b]
       /\ pc[b] = "sealed" => receipt[b]

SessionInv(b) == FreshInv(b) /\ VectorsInv(b) /\ AliasInv(b)

IInv == TypeInv /\ \A b \in Builds : SessionInv(b)

-----------------------------------------------------------------------------
(* The state a session shares with nobody, and its alias.                  *)

Own(b) == <<pc[b], expected[b], reply[b], recorded[b], copied[b], named[b], warned[b],
            failed[b], receipt[b], cut[b], changed[b], tags[b]>>

(* A session whose state does not change keeps its invariant.              *)
LEMMA Untouched ==
  ASSUME NEW b \in Builds, SessionInv(b), UNCHANGED Own(b)
  PROVE  SessionInv(b)'
BY DEF Own, SessionInv, FreshInv, VectorsInv, AliasInv

LEMMA InitHolds == Init => IInv
<1> SUFFICES ASSUME Init PROVE IInv
  OBVIOUS
<1>1. PICK d \in Digests : tags = [t \in Builds \cup {Source} |-> IF t = Source THEN d ELSE None]
  BY DEF Init
<1>2. TypeInv
  <2>1. tags \in [Tags -> Weights]
    BY <1>1 DEF Tags, Weights
  <2>2. pc \in [Builds -> Labels] /\ changed \in [Builds -> Nat]
    BY DEF Init, Labels
  <2>3. expected \in [Builds -> Weights]
    BY DEF Init, Weights
  <2>4. reply = [b \in Builds |-> reply[b]] /\ recorded = [b \in Builds |-> recorded[b]]
    BY DEF Init
  <2>5. /\ copied \in [Builds -> BOOLEAN] /\ named \in [Builds -> BOOLEAN]
        /\ warned \in [Builds -> BOOLEAN] /\ cut \in [Builds -> BOOLEAN]
        /\ failed \in [Builds -> BOOLEAN] /\ receipt \in [Builds -> BOOLEAN]
    BY DEF Init
  <2>6. QED BY <2>1, <2>2, <2>3, <2>4, <2>5 DEF TypeInv
<1>3. ASSUME NEW b \in Builds PROVE SessionInv(b)
  BY <1>1, EmbeddingAssumption DEF Init, SessionInv, FreshInv, VectorsInv, AliasInv
<1>4. QED BY <1>2, <1>3 DEF IInv

(* A failure that may be retried moves its session to one of two places.   *)
LEMMA RetryMoves ==
  ASSUME NEW b \in Builds, Retry(b)
  PROVE  \/ pc' = [pc EXCEPT ![b] = "asking"] /\ UNCHANGED failed
         \/ pc' = [pc EXCEPT ![b] = "cleaning"] /\ failed' = [failed EXCEPT ![b] = TRUE]
BY DEF Retry, Throw, Goto

(* So do the types of what such a step changes follow.                     *)
LEMMA MoveTyped ==
  ASSUME TypeInv, NEW b \in Builds, NEW label \in Labels,
         pc' = [pc EXCEPT ![b] = label],
         failed' = failed \/ failed' = [failed EXCEPT ![b] = TRUE]
  PROVE  pc' \in [Builds -> Labels] /\ failed' \in [Builds -> BOOLEAN]
<1>1. pc \in [Builds -> Labels] /\ failed \in [Builds -> BOOLEAN]
  BY DEF TypeInv
<1>2. pc' \in [Builds -> Labels]
  BY <1>1
<1>3. failed' \in [Builds -> BOOLEAN]
  BY <1>1
<1> QED BY <1>2, <1>3

LEMMA CountsOnce ==
  ASSUME NEW f \in [Builds -> Nat], NEW b \in Builds
  PROVE  [f EXCEPT ![b] = f[b] + 1] \in [Builds -> Nat]
OBVIOUS

(* Every step keeps the types.                                             *)
LEMMA TypeStep == TypeInv /\ [Next]_vars => TypeInv'
<1> SUFFICES ASSUME TypeInv, [Next]_vars PROVE TypeInv'
  OBVIOUS
<1> USE EmbeddingAssumption DEF TypeInv, Tags, Weights, Labels, Goto, Throw
<1>1. CASE UNCHANGED vars
  BY <1>1 DEF vars, session
<1>2. ASSUME NEW b \in Builds, Open(b) PROVE TypeInv'
  BY <1>2 DEF Open
<1>3. ASSUME NEW b \in Builds, Enter(b) PROVE TypeInv'
  <2>1. CASE CheckSource(b)  BY <2>1 DEF CheckSource
  <2>2. CASE Copy(b)  BY <2>2 DEF Copy
  <2>3. CASE CopyUncertain(b)  BY <2>3 DEF CopyUncertain
  <2>4. CASE CheckCopy(b)  BY <2>4 DEF CheckCopy
  <2>5. QED BY <1>3, <2>1, <2>2, <2>3, <2>4 DEF Enter
<1>4. ASSUME NEW b \in Builds, Embed(b) PROVE TypeInv'
  <2>1. CASE NextBatch(b)  BY <2>1 DEF NextBatch
  <2>2. CASE CheckBefore(b)  BY <2>2 DEF CheckBefore
  <2>3. CASE Post(b)
    <3>1. reply' = [c \in Builds |-> reply'[c]]
      BY <2>3 DEF Post
    <3>2. PICK label \in Labels : pc' = [pc EXCEPT ![b] = label]
      BY <2>3, RetryMoves DEF Post
    <3>3. pc' \in [Builds -> Labels] /\ failed' \in [Builds -> BOOLEAN]
      <4>1. failed' = failed \/ failed' = [failed EXCEPT ![b] = TRUE]
        BY <2>3, RetryMoves DEF Post
      <4> HIDE DEF TypeInv, Labels
      <4> QED BY <3>2, <4>1, MoveTyped
    <3>4. QED BY <2>3, <3>1, <3>3 DEF Post
  <2>4. CASE CheckReply(b)
    <3>1. PICK label \in Labels : pc' = [pc EXCEPT ![b] = label]
      BY <2>4, RetryMoves DEF CheckReply
    <3>2. pc' \in [Builds -> Labels] /\ failed' \in [Builds -> BOOLEAN]
      <4>1. failed' = failed \/ failed' = [failed EXCEPT ![b] = TRUE]
        BY <2>4, RetryMoves DEF CheckReply
      <4> HIDE DEF TypeInv, Labels
      <4> QED BY <3>1, <4>1, MoveTyped
    <3>3. reply' = [c \in Builds |-> reply'[c]] /\ recorded' = [c \in Builds |-> recorded'[c]]
      BY <2>4 DEF CheckReply
    <3>4. QED BY <2>4, <3>2, <3>3 DEF CheckReply
  <2>5. QED BY <1>4, <2>1, <2>2, <2>3, <2>4 DEF Embed
<1>5. ASSUME NEW b \in Builds, Close(b) PROVE TypeInv'
  <2>1. CASE FinishSource(b)  BY <2>1 DEF FinishSource
  <2>2. CASE FinishAlias(b)  BY <2>2 DEF FinishAlias
  <2>3. CASE CheckCleanup(b)  BY <2>3 DEF CheckCleanup, Warn, Leave
  <2>4. CASE DeleteAlias(b)  BY <2>4 DEF DeleteAlias, Warn, Leave
  <2>5. QED BY <1>5, <2>1, <2>2, <2>3, <2>4 DEF Close
<1>6. ASSUME NEW b \in Builds, LookFails(b) \/ BuildFails(b) \/ WriteReceipt(b) PROVE TypeInv'
  BY <1>6 DEF LookFails, BuildFails, WriteReceipt
<1>7. ASSUME NEW b \in Builds, InterruptCopy(b) PROVE TypeInv'
  BY <1>7 DEF InterruptCopy
<1>8. ASSUME NEW b \in Builds, Die(b) PROVE TypeInv'
  BY <1>8 DEF Die
<1>9. ASSUME NEW b \in Builds, Meddle(b) PROVE TypeInv'
  <2>1. tags' \in [Tags -> Weights]
    BY <1>9 DEF Meddle
  <2>2. changed' \in [Builds -> Nat]
    <3>1. changed' = [changed EXCEPT ![b] = changed[b] + 1]
      BY <1>9 DEF Meddle
    <3>2. QED BY <3>1, CountsOnce
  <2>3. UNCHANGED session
    BY <1>9 DEF Meddle
  <2>4. QED BY <2>1, <2>2, <2>3 DEF session
<1>10. CASE Pull
  <2>1. tags' \in [Tags -> Weights]
    BY <1>10 DEF Pull
  <2>2. UNCHANGED session /\ UNCHANGED changed
    BY <1>10 DEF Pull
  <2>3. QED BY <2>1, <2>2 DEF session
<1>11. QED
  BY <1>1, <1>2, <1>3, <1>4, <1>5, <1>6, <1>7, <1>8, <1>9, <1>10 DEF Next, Step

-----------------------------------------------------------------------------
(* A step of one session, or of an administrator at its alias.             *)
StepOf(b) ==
  \/ Open(b) \/ Step(b) \/ WriteReceipt(b) \/ BuildFails(b)
  \/ InterruptCopy(b) \/ Die(b) \/ Meddle(b)

(* It leaves every other session and its alias as they are.                *)
LEMMA OthersUntouched ==
  ASSUME TypeInv, NEW b \in Builds, StepOf(b), NEW c \in Builds, c # b
  PROVE  UNCHANGED Own(c)
<1> USE DEF TypeInv, Own, Goto, Throw
<1>1. CASE Open(b)  BY <1>1, EmbeddingAssumption DEF Open
<1>2. CASE CheckSource(b)  BY <1>2, EmbeddingAssumption DEF CheckSource, SourceHolds
<1>3. CASE Copy(b)  BY <1>3, EmbeddingAssumption DEF Copy
<1>4. CASE CopyUncertain(b)
  <2>1. UNCHANGED tags[c]
    <3>1. tags' = tags \/ tags' = [tags EXCEPT ![b] = tags[Source]]
      BY <1>4, Zenon DEF CopyUncertain
    <3>2. QED BY <3>1 DEF Tags
  <2>2. /\ pc' = [pc EXCEPT ![b] = "cleaning"] /\ named' = [named EXCEPT ![b] = TRUE]
        /\ failed' = [failed EXCEPT ![b] = TRUE]
    BY <1>4 DEF CopyUncertain
  <2>3. UNCHANGED <<expected, copied, reply, recorded, warned, receipt, cut, changed>>
    BY <1>4 DEF CopyUncertain
  <2>4. QED BY <2>1, <2>2, <2>3
<1>5. CASE CheckCopy(b)  BY <1>5, EmbeddingAssumption DEF CheckCopy
<1>6. CASE NextBatch(b)  BY <1>6, EmbeddingAssumption DEF NextBatch
<1>7. CASE CheckBefore(b)  BY <1>7, EmbeddingAssumption DEF CheckBefore
<1>8. CASE Post(b)  BY <1>8, EmbeddingAssumption DEF Post, Retry, NextAttempt
<1>9. CASE CheckReply(b)  BY <1>9, EmbeddingAssumption DEF CheckReply, Retry, NextAttempt
<1>10. CASE FinishSource(b)  BY <1>10, EmbeddingAssumption DEF FinishSource
<1>11. CASE FinishAlias(b)  BY <1>11, EmbeddingAssumption DEF FinishAlias
<1>12. CASE CheckCleanup(b)  BY <1>12, EmbeddingAssumption DEF CheckCleanup, Warn, Leave
<1>13. CASE DeleteAlias(b)
  <2>1. UNCHANGED tags[c]
    <3>1. tags' = tags \/ tags' = [tags EXCEPT ![b] = None]
      BY <1>13, Zenon DEF DeleteAlias
    <3>2. QED BY <3>1 DEF Tags
  <2>2. /\ pc' = [pc EXCEPT ![b] = IF failed[b] THEN "failed" ELSE "closed"]
        /\ copied' \in {copied, [copied EXCEPT ![b] = FALSE]}
        /\ warned' \in {warned, [warned EXCEPT ![b] = TRUE]}
    BY <1>13 DEF DeleteAlias, Warn, Leave
  <2>3. UNCHANGED <<expected, reply, recorded, failed, named, receipt, cut, changed>>
    BY <1>13 DEF DeleteAlias
  <2>4. QED BY <2>1, <2>2, <2>3
<1>14. CASE LookFails(b)  BY <1>14, EmbeddingAssumption DEF LookFails
<1>15. CASE BuildFails(b)  BY <1>15, EmbeddingAssumption DEF BuildFails
<1>16. CASE InterruptCopy(b)
  <2>1. UNCHANGED tags[c]
    <3>1. tags' = tags \/ tags' = [tags EXCEPT ![b] = tags[Source]]
      BY <1>16, Zenon DEF InterruptCopy
    <3>2. QED BY <3>1 DEF Tags
  <2>2. /\ pc' = [pc EXCEPT ![b] = "cleaning"] /\ cut' = [cut EXCEPT ![b] = TRUE]
        /\ failed' = [failed EXCEPT ![b] = TRUE]
    BY <1>16 DEF InterruptCopy
  <2>3. UNCHANGED <<expected, copied, reply, recorded, named, warned, receipt, changed>>
    BY <1>16 DEF InterruptCopy
  <2>4. QED BY <2>1, <2>2, <2>3
<1>17. CASE Die(b)  BY <1>17, EmbeddingAssumption DEF Die
<1>18. CASE Meddle(b)  BY <1>18, EmbeddingAssumption DEF Meddle, session
<1>19. CASE WriteReceipt(b)  BY <1>19, EmbeddingAssumption DEF WriteReceipt
<1>20. QED
  BY <1>1, <1>2, <1>3, <1>4, <1>5, <1>6, <1>7, <1>8, <1>9, <1>10, <1>11, <1>12, <1>13, <1>14, <1>15, <1>16, <1>17, <1>18, <1>19 DEF StepOf, Step, Enter, Embed, Close

(* Its own invariant it keeps.                                             *)
LEMMA OwnKept ==
  ASSUME TypeInv, NEW b \in Builds, SessionInv(b), StepOf(b)
  PROVE  SessionInv(b)'
<1> USE DEF TypeInv, SessionInv, FreshInv, VectorsInv, AliasInv, Goto, Throw
<1>1. CASE Open(b)  BY <1>1, EmbeddingAssumption DEF Open, AliasHolds
<1>2. CASE CheckSource(b)  BY <1>2, EmbeddingAssumption DEF CheckSource, SourceHolds, AliasHolds
<1>3. CASE Copy(b)  BY <1>3, EmbeddingAssumption DEF Copy, AliasHolds
<1>4. CASE CopyUncertain(b)  BY <1>4, EmbeddingAssumption DEF CopyUncertain, AliasHolds
<1>5. CASE CheckCopy(b)  BY <1>5, EmbeddingAssumption DEF CheckCopy, AliasHolds
<1>6. CASE NextBatch(b)  BY <1>6, EmbeddingAssumption DEF NextBatch, AliasHolds
<1>7. CASE CheckBefore(b)  BY <1>7, EmbeddingAssumption DEF CheckBefore, AliasHolds
<1>8. CASE Post(b)
  <2> USE <1>8
  <2>1. UNCHANGED <<tags, expected, recorded, copied, named, warned, receipt, cut, changed>>
    BY DEF Post
  <2>2. CASE \/ pc' = [pc EXCEPT ![b] = "asking"] /\ UNCHANGED failed
             \/ pc' = [pc EXCEPT ![b] = "cleaning"] /\ failed' = [failed EXCEPT ![b] = TRUE]
    <3>1. pc'[b] \in {"asking", "cleaning"} /\ failed'[b] \in {failed[b], TRUE}
      BY <2>2
    <3>2. pc[b] = "posting"
      BY DEF Post
    <3>3. QED BY <2>1, <3>1, <3>2
  <2>3. CASE /\ tags[b] # None
             /\ \E kind \in {"valid", "numeric", "malformed"} :
                   reply' = [reply EXCEPT ![b] = [weights |-> tags[b], kind |-> kind]]
             /\ pc' = [pc EXCEPT ![b] = "replied"] /\ UNCHANGED failed
    <3>1. pc[b] = "posting" /\ pc'[b] = "replied"
      BY <2>3 DEF Post
    <3>2. reply'[b] \in Replies /\ reply'[b].weights = tags[b]
      BY <2>3 DEF Replies, Tags, Weights
    <3>3. QED BY <2>1, <2>3, <3>1, <3>2
  <2>4. QED BY <2>2, <2>3, RetryMoves DEF Post
<1>9. CASE CheckReply(b)
  <2> USE <1>9
  <2>1. UNCHANGED <<tags, expected, copied, named, warned, receipt, cut, changed>>
    BY DEF CheckReply
  <2>2. /\ pc[b] = "replied" /\ pc'[b] \in {"ready", "asking", "cleaning"}
        /\ failed'[b] \in {failed[b], TRUE}
    BY RetryMoves DEF CheckReply
  <2>3. CASE UNCHANGED recorded
    BY <2>1, <2>2, <2>3
  <2>4. CASE Accept(b) /\ recorded' = [recorded EXCEPT ![b] = Append(@, reply[b].weights)]
    <3>1. recorded'[b] = Append(recorded[b], reply[b].weights)
      BY <2>4
    <3>2. reply[b].weights \in Digests /\ tags[b] = expected[b]
      BY <2>2, <2>4 DEF Accept, AliasHolds, Replies
    <3>3. recorded'[b] \in Seq(Digests)
      BY <3>1, <3>2
    <3>4. changed[b] <= 1 => reply[b].weights = expected[b]
      BY <2>2, <3>2
    <3>5. VectorsInv(b)'
      BY <2>1, <3>1, <3>4
    <3>6. QED BY <2>1, <2>2, <3>3, <3>5
  <2>5. QED BY <2>3, <2>4 DEF CheckReply
<1>10. CASE FinishSource(b)
  <2>1. UNCHANGED <<tags, expected, reply, recorded, copied, named, warned, receipt, cut, changed>>
    BY <1>10 DEF FinishSource
  <2>2. /\ pc[b] = "finishing" /\ pc'[b] \in {"finishing alias", "cleaning"}
        /\ failed'[b] \in {failed[b], TRUE}
    BY <1>10 DEF FinishSource
  <2>3. QED BY <2>1, <2>2
<1>11. CASE FinishAlias(b)
  <2>1. UNCHANGED <<tags, expected, reply, recorded, copied, named, warned, receipt, cut, changed>>
    BY <1>11 DEF FinishAlias
  <2>2. /\ pc[b] = "finishing alias" /\ pc'[b] = "cleaning"
        /\ failed'[b] \in {failed[b], TRUE}
    BY <1>11 DEF FinishAlias
  <2>3. QED BY <2>1, <2>2
<1>12. CASE CheckCleanup(b)  BY <1>12, EmbeddingAssumption DEF CheckCleanup, Warn, Leave, AliasHolds
<1>13. CASE DeleteAlias(b)
  <2>1. tags'[b] = None \/ warned'[b]
    BY <1>13 DEF DeleteAlias, Warn, Tags
  <2>2. pc[b] = "deleting" /\ pc'[b] = IF failed[b] THEN "failed" ELSE "closed"
    BY <1>13 DEF DeleteAlias, Leave
  <2>3. UNCHANGED <<expected, reply, recorded, failed, named, receipt, cut, changed>>
    BY <1>13 DEF DeleteAlias
  <2>4. tags'[b] = None \/ copied'[b]
    BY <1>13 DEF DeleteAlias, Tags
  <2>5. QED BY <2>1, <2>2, <2>3, <2>4
<1>14. CASE LookFails(b)
  <2>1. UNCHANGED <<tags, expected, reply, recorded, copied, named, warned, receipt, cut, changed>>
    BY <1>14 DEF LookFails
  <2>2. /\ pc[b] \notin {"idle", "closed", "sealed", "deleting"} /\ pc'[b] = "cleaning"
        /\ failed'[b] = TRUE
    BY <1>14 DEF LookFails
  <2>3. QED BY <2>1, <2>2
<1>15. CASE BuildFails(b)  BY <1>15, EmbeddingAssumption DEF BuildFails, AliasHolds
<1>16. CASE InterruptCopy(b)  BY <1>16, EmbeddingAssumption DEF InterruptCopy, AliasHolds
<1>17. CASE Die(b)  BY <1>17, EmbeddingAssumption DEF Die, AliasHolds
<1>18. CASE Meddle(b)  BY <1>18, EmbeddingAssumption DEF Meddle, session, AliasHolds
<1>19. CASE WriteReceipt(b)  BY <1>19, EmbeddingAssumption DEF WriteReceipt, AliasHolds
<1>20. QED
  BY <1>1, <1>2, <1>3, <1>4, <1>5, <1>6, <1>7, <1>8, <1>9, <1>10, <1>11, <1>12, <1>13, <1>14, <1>15, <1>16, <1>17, <1>18, <1>19 DEF StepOf, Step, Enter, Embed, Close

(* Every step keeps the invariant: of the session that moves, and of the   *)
(* sessions that do not.                                                   *)
LEMMA StepKeeps == IInv /\ [Next]_vars => IInv'
<1> SUFFICES ASSUME IInv, [Next]_vars PROVE IInv'
  OBVIOUS
<1>1. TypeInv'
  BY TypeStep DEF IInv
<1>2. ASSUME NEW c \in Builds PROVE SessionInv(c)'
  <2>1. TypeInv /\ SessionInv(c)
    BY DEF IInv
  <2>2. CASE UNCHANGED vars
    BY <2>1, <2>2, Untouched DEF Own, vars, session
  <2>3. CASE Pull
    <3>1. UNCHANGED session /\ UNCHANGED changed
      BY <2>3 DEF Pull
    <3>2. UNCHANGED tags[c]
      BY <2>3, <2>1, EmbeddingAssumption DEF Pull, TypeInv, Tags
    <3>3. UNCHANGED Own(c)
      BY <3>1, <3>2 DEF Own, session
    <3>4. QED BY <2>1, <3>3, Untouched
  <2>4. ASSUME NEW b \in Builds, StepOf(b) PROVE SessionInv(c)'
    <3>1. CASE b = c
      BY <2>1, <2>4, <3>1, OwnKept
    <3>2. CASE b # c
      BY <2>1, <2>4, <3>2, OthersUntouched, Untouched
    <3>3. QED BY <3>1, <3>2
  <2>5. QED BY <2>2, <2>3, <2>4 DEF Next, StepOf
<1>3. QED BY <1>1, <1>2 DEF IInv

(* The inductive invariant of the sessions.                                *)
THEOREM SessionInvariance == Spec => []IInv
<1>1. QED BY InitHolds, StepKeeps, PTL DEF Spec

(* However the source tag moves, every vector a build has recorded comes   *)
(* from the weights its contract names, unless its alias was changed twice *)
(* behind its back.                                                        *)
THEOREM RevisionOfTheContract == Spec => []VectorsFromRevision
<1>1. IInv => VectorsFromRevision
  BY DEF IInv, SessionInv, VectorsInv, VectorsFromRevision
<1>2. QED BY <1>1, SessionInvariance, PTL

(* A build that publishes names in its receipt the alias its session left, *)
(* and one that failed on an uncertain copy names it in the exception.     *)
THEOREM AliasIsAccounted == Spec => []AliasAccounted
<1>1. IInv => AliasAccounted
  BY DEF IInv, SessionInv, AliasInv, AliasAccounted
<1>2. QED BY <1>1, SessionInvariance, PTL

=============================================================================
