--------------------------- MODULE EmbeddingSession ---------------------------
(***************************************************************************)
(* The Ollama build session of service/embedding_session.py.  A build      *)
(* embeds its inputs in batches through a daemon that other people use:    *)
(* the model's tag may be pulled to other weights at any moment, requests  *)
(* fail with or without effect, and replies may hold unusable vectors.     *)
(* The session copies the tag to an alias of its own, sends every batch to *)
(* the alias, looks at the alias' digest around every request, and deletes *)
(* the alias when it closes.  A cleanup that leaves the alias only notes   *)
(* its name in the session's memory; the builder writes the note down with *)
(* the receipt of the generation, if it comes that far.                    *)
(*                                                                         *)
(* An operator whose comment begins with "Variant" is a plausible mistake  *)
(* in the operator that follows it; no action uses one.                    *)
(***************************************************************************)
EXTENDS Naturals, Sequences

CONSTANTS
    Builds,     \* sessions, each with the alias it draws (uuid4)
    Source,     \* the tag of the configured model
    Digests,    \* model weights, named by their digest
    Batches,    \* batches of inputs a build embeds
    MaxPulls,   \* bound: how often the source tag moves
    MaxMeddles, \* bound: how often an administrator changes aliases
    None

ASSUME EmbeddingAssumption ==
    /\ Batches \in Nat \ {0} /\ MaxPulls \in Nat /\ MaxMeddles \in Nat
    /\ Source \notin Builds /\ None \notin Digests

VARIABLES
    tags,      \* the daemon: [tag -> digest or None]
    pc,
    expected,  \* the revision in the embedding contract of the build
    copied,    \* _copied: the alias is known to be the session's
    attempt,   \* attempts made for the present batch, 0 .. 2
    reply,     \* the weights and the kind of the reply being checked
    recorded,  \* the weights behind the vectors of each batch recorded
    failed,    \* an exception is on its way out of the session
    named,     \* ... and its message names the alias
    warned,    \* cleanup_warnings, in memory, names the alias
    receipt,   \* embedding-session.json is written and names the alias
    (* what an observer counts and remembers *)
    cut,       \* the process was interrupted or killed inside a request
    pulls, meddles,
    changed    \* [build -> how often its alias was changed from outside]

session == <<pc, expected, copied, attempt, reply, recorded, failed, named, warned,
             receipt, cut>>
vars == <<tags, session, pulls, meddles, changed>>

Goto(b, label) == pc' = [pc EXCEPT ![b] = label]

(* An exception leaves the with-block, which cleans up.                    *)
Throw(b) ==
    /\ Goto(b, "cleaning")
    /\ failed' = [failed EXCEPT ![b] = TRUE]

(***************************************************************************)
(* Entering                                                                *)
(***************************************************************************)

(* The builder reads its embedding contract and opens a session.           *)
Open(b) ==
    /\ pc[b] = "idle" /\ tags[Source] # None
    /\ expected' = [expected EXCEPT ![b] = tags[Source]]
    /\ Goto(b, "entering")
    /\ UNCHANGED <<tags, copied, attempt, reply, recorded, failed, named, warned,
                   receipt, cut, pulls, meddles, changed>>

(* check_source: the tag in the configuration is still the contract's.     *)
SourceHolds(b) == tags[Source] = expected[b]

(* Variant: the alias is only looked for.                                  *)
AliasExists(b) == tags[b] # None

(* _check_runtime                                                          *)
AliasHolds(b) == tags[b] = expected[b]

CheckSource(b) ==
    /\ pc[b] = "entering"
    /\ IF SourceHolds(b) /\ tags[b] = None
         THEN Goto(b, "copying") /\ UNCHANGED failed
         ELSE Throw(b)
    /\ UNCHANGED <<tags, expected, copied, attempt, reply, recorded, named,
                   warned, receipt, cut, pulls, meddles, changed>>

Copy(b) ==
    /\ pc[b] = "copying" /\ tags[Source] # None
    /\ tags' = [tags EXCEPT ![b] = tags[Source]]
    /\ copied' = [copied EXCEPT ![b] = TRUE]
    /\ Goto(b, "verifying")
    /\ UNCHANGED <<expected, attempt, reply, recorded, failed, named, warned,
                   receipt, cut, pulls, meddles, changed>>

(* The copy fails, or is made and its answer lost: the session does not    *)
(* guess, keeps the alias as not its own, and names it in the exception.   *)
CopyUncertain(b) ==
    /\ pc[b] = "copying"
    /\ tags' \in {tags, [tags EXCEPT ![b] = tags[Source]]}
    /\ named' = [named EXCEPT ![b] = TRUE]
    /\ Throw(b)
    /\ UNCHANGED <<expected, copied, attempt, reply, recorded, warned, receipt,
                   cut, pulls, meddles, changed>>

(* The copy took whatever the tag was when the daemon made it.             *)
CheckCopy(b) ==
    /\ pc[b] = "verifying"
    /\ IF AliasHolds(b) THEN Goto(b, "ready") /\ UNCHANGED failed ELSE Throw(b)
    /\ UNCHANGED <<tags, expected, copied, attempt, reply, recorded, named,
                   warned, receipt, cut, pulls, meddles, changed>>

(***************************************************************************)
(* Embedding a batch                                                       *)
(***************************************************************************)

NextBatch(b) ==
    /\ pc[b] = "ready"
    /\ attempt' = [attempt EXCEPT ![b] = 0]
    /\ Goto(b, IF Len(recorded[b]) < Batches THEN "asking" ELSE "finishing")
    /\ UNCHANGED <<tags, expected, copied, reply, recorded, failed, named, warned,
                   receipt, cut, pulls, meddles, changed>>

CheckBefore(b) ==
    /\ pc[b] = "asking"
    /\ IF AliasHolds(b) THEN Goto(b, "posting") /\ UNCHANGED failed ELSE Throw(b)
    /\ UNCHANGED <<tags, expected, copied, attempt, reply, recorded, named,
                   warned, receipt, cut, pulls, meddles, changed>>

(* Variant: a failure that is retried does not use up an attempt.          *)
SameAttempt(b) == attempt' = attempt

NextAttempt(b) == attempt' = [attempt EXCEPT ![b] = @ + 1]

(* Transient errors and unusable numbers share the three attempts.         *)
Retry(b) ==
    IF attempt[b] < 2
      THEN NextAttempt(b) /\ Goto(b, "asking") /\ UNCHANGED failed
      ELSE Throw(b) /\ UNCHANGED attempt

(* The daemon computes with the weights the alias has at that moment.      *)
Post(b) ==
    /\ pc[b] = "posting"
    /\ \/ /\ tags[b] # None
          /\ \E kind \in {"valid", "numeric", "malformed"} :
                reply' = [reply EXCEPT ![b] = [weights |-> tags[b], kind |-> kind]]
          /\ Goto(b, "replied")
          /\ UNCHANGED <<attempt, failed>>
       \/ Retry(b) /\ UNCHANGED reply
       \/ Throw(b) /\ UNCHANGED <<attempt, reply>>
    /\ UNCHANGED <<tags, expected, copied, recorded, named, warned, receipt, cut,
                   pulls, meddles, changed>>

(* Variant: the alias is not looked at again after the reply.              *)
AcceptUnchecked(b) == reply[b].kind = "valid"

Accept(b) == reply[b].kind = "valid" /\ AliasHolds(b)

(* A reply of another model, length or dimension is an error, as is a      *)
(* changed alias; numbers that are not finite or all zero are asked again. *)
CheckReply(b) ==
    /\ pc[b] = "replied"
    /\ \/ /\ Accept(b)
          /\ recorded' = [recorded EXCEPT ![b] = Append(@, reply[b].weights)]
          /\ Goto(b, "ready")
          /\ UNCHANGED <<attempt, failed>>
       \/ /\ reply[b].kind = "numeric" /\ AliasHolds(b)
          /\ Retry(b)
          /\ UNCHANGED recorded
       \/ /\ ~Accept(b) /\ (reply[b].kind = "malformed" \/ ~AliasHolds(b))
          /\ Throw(b)
          /\ UNCHANGED <<attempt, recorded>>
    /\ reply' = [reply EXCEPT ![b] = None]
    /\ UNCHANGED <<tags, expected, copied, named, warned, receipt, cut, pulls,
                   meddles, changed>>

(***************************************************************************)
(* Closing                                                                 *)
(***************************************************************************)

FinishSource(b) ==
    /\ pc[b] = "finishing"
    /\ IF SourceHolds(b) THEN Goto(b, "finishing alias") /\ UNCHANGED failed ELSE Throw(b)
    /\ UNCHANGED <<tags, expected, copied, attempt, reply, recorded, named,
                   warned, receipt, cut, pulls, meddles, changed>>

FinishAlias(b) ==
    /\ pc[b] = "finishing alias"
    /\ IF AliasHolds(b) THEN Goto(b, "cleaning") /\ UNCHANGED failed ELSE Throw(b)
    /\ UNCHANGED <<tags, expected, copied, attempt, reply, recorded, named,
                   warned, receipt, cut, pulls, meddles, changed>>

(* The with-block is left: the build goes on, or its exception goes out.   *)
Leave(b) == Goto(b, IF failed[b] THEN "failed" ELSE "closed")

(* Variant: a cleanup that leaves the alias says nothing.                  *)
WarnNever(b) == UNCHANGED warned

(* The note is in memory: an exception that goes out does not carry it.    *)
Warn(b) == warned' = [warned EXCEPT ![b] = TRUE]

(* _cleanup, up to the request that deletes.  A look that fails, or finds  *)
(* other weights, leaves the alias alone and warns of it.                  *)
CheckCleanup(b) ==
    /\ pc[b] = "cleaning"
    /\ \/ copied[b] /\ AliasHolds(b) /\ Goto(b, "deleting") /\ UNCHANGED warned
       \/ copied[b] /\ Warn(b) /\ Leave(b)
       \/ ~copied[b] /\ Leave(b) /\ UNCHANGED warned
    /\ UNCHANGED <<tags, expected, copied, attempt, reply, recorded, failed,
                   named, receipt, cut, pulls, meddles, changed>>

DeleteAlias(b) ==
    /\ pc[b] = "deleting"
    /\ \/ /\ tags' = [tags EXCEPT ![b] = None]
          /\ copied' = [copied EXCEPT ![b] = FALSE]
          /\ UNCHANGED warned
       \/ /\ tags' \in {tags, [tags EXCEPT ![b] = None]}
          /\ Warn(b)
          /\ UNCHANGED copied
    /\ Leave(b)
    /\ UNCHANGED <<expected, attempt, reply, recorded, failed, named, receipt,
                   cut, pulls, meddles, changed>>

(* summary, which the builder seals into the generation it publishes.      *)
WriteReceipt(b) ==
    /\ pc[b] = "closed"
    /\ receipt' = [receipt EXCEPT ![b] = warned[b]]
    /\ Goto(b, "sealed")
    /\ UNCHANGED <<tags, expected, copied, attempt, reply, recorded, failed, named, warned,
                   cut, pulls, meddles, changed>>

(* Any look at the daemon may itself fail.                                 *)
LookFails(b) ==
    /\ pc[b] \in {"entering", "verifying", "asking", "replied", "finishing",
                  "finishing alias"}
    /\ Throw(b)
    /\ UNCHANGED <<tags, expected, copied, attempt, reply, recorded, named,
                   warned, receipt, cut, pulls, meddles, changed>>

(* The build fails between two calls of the session, or after it.          *)
BuildFails(b) ==
    /\ \/ pc[b] = "ready" /\ Throw(b)
       \/ /\ pc[b] = "closed" /\ Goto(b, "failed")
          /\ failed' = [failed EXCEPT ![b] = TRUE]
    /\ UNCHANGED <<tags, expected, copied, attempt, reply, recorded, named, warned, receipt,
                   cut, pulls, meddles, changed>>

(* A KeyboardInterrupt inside the copy request is no Exception.            *)
InterruptCopy(b) ==
    /\ pc[b] = "copying"
    /\ tags' \in {tags, [tags EXCEPT ![b] = tags[Source]]}
    /\ Throw(b)
    /\ cut' = [cut EXCEPT ![b] = TRUE]
    /\ UNCHANGED <<expected, copied, attempt, reply, recorded, named, warned,
                   receipt, pulls, meddles, changed>>

Die(b) ==
    /\ pc[b] \notin {"idle", "failed", "sealed"}
    /\ Goto(b, "failed")
    /\ failed' = [failed EXCEPT ![b] = TRUE]
    /\ cut' = [cut EXCEPT ![b] = TRUE]
    /\ UNCHANGED <<tags, expected, copied, attempt, reply, recorded, named,
                   warned, receipt, pulls, meddles, changed>>

(***************************************************************************)
(* The other users of the daemon                                           *)
(***************************************************************************)

(* ollama pull, ollama rm                                                  *)
Pull ==
    /\ pulls < MaxPulls
    /\ \E d \in (Digests \cup {None}) \ {tags[Source]} :
          tags' = [tags EXCEPT ![Source] = d]
    /\ pulls' = pulls + 1
    /\ UNCHANGED <<session, meddles, changed>>

(* Administrators must not touch an alias, and do.                         *)
Meddle(b) ==
    /\ meddles < MaxMeddles /\ tags[b] # None
    /\ \E d \in (Digests \cup {None}) \ {tags[b]} : tags' = [tags EXCEPT ![b] = d]
    /\ meddles' = meddles + 1
    /\ changed' = [changed EXCEPT ![b] = @ + 1]
    /\ UNCHANGED <<session, pulls>>

(***************************************************************************)
(* The specification                                                       *)
(***************************************************************************)

Init ==
    /\ \E d \in Digests : tags = [t \in Builds \cup {Source} |-> IF t = Source THEN d ELSE None]
    /\ pc = [b \in Builds |-> "idle"]
    /\ expected = [b \in Builds |-> None]
    /\ copied = [b \in Builds |-> FALSE]
    /\ attempt = [b \in Builds |-> 0]
    /\ reply = [b \in Builds |-> None]
    /\ recorded = [b \in Builds |-> <<>>]
    /\ failed = [b \in Builds |-> FALSE]
    /\ named = [b \in Builds |-> FALSE]
    /\ warned = [b \in Builds |-> FALSE]
    /\ receipt = [b \in Builds |-> FALSE]
    /\ cut = [b \in Builds |-> FALSE]
    /\ pulls = 0 /\ meddles = 0
    /\ changed = [b \in Builds |-> 0]

Enter(b) == CheckSource(b) \/ Copy(b) \/ CopyUncertain(b) \/ CheckCopy(b)

Embed(b) == NextBatch(b) \/ CheckBefore(b) \/ Post(b) \/ CheckReply(b)

Close(b) == FinishSource(b) \/ FinishAlias(b) \/ CheckCleanup(b) \/ DeleteAlias(b)

Step(b) == Enter(b) \/ Embed(b) \/ Close(b) \/ LookFails(b)

Next ==
    \/ \E b \in Builds :
          \/ Open(b) \/ Step(b) \/ WriteReceipt(b) \/ BuildFails(b)
          \/ InterruptCopy(b) \/ Die(b) \/ Meddle(b)
    \/ Pull

Spec == Init /\ [][Next]_vars

(* A session that was opened goes on: its requests time out after 180 s,   *)
(* so each of them is answered or raises.                                  *)
Fairness == \A b \in Builds : WF_vars(Step(b))

FairSpec == Spec /\ Fairness

(***************************************************************************)
(* Properties                                                              *)
(***************************************************************************)

(* However the source tag moves, every vector a build has recorded was     *)
(* computed by the weights its contract names.  An alias changed from      *)
(* outside is noticed as long as it is not changed back before the next    *)
(* look, that is, as long as it is changed at most once: one changed twice *)
(* is outside the class's contract (embedding_session.py:254-259).         *)
VectorsFromRevision ==
    \A b \in Builds :
        changed[b] <= 1 => \A n \in 1 .. Len(recorded[b]) : recorded[b][n] = expected[b]

(* An alias may outlive its session, for the session does not delete what  *)
(* it is not sure of.  A build that goes on and publishes then has the     *)
(* alias in its receipt, however the last requests of the session ended;   *)
(* and one that failed on a copy whose outcome it does not know names the  *)
(* alias in its exception, unless it was cut off inside a request.         *)
AliasAccounted ==
    \A b \in Builds : tags[b] # None /\ ~cut[b] =>
        /\ pc[b] = "sealed" => receipt[b]
        /\ pc[b] = "failed" /\ ~copied[b] => named[b]

(* The documented promise: "Uncertain copies/cleanup can leave an owned    *)
(* alias; its name is included in the failure or receipt"                  *)
(* (docs/development/EMBEDDING_BUILD_SESSIONS.md:30-31).  A session that   *)
(* fails and cannot clean up keeps the name in cleanup_warnings, which     *)
(* goes with the process.                                                  *)
AliasNamed ==
    \A b \in Builds :
        pc[b] \in {"failed", "sealed"} /\ tags[b] # None /\ ~cut[b] => named[b] \/ receipt[b]

(* A session that was opened ends, whatever the daemon answers: closed, or *)
(* with its exception on the way out.                                      *)
SessionEnds == \A b \in Builds : pc[b] = "entering" ~> pc[b] \in {"closed", "failed"}

=============================================================================
