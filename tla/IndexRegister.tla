--------------------------- MODULE IndexRegister ---------------------------
(***************************************************************************)
(* What GenerationStore promises to the readers of one logical collection: *)
(* a register that names the active version.  It moves forward to a        *)
(* version never published before, or back to the version that one         *)
(* replaced; only a register that names no version may be set by hand, and *)
(* only versions out of reach of the next rollback are forgotten.          *)
(***************************************************************************)
CONSTANTS Versions, None, Lost

VARIABLES
    active,      \* the version readers open, None before the first, or Lost
    before,      \* [version -> the version it replaced]
    published,   \* versions that have been active
    lost         \* the register was damaged from outside at least once

regs == <<active, before, published, lost>>

RegisterInit ==
    /\ active = None /\ published = {} /\ lost = FALSE
    /\ before = [v \in Versions |-> None]

(* Damage to the version that is being made active shows when it is.       *)
Lands(v) == active' \in {v} \cup (IF lost THEN {Lost} ELSE {})

(* A new version becomes active and remembers the one it replaces.         *)
Publish(v) ==
    /\ v \notin published
    /\ Lands(v) /\ published' = published \cup {v}
    /\ \E b \in Versions \cup {None} :
          /\ (active \in Versions \/ ~lost) => b = active
          /\ before' = [before EXCEPT ![v] = b]
    /\ UNCHANGED lost

(* The active version gives way to exactly the one it replaced.            *)
Revert ==
    /\ active \in Versions /\ before[active] # None
    /\ active' = before[active]
    /\ published' = published \cup {before[active]}
    /\ UNCHANGED <<before, lost>>

(* Only a register that names no version is set to one chosen by hand.     *)
Restore(v) ==
    /\ active \notin Versions
    /\ Lands(v) /\ published' = published \cup {v}
    /\ \E b \in Versions \cup {None} : before' = [before EXCEPT ![v] = b]
    /\ UNCHANGED lost

Lose ==
    /\ active' \in {active, None, Lost} /\ lost' = TRUE
    /\ UNCHANGED <<before, published>>

(* The active version and the target of the next Revert are never          *)
(* forgotten.                                                              *)
Forget(v) ==
    /\ v # active /\ (active \in Versions => v # before[active])
    /\ before' = [before EXCEPT ![v] = None]
    /\ UNCHANGED <<active, published, lost>>

RegisterNext ==
    \/ Revert \/ Lose
    \/ \E v \in Versions : Publish(v) \/ Restore(v) \/ Forget(v)

RegisterSpec == RegisterInit /\ [][RegisterNext]_regs

=============================================================================
