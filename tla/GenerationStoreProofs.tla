----------------------- MODULE GenerationStoreProofs ------------------------
(***************************************************************************)
(* Safety of GenerationStore for every set of generations and processes,   *)
(* every history of the library and any amount of outside damage.          *)
(*                                                                         *)
(* The argument: a process whose control point is past the lock holds it   *)
(* (LockInv), so no other process writes between two of its own steps;     *)
(* hence what a builder has checked about its candidate (CandidateInv),    *)
(* and a recovery or a prune about its targets, is still true when it acts *)
(* on it, and the pointer only ever names a sound generation (PointerInv). *)
(*                                                                         *)
(* On that invariant (IInv) stand two more: what an observer remembers     *)
(* (HInv), and what a publication knows about the generation it replaces   *)
(* (LInv).                                                                 *)
(***************************************************************************)
EXTENDS GenerationStore, FiniteSetTheorems, FunctionTheorems, TLAPS

(***************************************************************************)
(* The inductive invariant                                                 *)
(***************************************************************************)

Locked == Labels \ {"idle", "planned", "unlocked"}

(* One process at a time is past the lock.                                 *)
LockInv == \A p \in Procs : pc[p] \in Locked => lock = p

(* A generation has files only once its identity has been drawn.           *)
BegunInv == \A g \in Gens : manifest[g] # None => g \in begun

(* What a manifest says of its own past.                                   *)
ManifestInv ==
    \A g \in Gens : manifest[g] # None =>
        /\ manifest[g].state = "complete" => World[manifest[g].snap].complete
        /\ manifest[g].prev # None => manifest[g].prevPrint = SealedPrint
        /\ manifest[g].rev = 1 => g \in damage

Sound(g) ==
    /\ manifest[g] # None /\ manifest[g].state = "complete" /\ manifest[g].rev = 0
    /\ Intact(g)

(* The candidate of a builder and the target of a recovery.                *)
CandidateInv ==
    \A p \in Procs :
        /\ pc[p] \in {"idle", "planned"} => gen[p] = None
        /\ pc[p] \in RaisePoints \cup {"rebeginning", "recording", "switched", "recovering"}
             => gen[p] \in Gens
        /\ pc[p] \in {"beginning", "begun", "filling", "filled"} =>
             /\ manifest[gen[p]] # None /\ manifest[gen[p]].state = "building"
             /\ manifest[gen[p]].snap = snap[p] /\ manifest[gen[p]].rev = 0
        /\ pc[p] \in {"filling", "filled"} => World[snap[p]].complete
        /\ pc[p] = "filled" => Intact(gen[p])
        /\ pc[p] \in {"sealed", "activating", "recovering"} =>
             (gen[p] \notin damage => Sound(gen[p]))

(* A prune deletes neither more than it planned nor the active generation. *)
PruneInv ==
    \A p \in Procs : pc[p] = "pruning" =>
        /\ gen[p] \in doomed[p] \cup {None}
        /\ pointer \in Pointers => pointer.id \notin doomed[p]

(* The pointer names a sound generation, unless one of the two is damaged. *)
PointerInv ==
    /\ damage = {} => pointer # Garbled
    /\ pointer \in Pointers /\ pointer.id \notin damage => Sound(pointer.id)

IInv ==
    /\ TypeOK /\ LockInv /\ BegunInv /\ ManifestInv /\ CandidateInv /\ PruneInv
    /\ PointerInv

(* The plumbing of the actions.                                            *)
USE DEF files, procs, observed, Goto, Labels, Locked, RaisePoints

(* The invariant holds of an empty store.                                  *)
LEMMA InitInvariant == Init => IInv
<1> SUFFICES ASSUME Init PROVE IInv
  OBVIOUS
<1>1. TypeOK
  BY WorldAssumption DEF Init, TypeOK
<1>2. LockInv /\ CandidateInv /\ PruneInv
  BY DEF Init, LockInv, CandidateInv, PruneInv
<1>3. BegunInv /\ ManifestInv /\ PointerInv
  BY ConfigAssumption, RecordAssumption DEF Init, BegunInv, ManifestInv, PointerInv
<1> QED
  BY <1>1, <1>2, <1>3 DEF IInv

(* A process past the lock is alone there.                                 *)
LEMMA Alone ==
    ASSUME LockInv, NEW p \in Procs, pc[p] \in Locked
    PROVE  lock = p /\ \A q \in Procs : q # p => pc[q] \notin Locked
BY DEF LockInv

(* While the lock is free nobody is past it.                               *)
LEMMA NobodyLocked ==
    ASSUME LockInv, lock = None
    PROVE  \A q \in Procs : pc[q] \notin Locked
BY ConfigAssumption DEF LockInv

(* What load_active has checked when it returns a generation.              *)
LEMMA LoadActiveFacts ==
    ASSUME TypeOK
    PROVE  /\ LoadActive \in Gens \cup {None, Garbled}
           /\ LoadActive \in Gens =>
                /\ pointer \in Pointers /\ pointer.id = LoadActive
                /\ manifest[LoadActive] \in Manifests
                /\ manifest[LoadActive].state = "complete"
                /\ Fingerprint(manifest[LoadActive]) = SealedPrint
BY ConfigAssumption DEF TypeOK, LoadActive, Pointers

(* The manifest begin writes.                                              *)
LEMMA NewManifestFacts ==
    ASSUME TypeOK, NEW s \in DOMAIN World
    PROVE  LET m == NewManifest(s, World[world].embedding) IN
              /\ m \in Manifests /\ m # None
              /\ m.state = "building" /\ m.snap = s /\ m.rev = 0 /\ m.prev = None
BY RecordAssumption DEF TypeOK, NewManifest, Manifests

(* What the files say stays true while they stay as they are.              *)
LEMMA FilesKept ==
    ASSUME BegunInv, ManifestInv, PointerInv,
           UNCHANGED <<manifest, collection, artifacts, pointer, begun, damage>>
    PROVE  BegunInv' /\ ManifestInv' /\ PointerInv'
BY DEF BegunInv, ManifestInv, PointerInv, Sound, Intact

(* A process that ends leaves everything to the others.                    *)
LEMMA ExitKeeps ==
    ASSUME IInv, NEW p \in Procs, NEW c, Exit(p, c),
           UNCHANGED <<manifest, collection, artifacts, pointer, begun, damage>>
    PROVE  LockInv' /\ CandidateInv' /\ PruneInv'
<1>1. LockInv'
  BY DEF IInv, TypeOK, LockInv, Exit, Released
<1>2. CandidateInv'
  BY DEF IInv, TypeOK, CandidateInv, Exit, Sound, Intact
<1>3. PruneInv'
  BY DEF IInv, TypeOK, PruneInv, Exit
<1> QED
  BY <1>1, <1>2, <1>3

(***************************************************************************)
(* A build                                                                 *)
(***************************************************************************)

(* The library is read; nothing is written.                                *)
LEMMA PlanPapersStep ==
    ASSUME IInv, NEW p \in Procs, PlanPapers(p)
    PROVE  IInv'
<1>1. TypeOK'
  BY DEF IInv, PlanPapers, TypeOK, PlansFirst
<1>2. LockInv'
  BY DEF IInv, PlanPapers, LockInv, PlansFirst
<1>3. CandidateInv'
  BY DEF IInv, PlanPapers, CandidateInv, Sound, Intact, PlansFirst
<1>4. PruneInv'
  BY DEF IInv, PlanPapers, PruneInv, PlansFirst
<1> QED
  BY <1>1, <1>2, <1>3, <1>4, FilesKept DEF IInv, PlanPapers, PlansFirst

(* The active generation is kept: the process just ends.                   *)
LEMMA ReuseActiveStep ==
    ASSUME IInv, NEW p \in Procs, ReuseActive(p)
    PROVE  IInv'
<1>1. TypeOK'
  BY WorldAssumption DEF IInv, ReuseActive, TypeOK, Exit, Released
<1> QED
  BY <1>1, FilesKept, ExitKeeps DEF IInv, ReuseActive

(* A fresh identity has no manifest yet, so nothing sound is overwritten.  *)
LEMMA BeginBuildStep ==
    ASSUME IInv, NEW p \in Procs, BeginBuild(p)
    PROVE  IInv'
<1> DEFINE s == Snapshot(p)
           m == NewManifest(s, World[world].embedding)
<1>1. s \in DOMAIN World
  BY DEF IInv, TypeOK, Snapshot
<1>2. PICK g \in Gens : /\ g \notin begun /\ begun' = begun \cup {g}
                        /\ manifest' = [manifest EXCEPT ![g] = m]
                        /\ gen' = [gen EXCEPT ![p] = g]
  BY DEF BeginBuild, Create, Fresh
<1>3. snap' = [snap EXCEPT ![p] = s]
  BY DEF BeginBuild
<1>4. /\ m \in Manifests /\ m # None
      /\ m.state = "building" /\ m.snap = s /\ m.rev = 0 /\ m.prev = None
  BY <1>1, NewManifestFacts DEF IInv
<1>5. \A q \in Procs : q # p => pc'[q] \notin Locked
  BY NobodyLocked DEF IInv, BeginBuild, Acquire
<1> HIDE DEF s, m
<1>6. TypeOK'
  BY <1>1, <1>2, <1>3, <1>4 DEF IInv, TypeOK, BeginBuild, Acquire
<1>7. LockInv'
  BY <1>5 DEF LockInv, BeginBuild, Acquire
<1>8. BegunInv' /\ ManifestInv'
  BY <1>2, <1>4 DEF IInv, BegunInv, ManifestInv, BeginBuild
<1>9. CandidateInv'
  BY <1>2, <1>3, <1>4, <1>5 DEF IInv, TypeOK, CandidateInv, BeginBuild
<1>10. PruneInv'
  BY <1>5 DEF IInv, TypeOK, PruneInv, BeginBuild
<1>11. PointerInv'
  BY <1>2, <1>4 DEF IInv, PointerInv, BegunInv, BeginBuild, Sound, Intact
<1> QED
  BY <1>6, <1>7, <1>8, <1>9, <1>10, <1>11 DEF IInv

(* Only latest-attempt.json is written.                                    *)
LEMMA AnnounceBeginStep ==
    ASSUME IInv, NEW p \in Procs, AnnounceBegin(p)
    PROVE  IInv'
<1>1. TypeOK'
  BY DEF IInv, AnnounceBegin, TypeOK, Announce, CandidateInv, Attempts
<1>2. LockInv'
  BY DEF IInv, AnnounceBegin, LockInv
<1>3. CandidateInv'
  BY DEF IInv, AnnounceBegin, CandidateInv, Sound, Intact
<1>4. PruneInv'
  BY DEF IInv, AnnounceBegin, PruneInv
<1> QED
  BY <1>1, <1>2, <1>3, <1>4, FilesKept DEF IInv, AnnounceBegin

(* The candidate is not sealed, so it is not what the pointer names.       *)
LEMMA CreateCollectionStep ==
    ASSUME IInv, NEW p \in Procs, CreateCollection(p)
    PROVE  IInv'
<1>1. TypeOK'
  BY DEF IInv, CreateCollection, TypeOK
<1>2. LockInv'
  BY DEF IInv, CreateCollection, LockInv
<1>3. BegunInv'
  BY DEF IInv, CreateCollection, BegunInv
<1>4. ManifestInv'
  BY DEF IInv, CreateCollection, ManifestInv
<1>5. CandidateInv'
  BY DEF IInv, CreateCollection, CandidateInv, LockInv, Sound, Intact
<1>6. PruneInv'
  BY DEF IInv, CreateCollection, PruneInv
<1>7. PointerInv'
  BY DEF IInv, CreateCollection, PointerInv, Sound, Intact, CandidateInv
<1> QED
  BY <1>1, <1>2, <1>3, <1>4, <1>5, <1>6, <1>7 DEF IInv

(* As above.                                                               *)
LEMMA FillStep ==
    ASSUME IInv, NEW p \in Procs, Fill(p)
    PROVE  IInv'
<1>1. TypeOK'
  BY DEF IInv, Fill, TypeOK
<1>2. LockInv'
  BY DEF IInv, Fill, LockInv
<1>3. BegunInv'
  BY DEF IInv, Fill, BegunInv
<1>4. ManifestInv'
  BY DEF IInv, Fill, ManifestInv
<1>5. CandidateInv'
  BY DEF IInv, TypeOK, Fill, CandidateInv, Sound, Intact
<1>6. PruneInv'
  BY DEF IInv, Fill, PruneInv
<1>7. PointerInv'
  BY DEF IInv, Fill, PointerInv, Sound, Intact
<1> QED
  BY <1>1, <1>2, <1>3, <1>4, <1>5, <1>6, <1>7 DEF IInv

(* What publish writes into the manifest of the candidate.                 *)
LEMMA SealWrites ==
    ASSUME IInv, NEW p \in Procs, Seal(p)
    PROVE  /\ gen[p] \in Gens /\ manifest[gen[p]] # None
           /\ manifest[gen[p]].state = "building"
           /\ \E m \in Manifests :
                /\ manifest' = [manifest EXCEPT ![gen[p]] = m]
                /\ m # None /\ m.state = "complete" /\ m.rev = 0
                /\ m.snap = snap[p] /\ m.prev = LoadActive
                /\ m.prev # None => m.prevPrint = SealedPrint
<1> DEFINE g == gen[p]
           m == [manifest[g] EXCEPT !.state = "complete", !.prev = LoadActive,
                    !.prevPrint = IF LoadActive = None THEN None ELSE SealedPrint]
<1>1. /\ g \in Gens /\ manifest[g] \in Manifests /\ manifest[g].state = "building"
      /\ manifest[g].snap = snap[p] /\ manifest[g].rev = 0
  BY DEF IInv, TypeOK, CandidateInv, Seal
<1>2. /\ LoadActive \in Gens \cup {None}
      /\ LoadActive \in Gens => Fingerprint(manifest[LoadActive]) = SealedPrint
  BY LoadActiveFacts DEF IInv, Seal
<1>3. manifest' = [manifest EXCEPT ![g] = m]
  <2>1. (IF LoadActive = None THEN None ELSE Fingerprint(manifest[LoadActive]))
           = IF LoadActive = None THEN None ELSE SealedPrint
    BY <1>2
  <2> QED
    BY <1>1, <2>1 DEF Seal, IInv
<1>4. /\ m \in Manifests /\ m.state = "complete" /\ m.snap = snap[p] /\ m.rev = 0
      /\ m.prev = LoadActive /\ (m.prev # None => m.prevPrint = SealedPrint)
  BY <1>1, <1>2 DEF Manifests
<1> HIDE DEF m
<1>5. m # None /\ manifest[g] # None
  BY <1>1, <1>4, RecordAssumption
<1> QED
  BY <1>1, <1>3, <1>4, <1>5

(* The candidate becomes sound before any pointer names it.                *)
LEMMA SealStep ==
    ASSUME IInv, NEW p \in Procs, Seal(p)
    PROVE  IInv'
<1> DEFINE g == gen[p]
<1>1. /\ g \in Gens /\ manifest[g] # None /\ manifest[g].state = "building"
      /\ World[snap[p]].complete /\ Intact(g)
  BY SealWrites DEF IInv, CandidateInv, Seal
<1>2. PICK m \in Manifests :
         /\ manifest' = [manifest EXCEPT ![g] = m]
         /\ m # None /\ m.state = "complete" /\ m.snap = snap[p] /\ m.rev = 0
         /\ m.prev # None => m.prevPrint = SealedPrint
  BY SealWrites
<1>3. TypeOK'
  <2>1. manifest' \in [Gens -> Manifests \cup {None}]
    BY <1>1, <1>2 DEF IInv, TypeOK
  <2> QED
    BY <2>1 DEF IInv, TypeOK, Seal
<1>4. LockInv' /\ PruneInv'
  BY DEF IInv, LockInv, PruneInv, Seal
<1>5. BegunInv'
  BY <1>1, <1>2 DEF IInv, TypeOK, BegunInv, Seal
<1>6. ManifestInv'
  <2>1. damage' = damage /\ \A h \in Gens : manifest'[h] = IF h = g THEN m ELSE manifest[h]
    BY <1>2 DEF IInv, TypeOK, Seal
  <2> QED
    BY <1>1, <1>2, <2>1 DEF IInv, ManifestInv
<1>7. CandidateInv'
  BY <1>1, <1>2 DEF IInv, TypeOK, CandidateInv, LockInv, Seal, Sound, Intact
<1>8. PointerInv'
  BY <1>1, <1>2 DEF IInv, TypeOK, PointerInv, Pointers, Seal, Sound, Intact
<1> QED
  BY <1>3, <1>4, <1>5, <1>6, <1>7, <1>8 DEF IInv

(* Only latest-attempt.json is written.                                    *)
LEMMA AnnounceSealedStep ==
    ASSUME IInv, NEW p \in Procs, AnnounceSealed(p)
    PROVE  IInv'
<1>1. TypeOK'
  BY DEF IInv, AnnounceSealed, TypeOK, Announce, CandidateInv, Attempts
<1>2. LockInv'
  BY DEF IInv, AnnounceSealed, LockInv
<1>3. CandidateInv'
  BY DEF IInv, AnnounceSealed, CandidateInv, Sound, Intact
<1>4. PruneInv'
  BY DEF IInv, AnnounceSealed, PruneInv
<1> QED
  BY <1>1, <1>2, <1>3, <1>4, FilesKept DEF IInv, AnnounceSealed

(* The pointer moves to a generation that is sound by CandidateInv.        *)
LEMMA ActivateStep ==
    ASSUME IInv, NEW p \in Procs, Activate(p)
    PROVE  IInv'
<1>1. TypeOK'
  BY DEF IInv, Activate, TypeOK, Pointers, SealedPrint, Switch, CandidateInv
<1>2. LockInv'
  BY DEF IInv, Activate, LockInv
<1>3. BegunInv'
  BY DEF IInv, Activate, BegunInv
<1>4. ManifestInv'
  BY DEF IInv, Activate, ManifestInv
<1>5. CandidateInv'
  BY DEF IInv, Activate, CandidateInv, Sound, Intact
<1>6. PruneInv'
  BY DEF IInv, Activate, PruneInv, LockInv, Switch
<1>7. PointerInv'
  BY RecordAssumption
  DEF IInv, Activate, PointerInv, Sound, Intact, CandidateInv, Switch, Pointers
<1> QED
  BY <1>1, <1>2, <1>3, <1>4, <1>5, <1>6, <1>7 DEF IInv

(* The process ends.                                                       *)
LEMMA EndBuildStep ==
    ASSUME IInv, NEW p \in Procs, EndBuild(p)
    PROVE  IInv'
<1>1. PICK c \in {"ok", "warning"} : Exit(p, c)
  BY DEF EndBuild
<1>2. TypeOK'
  BY <1>1, WorldAssumption DEF IInv, TypeOK, Exit, Released, EndBuild
<1> QED
  BY <1>1, <1>2, FilesKept, ExitKeeps DEF IInv, EndBuild

(***************************************************************************)
(* Exceptions in a build                                                   *)
(***************************************************************************)

(* Only control points and, for papers, the lock change.                   *)
LEMMA RaiseStep ==
    ASSUME IInv, NEW p \in Procs, Raise(p)
    PROVE  IInv'
<1>1. TypeOK'
  BY DEF IInv, Raise, TypeOK, Handle, Thrown
<1>2. LockInv'
  BY DEF IInv, TypeOK, Raise, LockInv, Handle, Thrown
<1>3. CandidateInv'
  BY DEF IInv, TypeOK, Raise, CandidateInv, Sound, Intact, Handle, Thrown
<1>4. PruneInv'
  BY DEF IInv, Raise, PruneInv, Handle, Thrown
<1> QED
  BY <1>1, <1>2, <1>3, <1>4, FilesKept DEF IInv, Raise

(* As above.                                                               *)
LEMMA RaiseEarlyStep ==
    ASSUME IInv, NEW p \in Procs, RaiseEarly(p)
    PROVE  IInv'
<1>1. TypeOK'
  BY DEF IInv, RaiseEarly, TypeOK, Acquire, Handle, MayStart, PlansFirst
<1>2. LockInv'
  BY ConfigAssumption DEF IInv, RaiseEarly, LockInv, Acquire, Handle, MayStart, PlansFirst
<1>3. CandidateInv'
  BY DEF IInv, RaiseEarly, CandidateInv, Sound, Intact, Handle, MayStart, PlansFirst
<1>4. PruneInv'
  BY DEF IInv, RaiseEarly, PruneInv, Handle, MayStart, PlansFirst
<1> QED
  BY <1>1, <1>2, <1>3, <1>4, FilesKept DEF IInv, RaiseEarly

(* As above.                                                               *)
LEMMA ReacquireStep ==
    ASSUME IInv, NEW p \in Procs, Reacquire(p)
    PROVE  IInv'
<1>1. TypeOK'
  BY DEF IInv, Reacquire, TypeOK, Acquire
<1>2. LockInv'
  BY ConfigAssumption DEF IInv, Reacquire, LockInv, Acquire
<1>3. CandidateInv'
  BY DEF IInv, Reacquire, CandidateInv, Sound, Intact
<1>4. PruneInv'
  BY DEF IInv, Reacquire, PruneInv
<1> QED
  BY <1>1, <1>2, <1>3, <1>4, FilesKept DEF IInv, Reacquire

(* The process ends.                                                       *)
LEMMA GiveUpStep ==
    ASSUME IInv, NEW p \in Procs, GiveUp(p)
    PROVE  IInv'
<1>1. TypeOK'
  BY WorldAssumption DEF IInv, GiveUp, TypeOK, Exit, Released, ExitCode
<1> QED
  BY <1>1, FilesKept, ExitKeeps DEF IInv, GiveUp

(* A generation for the failure record, as in BeginBuildStep.              *)
LEMMA BeginFailedStep ==
    ASSUME IInv, NEW p \in Procs, BeginFailed(p)
    PROVE  IInv'
<1> DEFINE m == NewManifest(snap[p], World[world].embedding)
<1>1. PICK g \in Gens : /\ g \notin begun /\ begun' = begun \cup {g}
                        /\ manifest' = [manifest EXCEPT ![g] = m]
                        /\ gen' = [gen EXCEPT ![p] = g]
  BY DEF BeginFailed, Create, Fresh
<1>2. /\ m \in Manifests /\ m # None
      /\ m.state = "building" /\ m.rev = 0 /\ m.prev = None
  BY NewManifestFacts DEF IInv, TypeOK
<1>3. \A q \in Procs : q # p => pc'[q] \notin Locked
  BY Alone DEF IInv, BeginFailed
<1> HIDE DEF m
<1>4. TypeOK'
  BY <1>1, <1>2 DEF IInv, TypeOK, BeginFailed
<1>5. LockInv'
  BY DEF IInv, LockInv, BeginFailed
<1>6. BegunInv' /\ ManifestInv'
  BY <1>1, <1>2 DEF IInv, BegunInv, ManifestInv, BeginFailed
<1>7. CandidateInv' /\ PruneInv'
  BY <1>1, <1>3 DEF IInv, TypeOK, CandidateInv, PruneInv, BeginFailed
<1>8. PointerInv'
  BY <1>1, <1>2 DEF IInv, PointerInv, BegunInv, BeginFailed, Sound, Intact
<1> QED
  BY <1>4, <1>5, <1>6, <1>7, <1>8 DEF IInv

(* Only latest-attempt.json is written.                                    *)
LEMMA AnnounceFailedStep ==
    ASSUME IInv, NEW p \in Procs, AnnounceFailed(p)
    PROVE  IInv'
<1>1. TypeOK'
  BY DEF IInv, AnnounceFailed, TypeOK, Announce, CandidateInv, Attempts
<1>2. LockInv'
  BY DEF IInv, AnnounceFailed, LockInv
<1>3. CandidateInv'
  BY DEF IInv, AnnounceFailed, CandidateInv, Sound, Intact
<1>4. PruneInv'
  BY DEF IInv, AnnounceFailed, PruneInv
<1> QED
  BY <1>1, <1>2, <1>3, <1>4, FilesKept DEF IInv, AnnounceFailed

(* What fail writes: only a manifest still building becomes failed.        *)
LEMMA FailWrites ==
    ASSUME IInv, NEW p \in Procs, Fail(p)
    PROVE  \/ UNCHANGED manifest
           \/ /\ gen[p] \in Gens /\ manifest[gen[p]] # None
              /\ manifest[gen[p]].state = "building"
              /\ \E m \in Manifests :
                   /\ manifest' = [manifest EXCEPT ![gen[p]] = m]
                   /\ m # None /\ m.state = "failed"
                   /\ m.snap = manifest[gen[p]].snap /\ m.rev = manifest[gen[p]].rev
                   /\ m.prev = manifest[gen[p]].prev
                   /\ m.prevPrint = manifest[gen[p]].prevPrint
<1> DEFINE g == gen[p]
           m == [manifest[g] EXCEPT !.state = "failed"]
<1>1. g \in Gens
  BY DEF IInv, TypeOK, Fail
<1>2. \/ UNCHANGED manifest
      \/ /\ manifest[g] \in Manifests /\ manifest[g].state = "building"
         /\ manifest' = [manifest EXCEPT ![g] = m]
  BY <1>1 DEF IInv, TypeOK, Fail, MustFail, Outcome, Unreadable
<1>3. manifest[g] \in Manifests =>
         /\ m \in Manifests /\ m.state = "failed"
         /\ m.snap = manifest[g].snap /\ m.rev = manifest[g].rev
         /\ m.prev = manifest[g].prev /\ m.prevPrint = manifest[g].prevPrint
  BY DEF Manifests
<1> QED
  BY <1>1, <1>2, <1>3, RecordAssumption

(* Sound generations are not touched.                                      *)
LEMMA FailStep ==
    ASSUME IInv, NEW p \in Procs, Fail(p)
    PROVE  IInv'
<1>1. code'[p] \in {"warning", "interrupted", "failed"}
  BY DEF IInv, TypeOK, Fail, ExitCode
<1>2. \A q \in Procs : q # p => pc'[q] \notin Locked
  BY Alone DEF IInv, Fail
<1>3. TypeOK'
  <2>1. manifest' \in [Gens -> Manifests \cup {None}]
    BY FailWrites DEF IInv, TypeOK
  <2> QED
    BY <1>1, <2>1 DEF IInv, TypeOK, Fail
<1>4. LockInv'
  BY DEF IInv, LockInv, Fail
<1>5. BegunInv' /\ ManifestInv'
  <2>1. \A h \in Gens : manifest'[h] # None =>
            /\ manifest[h] # None /\ manifest'[h].snap = manifest[h].snap
            /\ manifest'[h].prev = manifest[h].prev /\ manifest'[h].rev = manifest[h].rev
            /\ manifest'[h].prevPrint = manifest[h].prevPrint
            /\ manifest'[h].state = "complete" => manifest[h].state = "complete"
    BY FailWrites DEF IInv, TypeOK
  <2> QED
    BY <2>1 DEF IInv, BegunInv, ManifestInv, Fail
<1>6. CandidateInv' /\ PruneInv'
  BY <1>2 DEF IInv, TypeOK, CandidateInv, PruneInv, Fail
<1>7. PointerInv'
  <2>1. \A h \in Gens : manifest[h] # None /\ manifest[h].state = "complete" =>
            manifest'[h] = manifest[h]
    BY FailWrites DEF IInv, TypeOK
  <2> QED
    BY <2>1 DEF IInv, PointerInv, Pointers, Fail, Sound, Intact
<1> QED
  BY <1>3, <1>4, <1>5, <1>6, <1>7 DEF IInv

(* The process ends.                                                       *)
LEMMA RecordFailureStep ==
    ASSUME IInv, NEW p \in Procs, RecordFailure(p)
    PROVE  IInv'
<1>1. TypeOK'
  BY WorldAssumption
  DEF IInv, RecordFailure, TypeOK, Manifests, Exit, Announce, RecordEvent, Released,
      Unreadable, CandidateInv, Attempts
<1> QED
  BY <1>1, FilesKept, ExitKeeps DEF IInv, RecordFailure

(***************************************************************************)
(* Maintenance                                                             *)
(***************************************************************************)

(* The target was sealed, and rollback validates it before it moves the pointer.*)
LEMMA RollbackStep ==
    ASSUME IInv, NEW p \in Procs, Rollback(p)
    PROVE  IInv'
<1> DEFINE target == manifest[LoadActive].prev
<1>1. LoadActive \in Gens /\ manifest[LoadActive] # None
  BY ConfigAssumption DEF Rollback, LoadActive
<1>2. /\ target \in Gens /\ manifest[target] # None
      /\ Trusted(target, manifest[LoadActive].prevPrint)
  BY <1>1 DEF IInv, TypeOK, Manifests, Rollback, Trusted
<1>3. Fingerprint(manifest[target]) = SealedPrint /\ Sound(target)
  BY <1>1, <1>2
  DEF IInv, ManifestInv, Trusted, Rollback, Sound, Fingerprint, SealedPrint
<1>4. pointer' = [id |-> target, fp |-> SealedPrint] /\ gen' = [gen EXCEPT ![p] = target]
  BY <1>3 DEF Rollback, Switch
<1> HIDE DEF target
<1>5. TypeOK'
  BY <1>2, <1>4 DEF IInv, TypeOK, Rollback, Switch, Acquire, Pointers
<1>6. \A q \in Procs : q # p => pc'[q] \notin Locked
  BY NobodyLocked DEF IInv, Rollback, Acquire
<1>7. LockInv'
  BY <1>6 DEF LockInv, Rollback, Acquire
<1>8. BegunInv' /\ ManifestInv'
  BY DEF IInv, BegunInv, ManifestInv, Rollback
<1>9. CandidateInv'
  BY <1>2, <1>4, <1>6 DEF IInv, TypeOK, CandidateInv, Rollback
<1>10. PruneInv'
  BY <1>6 DEF IInv, PruneInv, Rollback
<1>11. PointerInv'
  BY <1>2, <1>3, <1>4, RecordAssumption
  DEF PointerInv, Pointers, Rollback, Sound, Intact
<1> QED
  BY <1>5, <1>7, <1>8, <1>9, <1>10, <1>11 DEF IInv

(* The target is validated; only the intent record is written.             *)
LEMMA RecoverIntentStep ==
    ASSUME IInv, NEW p \in Procs, RecoverIntent(p)
    PROVE  IInv'
<1>1. TypeOK'
  BY DEF IInv, RecoverIntent, TypeOK, Acquire, SealedPrint, Trusted, Fingerprint
<1>2. LockInv'
  BY ConfigAssumption
  DEF IInv, RecoverIntent, LockInv, Acquire, Trusted, Fingerprint, SealedPrint
<1>3. CandidateInv'
  BY DEF IInv, TypeOK, RecoverIntent, CandidateInv, Sound, Intact, Trusted, Fingerprint,
      SealedPrint
<1>4. PruneInv'
  BY DEF IInv, RecoverIntent, PruneInv, Trusted, Fingerprint, SealedPrint
<1> QED
  BY <1>1, <1>2, <1>3, <1>4, FilesKept DEF IInv, RecoverIntent

(* The pointer moves to a generation that is sound by CandidateInv.        *)
LEMMA RecoverStep ==
    ASSUME IInv, NEW p \in Procs, Recover(p)
    PROVE  IInv'
<1>1. TypeOK'
  BY DEF IInv, Recover, TypeOK, Pointers, SealedPrint, Switch, CandidateInv
<1>2. LockInv'
  BY DEF IInv, Recover, LockInv
<1>3. BegunInv'
  BY DEF IInv, Recover, BegunInv
<1>4. ManifestInv'
  BY DEF IInv, Recover, ManifestInv
<1>5. CandidateInv'
  BY DEF IInv, Recover, CandidateInv, Sound, Intact
<1>6. PruneInv'
  BY DEF IInv, Recover, PruneInv, LockInv
<1>7. PointerInv'
  BY RecordAssumption
  DEF IInv, Recover, PointerInv, Sound, Intact, Switch, Pointers, CandidateInv
<1> QED
  BY <1>1, <1>2, <1>3, <1>4, <1>5, <1>6, <1>7 DEF IInv

(* The process ends.                                                       *)
LEMMA EndMaintenanceStep ==
    ASSUME IInv, NEW p \in Procs, EndMaintenance(p)
    PROVE  IInv'
<1>1. TypeOK'
  BY WorldAssumption
  DEF IInv, EndMaintenance, TypeOK, Exit, Announce, RecordEvent, Released, CandidateInv,
      Attempts
<1> QED
  BY <1>1, FilesKept, ExitKeeps DEF IInv, EndMaintenance

(* The plan leaves out the generation the pointer names.                   *)
LEMMA PlanPruneStep ==
    ASSUME IInv, NEW p \in Procs, PlanPrune(p)
    PROVE  IInv'
<1>1. TypeOK'
  BY DEF IInv, PlanPrune, TypeOK, Acquire, Keep, LoadActive
<1>2. LockInv'
  BY ConfigAssumption DEF IInv, PlanPrune, LockInv, Acquire, Keep, LoadActive
<1>3. CandidateInv'
  BY DEF IInv, PlanPrune, CandidateInv, Sound, Intact, Keep, LoadActive
<1>4. PruneInv'
  BY ConfigAssumption
  DEF IInv, TypeOK, PlanPrune, PruneInv, CandidateInv, Keep, LoadActive
<1> QED
  BY <1>1, <1>2, <1>3, <1>4, FilesKept DEF IInv, PlanPrune

(* The pointer names nothing in the plan, by PruneInv.                     *)
LEMMA PruneCollectionStep ==
    ASSUME IInv, NEW p \in Procs, PruneCollection(p)
    PROVE  IInv'
<1>1. TypeOK'
  BY DEF IInv, PruneCollection, TypeOK, SealedPrint, PruneInv
<1>2. LockInv'
  BY DEF IInv, PruneCollection, LockInv
<1>3. BegunInv'
  BY DEF IInv, PruneCollection, BegunInv
<1>4. ManifestInv'
  BY DEF IInv, PruneCollection, ManifestInv
<1>5. CandidateInv'
  BY DEF IInv, PruneCollection, CandidateInv, LockInv, Sound, Intact
<1>6. PruneInv'
  BY DEF IInv, PruneCollection, PruneInv
<1>7. PointerInv'
  BY DEF IInv, PruneCollection, PointerInv, Sound, Intact, PruneInv
<1> QED
  BY <1>1, <1>2, <1>3, <1>4, <1>5, <1>6, <1>7 DEF IInv

(* As above.                                                               *)
LEMMA RemoveSomeStep ==
    ASSUME IInv, NEW p \in Procs, RemoveSome(p)
    PROVE  IInv'
<1>1. /\ gen[p] \in Gens /\ gen[p] \in doomed[p]
      /\ \A h \in Gens : h # gen[p] => UNCHANGED <<manifest[h], artifacts[h]>>
      /\ manifest'[gen[p]] \in {manifest[gen[p]], None}
  BY DEF IInv, TypeOK, PruneInv, RemoveSome
<1>2. \A q \in Procs : q # p => pc'[q] \notin Locked
  BY Alone DEF IInv, RemoveSome
<1>3. TypeOK'
  <2>1. manifest' \in [Gens -> Manifests \cup {None}]
    BY <1>1 DEF IInv, TypeOK, RemoveSome
  <2>2. artifacts' \in [Gens -> {"absent", "partial", "full"}]
    BY <1>1 DEF IInv, TypeOK, RemoveSome
  <2> QED
    BY <2>1, <2>2 DEF IInv, TypeOK, RemoveSome
<1>4. LockInv'
  BY DEF IInv, LockInv, RemoveSome
<1>5. BegunInv' /\ ManifestInv'
  BY <1>1 DEF IInv, BegunInv, ManifestInv, RemoveSome
<1>6. CandidateInv' /\ PruneInv'
  BY <1>2 DEF IInv, CandidateInv, PruneInv, RemoveSome
<1>7. PointerInv'
  BY <1>1 DEF IInv, PruneInv, PointerInv, Pointers, RemoveSome, Sound, Intact
<1> QED
  BY <1>3, <1>4, <1>5, <1>6, <1>7 DEF IInv

(* As above.                                                               *)
LEMMA RemoveRestStep ==
    ASSUME IInv, NEW p \in Procs, RemoveRest(p)
    PROVE  IInv'
<1>1. TypeOK'
  BY DEF IInv, RemoveRest, TypeOK, SealedPrint, PruneInv
<1>2. LockInv'
  BY DEF IInv, RemoveRest, LockInv
<1>3. BegunInv'
  BY DEF IInv, RemoveRest, BegunInv
<1>4. ManifestInv'
  BY DEF IInv, RemoveRest, ManifestInv
<1>5. CandidateInv'
  BY DEF IInv, RemoveRest, CandidateInv, LockInv, Sound, Intact
<1>6. PruneInv'
  BY DEF IInv, TypeOK, RemoveRest, PruneInv
<1>7. PointerInv'
  BY DEF IInv, RemoveRest, PointerInv, Sound, Intact, PruneInv
<1> QED
  BY <1>1, <1>2, <1>3, <1>4, <1>5, <1>6, <1>7 DEF IInv

(***************************************************************************)
(* The outside world                                                       *)
(***************************************************************************)

(* The process ends.                                                       *)
LEMMA CrashStep ==
    ASSUME IInv, NEW p \in Procs, Crash(p)
    PROVE  IInv'
<1>1. TypeOK'
  BY WorldAssumption DEF IInv, Crash, TypeOK, Exit, Released
<1> QED
  BY <1>1, FilesKept, ExitKeeps DEF IInv, Crash

(* Manifests refer to the snapshot of the library they were built from.    *)
LEMMA EditLibraryStep ==
    ASSUME IInv, EditLibrary
    PROVE  IInv'
<1>1. TypeOK'
  BY DEF IInv, TypeOK, EditLibrary
<1>2. LockInv' /\ CandidateInv' /\ PruneInv'
  BY DEF IInv, LockInv, CandidateInv, PruneInv, EditLibrary, Sound, Intact
<1> QED
  BY <1>1, <1>2, FilesKept DEF IInv, EditLibrary

(* The pointer no longer names anything.                                   *)
LEMMA DamagePointerStep ==
    ASSUME IInv, DamagePointer
    PROVE  IInv'
<1>1. TypeOK'
  BY DEF IInv, TypeOK, DamagePointer
<1>2. LockInv' /\ BegunInv' /\ ManifestInv' /\ CandidateInv'
  BY DEF IInv, LockInv, BegunInv, ManifestInv, CandidateInv, DamagePointer, Sound,
      Intact
<1>3. PruneInv' /\ PointerInv'
  BY RecordAssumption DEF IInv, PruneInv, PointerInv, DamagePointer
<1> QED
  BY <1>1, <1>2, <1>3 DEF IInv

(* What damage can do to a generation.                                     *)
LEMMA DamageWrites ==
    ASSUME IInv, NEW g \in Gens, DamageGeneration(g)
    PROVE  /\ \A h \in Gens : h # g => UNCHANGED <<manifest[h], collection[h], artifacts[h]>>
           /\ manifest[g] # None /\ manifest[g].state = "complete"
           /\ manifest'[g] \in Manifests /\ manifest'[g] # None
           /\ manifest'[g].snap = manifest[g].snap /\ manifest'[g].prev = manifest[g].prev
           /\ manifest'[g].prevPrint = manifest[g].prevPrint
<1>1. /\ manifest[g] \in Manifests /\ manifest[g].state = "complete"
      /\ \A h \in Gens : h # g => UNCHANGED <<manifest[h], collection[h], artifacts[h]>>
      /\ manifest'[g] \in {manifest[g], [manifest[g] EXCEPT !.rev = 1],
                           [manifest[g] EXCEPT !.state = "unreadable"]}
  BY DEF IInv, TypeOK, DamageGeneration
<1>2. /\ manifest'[g] \in Manifests
      /\ manifest'[g].snap = manifest[g].snap /\ manifest'[g].prev = manifest[g].prev
      /\ manifest'[g].prevPrint = manifest[g].prevPrint
  BY <1>1 DEF Manifests
<1> QED
  BY <1>1, <1>2, RecordAssumption

(* The damaged generation is in damage from now on.                        *)
LEMMA DamageGenerationStep ==
    ASSUME IInv, NEW g \in Gens, DamageGeneration(g)
    PROVE  IInv'
<1>1. TypeOK'
  <2>1. manifest' \in [Gens -> Manifests \cup {None}]
    BY DamageWrites DEF IInv, TypeOK, DamageGeneration
  <2> QED
    BY <2>1 DEF IInv, TypeOK, DamageGeneration
<1>2. LockInv' /\ PruneInv'
  BY DEF IInv, LockInv, PruneInv, DamageGeneration
<1>3. BegunInv' /\ ManifestInv'
  BY DamageWrites DEF IInv, BegunInv, ManifestInv, DamageGeneration
<1>4. CandidateInv'
  BY DamageWrites DEF IInv, CandidateInv, DamageGeneration, Sound, Intact
<1>5. PointerInv'
  BY DamageWrites DEF IInv, PointerInv, Pointers, DamageGeneration, Sound, Intact
<1> QED
  BY <1>1, <1>2, <1>3, <1>4, <1>5 DEF IInv

(***************************************************************************)
(* Every step keeps the invariant.                                         *)
(***************************************************************************)

(* No step of a build breaks the invariant.                                *)
LEMMA BuildKeeps ==
    ASSUME IInv, NEW p \in Procs, Build(p)
    PROVE  IInv'
BY ReuseActiveStep, BeginBuildStep, AnnounceBeginStep, CreateCollectionStep, FillStep,
   SealStep, AnnounceSealedStep, ActivateStep, EndBuildStep
DEF Build

(* No step of a failure handler breaks the invariant.                      *)
LEMMA HandlerKeeps ==
    ASSUME IInv, NEW p \in Procs, Handler(p)
    PROVE  IInv'
BY RaiseStep, RaiseEarlyStep, ReacquireStep, GiveUpStep, BeginFailedStep,
   AnnounceFailedStep, FailStep, RecordFailureStep
DEF Handler

(* No step of a maintenance command breaks the invariant.                  *)
LEMMA MaintenanceKeeps ==
    ASSUME IInv, NEW p \in Procs, Maintenance(p)
    PROVE  IInv'
BY RollbackStep, RecoverIntentStep, RecoverStep, EndMaintenanceStep, PlanPruneStep,
   PruneCollectionStep, RemoveSomeStep, RemoveRestStep
DEF Maintenance

(* A stutter changes nothing.                                              *)
LEMMA StutterKeeps ==
    ASSUME IInv, UNCHANGED vars
    PROVE  IInv'
<1>1. TypeOK'
  BY DEF IInv, TypeOK, vars
<1>2. LockInv' /\ CandidateInv' /\ PruneInv'
  BY DEF IInv, LockInv, CandidateInv, PruneInv, vars, Sound, Intact
<1> QED
  BY <1>1, <1>2, FilesKept DEF IInv, vars

(* No step breaks the invariant.                                           *)
LEMMA NextInvariant == IInv /\ [Next]_vars => IInv'
<1> SUFFICES ASSUME IInv, [Next]_vars PROVE IInv'
  OBVIOUS
<1>1. CASE \E p \in Procs : Process(p)
  BY <1>1, PlanPapersStep, BuildKeeps, HandlerKeeps, MaintenanceKeeps DEF Process
<1>2. CASE \E p \in Procs : Crash(p)
  BY <1>2, CrashStep
<1>3. CASE Environment
  BY <1>3, EditLibraryStep, DamagePointerStep, DamageGenerationStep DEF Environment
<1>4. CASE UNCHANGED vars
  BY <1>4, StutterKeeps
<1> QED
  BY <1>1, <1>2, <1>3, <1>4 DEF Next

(* The invariant holds in every state.                                     *)
THEOREM Invariance == Spec => []IInv
<1> QED
  BY InitInvariant, NextInvariant, PTL DEF Spec

(***************************************************************************)
(* The theorems                                                            *)
(***************************************************************************)

(* Whatever the processes, the library and the outside world do, every     *)
(* file and every process of GenerationStore stays in its domain.          *)
THEOREM TypeCorrect == Spec => []TypeOK
<1>1. IInv => TypeOK
  BY DEF IInv
<1> QED
  BY <1>1, Invariance, PTL

(* For any number of builders, maintenance commands, exceptions and        *)
(* crashes: as long as nothing outside the program touches it, the active  *)
(* generation (load_active) is sealed, whole, and of a complete library.   *)
THEOREM AlwaysServable == Spec => []ActiveServable
<1>1. ASSUME IInv PROVE ActiveServable
  <2>1. damage = {} => LoadActive # Garbled
    BY <1>1, ConfigAssumption
    DEF IInv, TypeOK, PointerInv, Sound, LoadActive, Pointers, Fingerprint, SealedPrint
  <2>2. ASSUME LoadActive \in Gens \ damage
        PROVE  Intact(LoadActive) /\ World[manifest[LoadActive].snap].complete
    BY <1>1, <2>2, LoadActiveFacts
    DEF IInv, PointerInv, ManifestInv, Sound
  <2> QED
    BY <2>1, <2>2 DEF ActiveServable
<1> QED
  BY <1>1, Invariance, PTL

(***************************************************************************)
(* What an observer of GenerationStore remembers: no attempt comes back to *)
(* latest-attempt.json, no process reports a commit that did not happen,   *)
(* sealed manifests stay, a recovery has kept the pointer it replaces, and *)
(* a prune deletes what nobody needs.                                      *)
(***************************************************************************)

(* latest-attempt.json names the newest attempt that was announced, and    *)
(* the attempt of a builder that holds the lock is the one it names.       *)
AttemptInv ==
    /\ latest = None => superseded = {}
    /\ latest # None => latest.id \in begun \ superseded
    /\ superseded \subseteq begun
    /\ \A p \in Procs : gen[p] \in begun \cup {None} /\ doomed[p] \subseteq begun
    /\ \A p \in Procs : pc[p] \in {"beginning", "rebeginning"} =>
         gen[p] \notin superseded /\ (latest # None => latest.id # gen[p])
    /\ \A p \in Procs : pc[p] \in {"begun", "filling", "filled", "sealed"} =>
         latest # None /\ latest.id = gen[p]

(* Whoever says that a generation was published has seen the pointer name  *)
(* it, or has replaced the pointer himself.                                *)
OutcomeInv ==
    /\ pointer \in Pointers => pointer.id \in committed
    /\ \A p \in Procs :
        /\ pc[p] = "activated" \/ err[p] = "published" \/ code[p] = "warning"
             => gen[p] \in committed
        /\ pc[p] \notin {"unlocked", "handling", "rebeginning", "recording"}
             => err[p] = "none"
        /\ pc[p] # "recording" => code[p] = "none"
    /\ NoFalseSuccess

(* The pointer a recovery compares with is the one its intent record has.  *)
OriginalInv ==
    \A p \in Procs : pc[p] = "recovering" => original[p] \in preserved

(* While a prune runs, nothing it must keep comes to be in its list.       *)
KeepInv ==
    \A p \in Procs : pc[p] = "pruning" =>
        /\ latest # None => latest.id \notin doomed[p]
        /\ pointer \in Pointers /\ manifest[pointer.id] # None
             => manifest[pointer.id].prev \notin doomed[p]

HInv == AttemptInv /\ OutcomeInv /\ OriginalInv /\ KeepInv

(* An attempt that is announced takes the place of the one announced last. *)
LEMMA Announced ==
    ASSUME AttemptInv, NEW g \in Gens, g \in begun \ superseded,
           NEW s \in {"building", "complete"}, Announce(g, s)
    PROVE  /\ latest' # None /\ latest'.id = g
           /\ g \notin superseded' /\ superseded' \subseteq begun
<1>1. [id |-> g, state |-> s] \in Attempts
  BY DEF Attempts
<1> QED
  BY <1>1, RecordAssumption DEF AttemptInv, Announce

(* A late recorder either changes nothing or repeats the attempt named.    *)
LEMMA EventRecorded ==
    ASSUME AttemptInv, NEW g \in Gens, g \in begun,
           NEW s \in {"building", "complete", "failed"}, RecordEvent(g, s)
    PROVE  /\ latest' = None => superseded' = {}
           /\ latest' # None => latest'.id \in begun \ superseded
           /\ superseded' = superseded
<1>1. [id |-> g, state |-> s] \in Attempts
  BY DEF Attempts
<1> QED
  BY <1>1, RecordAssumption DEF AttemptInv, RecordEvent, Announce

(* A plan changes no file and tells nobody anything.                       *)
LEMMA PlanPapersHistory ==
    ASSUME IInv, HInv, NEW p \in Procs, PlanPapers(p)
    PROVE  HInv'
<1>1. AttemptInv'
  BY DEF IInv, HInv, AttemptInv, PlanPapers, PlansFirst
<1>2. OutcomeInv'
  BY DEF IInv, HInv, OutcomeInv, NoFalseSuccess, PlanPapers, PlansFirst
<1>3. OriginalInv'
  BY DEF IInv, HInv, OriginalInv, PlanPapers, PlansFirst
<1>4. KeepInv'
  BY DEF IInv, HInv, KeepInv, PlanPapers, PlansFirst
<1> QED
  BY <1>1, <1>2, <1>3, <1>4 DEF HInv

(* A new generation was never an attempt before.                           *)
LEMMA BeginBuildHistory ==
    ASSUME IInv, HInv, NEW p \in Procs, BeginBuild(p)
    PROVE  HInv'
<1>1. AttemptInv'
  BY DEF IInv, TypeOK, HInv, AttemptInv, BeginBuild, Create, Fresh
<1>2. OutcomeInv'
  <2>1. err[p] = "none" /\ code[p] = "none"
    BY DEF HInv, OutcomeInv, BeginBuild, MayStart, PlansFirst
  <2>2. /\ UNCHANGED <<pointer, committed, err, code, told>>
        /\ pc'[p] = "beginning"
        /\ \A q \in Procs : q # p => pc'[q] = pc[q] /\ gen'[q] = gen[q]
    BY DEF IInv, TypeOK, BeginBuild
  <2> QED
    BY <2>1, <2>2 DEF HInv, OutcomeInv, NoFalseSuccess
<1>3. OriginalInv'
  BY DEF IInv, HInv, OriginalInv, BeginBuild
<1>4. KeepInv'
  <2>1. \A q \in Procs : pc'[q] # "pruning"
    BY NobodyLocked DEF IInv, BeginBuild, Acquire
  <2> QED
    BY <2>1 DEF KeepInv
<1> QED
  BY <1>1, <1>2, <1>3, <1>4 DEF HInv

(* A build announces an identity drawn after all that came before.         *)
LEMMA AnnounceBeginHistory ==
    ASSUME IInv, HInv, NEW p \in Procs, AnnounceBegin(p)
    PROVE  HInv'
<1>1. AttemptInv'
  <2>1. /\ gen[p] \in Gens /\ gen[p] \in begun \ superseded
        /\ Announce(gen[p], "building") /\ begun' = begun
    BY ConfigAssumption DEF IInv, CandidateInv, HInv, AttemptInv, AnnounceBegin
  <2>2. \A q \in Procs : q # p => pc'[q] \notin Locked
    BY Alone DEF IInv, AnnounceBegin
  <2>3. latest' # None /\ latest'.id = gen[p]
        /\ gen[p] \notin superseded' /\ superseded' \subseteq begun
    BY <2>1, Announced DEF HInv
  <2> QED
    BY <2>1, <2>2, <2>3 DEF IInv, TypeOK, HInv, AttemptInv, AnnounceBegin
<1>2. OutcomeInv'
  BY DEF IInv, HInv, OutcomeInv, NoFalseSuccess, AnnounceBegin
<1>3. OriginalInv'
  BY DEF IInv, HInv, OriginalInv, AnnounceBegin
<1>4. KeepInv'
  BY DEF IInv, LockInv, HInv, KeepInv, AnnounceBegin
<1> QED
  BY <1>1, <1>2, <1>3, <1>4 DEF HInv

(* Filling a collection is no attempt and no outcome.                      *)
LEMMA CreateCollectionHistory ==
    ASSUME IInv, HInv, NEW p \in Procs, CreateCollection(p)
    PROVE  HInv'
<1>1. AttemptInv'
  BY DEF IInv, HInv, AttemptInv, CreateCollection
<1>2. OutcomeInv'
  BY DEF IInv, HInv, OutcomeInv, NoFalseSuccess, CreateCollection
<1>3. OriginalInv'
  BY DEF IInv, HInv, OriginalInv, CreateCollection
<1>4. KeepInv'
  BY DEF IInv, HInv, KeepInv, CreateCollection
<1> QED
  BY <1>1, <1>2, <1>3, <1>4 DEF HInv

(* Filling a collection is no attempt and no outcome.                      *)
LEMMA FillHistory ==
    ASSUME IInv, HInv, NEW p \in Procs, Fill(p)
    PROVE  HInv'
<1>1. AttemptInv'
  BY DEF IInv, HInv, AttemptInv, Fill
<1>2. OutcomeInv'
  BY DEF IInv, HInv, OutcomeInv, NoFalseSuccess, Fill
<1>3. OriginalInv'
  BY DEF IInv, HInv, OriginalInv, Fill
<1>4. KeepInv'
  BY DEF IInv, HInv, KeepInv, Fill
<1> QED
  BY <1>1, <1>2, <1>3, <1>4 DEF HInv

(* Sealing a manifest is no outcome, and no prune runs meanwhile.          *)
LEMMA SealHistory ==
    ASSUME IInv, HInv, NEW p \in Procs, Seal(p)
    PROVE  HInv'
<1>1. AttemptInv'
  BY DEF IInv, HInv, AttemptInv, Seal
<1>2. OutcomeInv'
  BY DEF IInv, HInv, OutcomeInv, NoFalseSuccess, Seal
<1>3. OriginalInv'
  BY DEF IInv, HInv, OriginalInv, Seal
<1>4. KeepInv'
  BY DEF IInv, LockInv, CandidateInv, HInv, KeepInv, Seal
<1> QED
  BY <1>1, <1>2, <1>3, <1>4 DEF HInv

(* A sealed build announces the attempt it has announced before.           *)
LEMMA AnnounceSealedHistory ==
    ASSUME IInv, HInv, NEW p \in Procs, AnnounceSealed(p)
    PROVE  HInv'
<1>1. AttemptInv'
  <2>1. /\ gen[p] \in Gens /\ gen[p] \in begun \ superseded
        /\ Announce(gen[p], "complete") /\ begun' = begun
    BY DEF IInv, CandidateInv, HInv, AttemptInv, AnnounceSealed
  <2>2. \A q \in Procs : q # p => pc'[q] \notin Locked
    BY Alone DEF IInv, AnnounceSealed
  <2>3. latest' # None /\ latest'.id = gen[p]
        /\ gen[p] \notin superseded' /\ superseded' \subseteq begun
    BY <2>1, Announced DEF HInv
  <2> QED
    BY <2>1, <2>2, <2>3 DEF IInv, HInv, AttemptInv, AnnounceSealed
<1>2. OutcomeInv'
  BY DEF IInv, HInv, OutcomeInv, NoFalseSuccess, AnnounceSealed
<1>3. OriginalInv'
  BY DEF IInv, HInv, OriginalInv, AnnounceSealed
<1>4. KeepInv'
  BY DEF IInv, LockInv, HInv, KeepInv, AnnounceSealed
<1> QED
  BY <1>1, <1>2, <1>3, <1>4 DEF HInv

(* The generation made active is committed from here on.                   *)
LEMMA ActivateHistory ==
    ASSUME IInv, HInv, NEW p \in Procs, Activate(p)
    PROVE  HInv'
<1>1. AttemptInv'
  BY DEF IInv, HInv, AttemptInv, Activate
<1>2. OutcomeInv'
  BY DEF IInv, HInv, OutcomeInv, NoFalseSuccess, Activate, Switch
<1>3. OriginalInv'
  BY DEF IInv, HInv, OriginalInv, Activate
<1>4. KeepInv'
  BY DEF IInv, LockInv, HInv, KeepInv, Activate
<1> QED
  BY <1>1, <1>2, <1>3, <1>4 DEF HInv

(* A build that ends has made its generation active.                       *)
LEMMA EndBuildHistory ==
    ASSUME IInv, HInv, NEW p \in Procs, EndBuild(p)
    PROVE  HInv'
<1>1. AttemptInv'
  BY DEF IInv, HInv, AttemptInv, EndBuild, Exit
<1>2. OutcomeInv'
  BY DEF IInv, TypeOK, HInv, OutcomeInv, NoFalseSuccess, EndBuild, Exit
<1>3. OriginalInv'
  BY DEF IInv, HInv, OriginalInv, EndBuild, Exit
<1>4. KeepInv'
  BY DEF IInv, HInv, KeepInv, EndBuild, Exit
<1> QED
  BY <1>1, <1>2, <1>3, <1>4 DEF HInv

(* A build that reuses the active generation says nothing of its own.      *)
LEMMA ReuseActiveHistory ==
    ASSUME IInv, HInv, NEW p \in Procs, ReuseActive(p)
    PROVE  HInv'
<1>1. AttemptInv'
  BY DEF IInv, TypeOK, HInv, AttemptInv, ReuseActive, Exit
<1>2. OutcomeInv'
  BY DEF IInv, TypeOK, HInv, OutcomeInv, NoFalseSuccess, ReuseActive, Exit
<1>3. OriginalInv'
  BY DEF IInv, TypeOK, HInv, OriginalInv, ReuseActive, Exit
<1>4. KeepInv'
  BY DEF IInv, HInv, KeepInv, ReuseActive, Exit
<1> QED
  BY <1>1, <1>2, <1>3, <1>4 DEF HInv

(* An exception is taken for a commit only when the pointer says so.       *)
LEMMA RaiseHistory ==
    ASSUME IInv, HInv, NEW p \in Procs, Raise(p)
    PROVE  HInv'
<1>1. AttemptInv'
  BY DEF IInv, TypeOK, HInv, AttemptInv, Raise, Handle
<1>2. OutcomeInv'
  BY DEF IInv, TypeOK, HInv, OutcomeInv, NoFalseSuccess, Raise, Handle, Thrown
<1>3. OriginalInv'
  BY DEF IInv, HInv, OriginalInv, Raise, Handle
<1>4. KeepInv'
  BY DEF IInv, HInv, KeepInv, Raise, Handle
<1> QED
  BY <1>1, <1>2, <1>3, <1>4 DEF HInv

(* An exception before the lock concerns no generation.                    *)
LEMMA RaiseEarlyHistory ==
    ASSUME IInv, HInv, NEW p \in Procs, RaiseEarly(p)
    PROVE  HInv'
<1>1. AttemptInv'
  BY DEF IInv, HInv, AttemptInv, RaiseEarly, Handle
<1>2. OutcomeInv'
  BY DEF IInv, TypeOK, HInv, OutcomeInv, NoFalseSuccess, RaiseEarly, Handle, MayStart, PlansFirst
<1>3. OriginalInv'
  BY DEF IInv, HInv, OriginalInv, RaiseEarly, Handle
<1>4. KeepInv'
  BY DEF IInv, HInv, KeepInv, RaiseEarly, Handle
<1> QED
  BY <1>1, <1>2, <1>3, <1>4 DEF HInv

(* The recorder takes the lock with what it was told.                      *)
LEMMA ReacquireHistory ==
    ASSUME IInv, HInv, NEW p \in Procs, Reacquire(p)
    PROVE  HInv'
<1>1. AttemptInv'
  BY DEF IInv, HInv, AttemptInv, Reacquire
<1>2. OutcomeInv'
  BY DEF IInv, HInv, OutcomeInv, NoFalseSuccess, Reacquire
<1>3. OriginalInv'
  BY DEF IInv, HInv, OriginalInv, Reacquire
<1>4. KeepInv'
  BY DEF IInv, HInv, KeepInv, Reacquire
<1> QED
  BY <1>1, <1>2, <1>3, <1>4 DEF HInv

(* A recorder without the lock claims no commit that it cannot know.       *)
LEMMA GiveUpHistory ==
    ASSUME IInv, HInv, NEW p \in Procs, GiveUp(p)
    PROVE  HInv'
<1>1. AttemptInv'
  BY DEF IInv, TypeOK, HInv, AttemptInv, GiveUp, Exit
<1>2. OutcomeInv'
  BY DEF IInv, TypeOK, HInv, OutcomeInv, NoFalseSuccess, GiveUp, Exit, ExitCode
<1>3. OriginalInv'
  BY DEF IInv, TypeOK, HInv, OriginalInv, GiveUp, Exit
<1>4. KeepInv'
  BY DEF IInv, HInv, KeepInv, GiveUp, Exit
<1> QED
  BY <1>1, <1>2, <1>3, <1>4 DEF HInv

(* A generation begun to be failed was never an attempt before.            *)
LEMMA BeginFailedHistory ==
    ASSUME IInv, HInv, NEW p \in Procs, BeginFailed(p)
    PROVE  HInv'
<1>1. AttemptInv'
  BY DEF IInv, TypeOK, HInv, AttemptInv, BeginFailed, Create, Fresh
<1>2. OutcomeInv'
  BY ConfigAssumption DEF IInv, TypeOK, HInv, OutcomeInv, NoFalseSuccess, BeginFailed
<1>3. OriginalInv'
  BY DEF IInv, HInv, OriginalInv, BeginFailed
<1>4. KeepInv'
  BY DEF IInv, LockInv, HInv, KeepInv, BeginFailed
<1> QED
  BY <1>1, <1>2, <1>3, <1>4 DEF HInv

(* A failed plan announces an identity drawn after all before.             *)
LEMMA AnnounceFailedHistory ==
    ASSUME IInv, HInv, NEW p \in Procs, AnnounceFailed(p)
    PROVE  HInv'
<1>1. AttemptInv'
  <2>1. /\ gen[p] \in Gens /\ gen[p] \in begun \ superseded
        /\ Announce(gen[p], "building") /\ begun' = begun
    BY ConfigAssumption DEF IInv, CandidateInv, HInv, AttemptInv, AnnounceFailed
  <2>2. \A q \in Procs : q # p => pc'[q] \notin Locked
    BY Alone DEF IInv, AnnounceFailed
  <2>3. latest' # None /\ latest'.id = gen[p]
        /\ gen[p] \notin superseded' /\ superseded' \subseteq begun
    BY <2>1, Announced DEF HInv
  <2> QED
    BY <2>1, <2>2, <2>3 DEF IInv, TypeOK, HInv, AttemptInv, AnnounceFailed
<1>2. OutcomeInv'
  BY DEF IInv, HInv, OutcomeInv, NoFalseSuccess, AnnounceFailed
<1>3. OriginalInv'
  BY DEF IInv, HInv, OriginalInv, AnnounceFailed
<1>4. KeepInv'
  BY DEF IInv, LockInv, HInv, KeepInv, AnnounceFailed
<1> QED
  BY <1>1, <1>2, <1>3, <1>4 DEF HInv

(* What the recorder finds committed has been committed.                   *)
LEMMA FailHistory ==
    ASSUME IInv, HInv, NEW p \in Procs, Fail(p)
    PROVE  HInv'
<1>1. AttemptInv'
  BY DEF IInv, HInv, AttemptInv, Fail, Outcome
<1>2. OutcomeInv'
  BY LoadActiveFacts
  DEF IInv, TypeOK, HInv, OutcomeInv, NoFalseSuccess, Fail, ExitCode, Outcome,
      PublicationState
<1>3. OriginalInv'
  BY DEF IInv, HInv, OriginalInv, Fail, Outcome
<1>4. KeepInv'
  BY DEF IInv, LockInv, HInv, KeepInv, Fail
<1> QED
  BY <1>1, <1>2, <1>3, <1>4 DEF HInv

(* The recorder leaves the attempt of a newer build alone.                 *)
LEMMA RecordFailureHistory ==
    ASSUME IInv, HInv, NEW p \in Procs, RecordFailure(p)
    PROVE  HInv'
<1>1. AttemptInv'
  <2>1. \/ UNCHANGED <<latest, superseded>>
        \/ /\ gen[p] \in Gens /\ gen[p] \in begun
           /\ \E s \in {"building", "complete", "failed"} : RecordEvent(gen[p], s)
    BY ConfigAssumption
    DEF IInv, CandidateInv, HInv, AttemptInv, TypeOK, Manifests, Unreadable,
        RecordFailure
  <2>2. \A q \in Procs : q # p => pc'[q] \notin Locked
    BY Alone DEF IInv, RecordFailure, Exit
  <2>3. begun' = begun /\ pc'[p] = "idle" /\ gen'[p] = None /\ doomed'[p] = {}
        /\ \A q \in Procs : q # p => gen'[q] = gen[q] /\ doomed'[q] = doomed[q]
    BY DEF IInv, TypeOK, RecordFailure, Exit
  <2>4. /\ latest' = None => superseded' = {}
        /\ latest' # None => latest'.id \in begun' \ superseded'
        /\ superseded' = superseded
    BY <2>1, <2>3, EventRecorded DEF HInv, AttemptInv
  <2> QED
    BY <2>2, <2>3, <2>4 DEF HInv, AttemptInv
<1>2. OutcomeInv'
  BY DEF IInv, TypeOK, HInv, OutcomeInv, NoFalseSuccess, RecordFailure, RecordEvent,
      Announce, Exit
<1>3. OriginalInv'
  BY DEF IInv, HInv, OriginalInv, RecordFailure, RecordEvent, Announce, Exit
<1>4. KeepInv'
  BY DEF IInv, LockInv, HInv, KeepInv, RecordFailure, Exit
<1> QED
  BY <1>1, <1>2, <1>3, <1>4 DEF HInv

(* A rollback switches to a generation that was active once.               *)
LEMMA RollbackHistory ==
    ASSUME IInv, HInv, NEW p \in Procs, Rollback(p)
    PROVE  HInv'
<1>1. AttemptInv'
  <2>1. gen'[p] \in begun /\ \A q \in Procs : q # p => gen'[q] = gen[q]
    BY LoadActiveFacts DEF IInv, TypeOK, Manifests, BegunInv, Trusted, Rollback
  <2> QED
    BY <2>1 DEF IInv, HInv, AttemptInv, Rollback
<1>2. OutcomeInv'
  BY DEF IInv, HInv, OutcomeInv, NoFalseSuccess, Rollback, Switch
<1>3. OriginalInv'
  BY DEF IInv, HInv, OriginalInv, Rollback
<1>4. KeepInv'
  <2>1. \A q \in Procs : pc'[q] # "pruning"
    BY NobodyLocked DEF IInv, Rollback, Acquire
  <2> QED
    BY <2>1 DEF KeepInv
<1> QED
  BY <1>1, <1>2, <1>3, <1>4 DEF HInv

(* The pointer read first is the one the intent record keeps.              *)
LEMMA RecoverIntentHistory ==
    ASSUME IInv, HInv, NEW p \in Procs, RecoverIntent(p)
    PROVE  HInv'
<1>1. AttemptInv'
  BY DEF IInv, HInv, AttemptInv, RecoverIntent, BegunInv, Trusted
<1>2. OutcomeInv'
  BY DEF IInv, HInv, OutcomeInv, NoFalseSuccess, RecoverIntent, BegunInv, Trusted
<1>3. OriginalInv'
  BY DEF IInv, TypeOK, HInv, OriginalInv, RecoverIntent, BegunInv, Trusted
<1>4. KeepInv'
  BY DEF IInv, HInv, KeepInv, RecoverIntent
<1> QED
  BY <1>1, <1>2, <1>3, <1>4 DEF HInv

(* A recovery makes a generation active that it then records.              *)
LEMMA RecoverHistory ==
    ASSUME IInv, HInv, NEW p \in Procs, Recover(p)
    PROVE  HInv'
<1>1. AttemptInv'
  BY DEF IInv, HInv, AttemptInv, Recover
<1>2. OutcomeInv'
  BY DEF IInv, HInv, OutcomeInv, NoFalseSuccess, Recover, Switch
<1>3. OriginalInv'
  BY DEF IInv, HInv, OriginalInv, Recover
<1>4. KeepInv'
  BY DEF IInv, LockInv, HInv, KeepInv, Recover
<1> QED
  BY <1>1, <1>2, <1>3, <1>4 DEF HInv

(* A maintenance command repeats the attempt named or says nothing.        *)
LEMMA EndMaintenanceHistory ==
    ASSUME IInv, HInv, NEW p \in Procs, EndMaintenance(p)
    PROVE  HInv'
<1>1. AttemptInv'
  <2>1. \/ UNCHANGED <<latest, superseded>>
        \/ /\ gen[p] \in Gens /\ gen[p] \in begun
           /\ \E s \in {"building", "complete", "failed"} : RecordEvent(gen[p], s)
    BY ConfigAssumption
    DEF IInv, CandidateInv, HInv, AttemptInv, Manifests, Unreadable, EndMaintenance
  <2>2. \A q \in Procs : q # p => pc'[q] \notin Locked
    BY Alone DEF IInv, EndMaintenance, Exit
  <2>3. begun' = begun /\ pc'[p] = "idle" /\ gen'[p] = None /\ doomed'[p] = {}
        /\ \A q \in Procs : q # p => gen'[q] = gen[q] /\ doomed'[q] = doomed[q]
    BY DEF IInv, TypeOK, EndMaintenance, Exit
  <2>4. /\ latest' = None => superseded' = {}
        /\ latest' # None => latest'.id \in begun' \ superseded'
        /\ superseded' = superseded
    BY <2>1, <2>3, EventRecorded DEF HInv, AttemptInv
  <2> QED
    BY <2>2, <2>3, <2>4 DEF HInv, AttemptInv
<1>2. OutcomeInv'
  BY DEF IInv, HInv, OutcomeInv, NoFalseSuccess, EndMaintenance, RecordEvent, Announce,
      Exit
<1>3. OriginalInv'
  BY DEF IInv, TypeOK, HInv, OriginalInv, EndMaintenance, RecordEvent, Announce, Exit
<1>4. KeepInv'
  BY DEF IInv, LockInv, HInv, KeepInv, EndMaintenance, Exit
<1> QED
  BY <1>1, <1>2, <1>3, <1>4 DEF HInv

(* The list of a prune leaves out what it must keep.                       *)
LEMMA PlanPruneHistory ==
    ASSUME IInv, HInv, NEW p \in Procs, PlanPrune(p)
    PROVE  HInv'
<1>1. AttemptInv'
  BY DEF IInv, HInv, AttemptInv, PlanPrune, BegunInv
<1>2. OutcomeInv'
  BY DEF IInv, HInv, OutcomeInv, NoFalseSuccess, PlanPrune, BegunInv
<1>3. OriginalInv'
  BY DEF IInv, HInv, OriginalInv, PlanPrune, BegunInv
<1>4. KeepInv'
  <2>1. LoadActive \in Gens /\ pointer \in Pointers /\ pointer.id = LoadActive
    BY LoadActiveFacts DEF IInv, PlanPrune
  <2>2. /\ pc'[p] = "pruning" /\ doomed'[p] \cap Keep = {}
        /\ \A q \in Procs : q # p => pc'[q] = pc[q] /\ doomed'[q] = doomed[q]
    BY DEF IInv, TypeOK, PlanPrune
  <2> QED
    BY <2>1, <2>2 DEF HInv, KeepInv, Keep, PlanPrune
<1> QED
  BY <1>1, <1>2, <1>3, <1>4 DEF HInv

(* A prune does not touch what it must keep.                               *)
LEMMA PruneCollectionHistory ==
    ASSUME IInv, HInv, NEW p \in Procs, PruneCollection(p)
    PROVE  HInv'
<1>1. AttemptInv'
  BY DEF IInv, HInv, AttemptInv, PruneCollection
<1>2. OutcomeInv'
  BY DEF IInv, HInv, OutcomeInv, NoFalseSuccess, PruneCollection
<1>3. OriginalInv'
  BY DEF IInv, HInv, OriginalInv, PruneCollection
<1>4. KeepInv'
  BY DEF IInv, HInv, KeepInv, PruneCollection
<1> QED
  BY <1>1, <1>2, <1>3, <1>4 DEF HInv

(* A prune does not touch what it must keep.                               *)
LEMMA RemoveSomeHistory ==
    ASSUME IInv, HInv, NEW p \in Procs, RemoveSome(p)
    PROVE  HInv'
<1>1. AttemptInv'
  BY DEF IInv, HInv, AttemptInv, RemoveSome
<1>2. OutcomeInv'
  BY DEF IInv, HInv, OutcomeInv, NoFalseSuccess, RemoveSome
<1>3. OriginalInv'
  BY DEF IInv, HInv, OriginalInv, RemoveSome
<1>4. KeepInv'
  BY DEF IInv, TypeOK, HInv, KeepInv, Pointers, RemoveSome
<1> QED
  BY <1>1, <1>2, <1>3, <1>4 DEF HInv

(* A prune does not touch what it must keep.                               *)
LEMMA RemoveRestHistory ==
    ASSUME IInv, HInv, NEW p \in Procs, RemoveRest(p)
    PROVE  HInv'
<1>1. AttemptInv'
  BY DEF IInv, HInv, AttemptInv, RemoveRest
<1>2. OutcomeInv'
  BY DEF IInv, HInv, OutcomeInv, NoFalseSuccess, RemoveRest
<1>3. OriginalInv'
  BY DEF IInv, HInv, OriginalInv, RemoveRest
<1>4. KeepInv'
  BY DEF IInv, HInv, KeepInv, RemoveRest
<1> QED
  BY <1>1, <1>2, <1>3, <1>4 DEF HInv

(* A process that dies tells nobody anything.                              *)
LEMMA CrashHistory ==
    ASSUME IInv, HInv, NEW p \in Procs, Crash(p)
    PROVE  HInv'
<1>1. AttemptInv'
  BY DEF IInv, TypeOK, HInv, AttemptInv, Crash, Exit
<1>2. OutcomeInv'
  BY DEF IInv, TypeOK, HInv, OutcomeInv, NoFalseSuccess, Crash, Exit
<1>3. OriginalInv'
  BY DEF IInv, TypeOK, HInv, OriginalInv, Crash, Exit
<1>4. KeepInv'
  BY DEF IInv, HInv, KeepInv, Crash, Exit
<1> QED
  BY <1>1, <1>2, <1>3, <1>4 DEF HInv

(* Damage from outside moves no attempt and no commit.                     *)
LEMMA EnvironmentHistory ==
    ASSUME IInv, HInv, Environment
    PROVE  HInv'
<1>1. CASE EditLibrary
  BY <1>1
  DEF HInv, AttemptInv, OutcomeInv, NoFalseSuccess, OriginalInv, KeepInv, EditLibrary
<1>2. CASE DamagePointer
  BY <1>2, RecordAssumption
  DEF HInv, AttemptInv, OutcomeInv, NoFalseSuccess, OriginalInv, KeepInv, DamagePointer
<1>3. ASSUME NEW g \in Gens, DamageGeneration(g) PROVE HInv'
  <2>1. \A h \in Gens : manifest'[h] # None =>
            manifest[h] # None /\ manifest'[h].prev = manifest[h].prev
    BY <1>3 DEF IInv, TypeOK, Manifests, DamageGeneration
  <2>2. UNCHANGED <<pointer, latest, preserved, procs, begun, committed, superseded, told>>
    BY <1>3 DEF DamageGeneration
  <2> QED
    BY <2>1, <2>2
    DEF HInv, AttemptInv, OutcomeInv, NoFalseSuccess, OriginalInv, KeepInv, Pointers
<1> QED
  BY <1>1, <1>2, <1>3 DEF Environment

(* No step breaks the invariant.                                           *)
LEMMA NextHistory == IInv /\ HInv /\ [Next]_vars => HInv'
<1> SUFFICES ASSUME IInv, HInv, [Next]_vars PROVE HInv'
  OBVIOUS
<1>1. ASSUME NEW p \in Procs, Build(p) PROVE HInv'
  BY <1>1, ReuseActiveHistory, BeginBuildHistory, AnnounceBeginHistory,
     CreateCollectionHistory, FillHistory, SealHistory, AnnounceSealedHistory,
     ActivateHistory, EndBuildHistory
  DEF Build
<1>2. ASSUME NEW p \in Procs, Handler(p) PROVE HInv'
  BY <1>2, RaiseHistory, RaiseEarlyHistory, ReacquireHistory, GiveUpHistory,
     BeginFailedHistory, AnnounceFailedHistory, FailHistory, RecordFailureHistory
  DEF Handler
<1>3. ASSUME NEW p \in Procs, Maintenance(p) PROVE HInv'
  BY <1>3, RollbackHistory, RecoverIntentHistory, RecoverHistory, EndMaintenanceHistory,
     PlanPruneHistory, PruneCollectionHistory, RemoveSomeHistory, RemoveRestHistory
  DEF Maintenance
<1>4. ASSUME NEW p \in Procs, PlanPapers(p) \/ Crash(p) PROVE HInv'
  BY <1>4, PlanPapersHistory, CrashHistory
<1>5. CASE Environment
  BY <1>5, EnvironmentHistory
<1>6. CASE UNCHANGED vars
  BY <1>6 DEF HInv, AttemptInv, OutcomeInv, NoFalseSuccess, OriginalInv, KeepInv, vars
<1> QED
  BY <1>1, <1>2, <1>3, <1>4, <1>5, <1>6 DEF Next, Process

(* The invariant holds in every state.                                     *)
THEOREM HistoryInvariance == Spec => [](IInv /\ HInv)
<1>1. Init => IInv /\ HInv
  <2> SUFFICES ASSUME Init PROVE HInv
    BY InitInvariant
  <2>1. AttemptInv /\ OriginalInv /\ KeepInv
    BY DEF Init, AttemptInv, OriginalInv, KeepInv
  <2>2. OutcomeInv
    BY RecordAssumption DEF Init, OutcomeInv, NoFalseSuccess
  <2> QED
    BY <2>1, <2>2 DEF HInv
<1>2. IInv /\ HInv /\ [Next]_vars => (IInv /\ HInv)'
  BY NextInvariant, NextHistory
<1> QED
  BY <1>1, <1>2, PTL DEF Spec

(***************************************************************************)
(* The theorems                                                            *)
(***************************************************************************)

(* However late a failure is recorded after the papers builder has given   *)
(* the lock back (_record_failed_attempt), latest-attempt.json never       *)
(* returns to an attempt it had moved on from.                             *)
THEOREM AttemptsMoveOn == Spec => []LatestNeverReturns
<1>1. HInv => LatestNeverReturns
  BY DEF HInv, AttemptInv, LatestNeverReturns
<1> QED
  BY <1>1, HistoryInvariance, PTL

(* Neither builder exits with success, or with success and a warning, for  *)
(* a generation that never became active.                                  *)
THEOREM SuccessIsReal == Spec => []NoFalseSuccess
<1>1. HInv => NoFalseSuccess
  BY DEF HInv, OutcomeInv
<1> QED
  BY <1>1, HistoryInvariance, PTL

(* A manifest that publish or fail has sealed is never rewritten by any    *)
(* builder, failure handler or maintenance command.                        *)
THEOREM SealsLast == Spec => SealedImmutable
<1> DEFINE Stays(g) == manifest[g] # None /\ manifest[g].state \in {"complete", "failed"} =>
                          manifest'[g] \in {manifest[g], None} \/ g \in damage' \ damage
<1>1. ASSUME IInv, [Next]_vars, NEW g \in Gens PROVE Stays(g)
  <2> SUFFICES ASSUME manifest[g] # None, manifest[g].state \in {"complete", "failed"}
               PROVE  manifest'[g] \in {manifest[g], None} \/ g \in damage' \ damage
    OBVIOUS
  <2>1. g \in begun
    BY <1>1 DEF IInv, BegunInv
  <2>2. ASSUME NEW p \in Procs, Build(p) PROVE manifest'[g] = manifest[g]
    BY <1>1, <2>1, <2>2
    DEF IInv, TypeOK, CandidateInv, Build, BeginBuild, Create, Fresh, AnnounceBegin,
        CreateCollection, Fill, Seal, AnnounceSealed, Activate, EndBuild, ReuseActive
  <2>3. ASSUME NEW p \in Procs, Handler(p) PROVE manifest'[g] = manifest[g]
    BY <1>1, <2>1, <2>3
    DEF IInv, TypeOK, Handler, Raise, RaiseEarly, Reacquire, GiveUp, BeginFailed, Create,
        Fresh, AnnounceFailed, Fail, MustFail, RecordFailure
  <2>4. ASSUME NEW p \in Procs, Maintenance(p) PROVE manifest'[g] \in {manifest[g], None}
    BY <1>1, <2>4
    DEF IInv, TypeOK, Maintenance, Rollback, RecoverIntent, Recover, EndMaintenance,
        PlanPrune, PruneCollection, RemoveSome, RemoveRest
  <2>5. ASSUME NEW p \in Procs, PlanPapers(p) \/ Crash(p) PROVE manifest'[g] = manifest[g]
    BY <2>5 DEF PlanPapers, Crash, PlansFirst
  <2>6. CASE Environment
    BY <1>1, <2>6
    DEF IInv, TypeOK, Environment, EditLibrary, DamagePointer, DamageGeneration
  <2>7. CASE UNCHANGED vars
    BY <2>7 DEF vars
  <2> QED
    BY <1>1, <2>2, <2>3, <2>4, <2>5, <2>6, <2>7 DEF Next, Process
<1>2. IInv /\ [Next]_vars => [\A g \in Gens : Stays(g)]_vars
  BY <1>1
<1> QED
  BY <1>2, Invariance, PTL DEF Spec, SealedImmutable

(* Between two steps of a prune nothing it must keep comes to be in its    *)
(* list: what it deletes is neither active, nor what a rollback would      *)
(* activate, nor the latest attempt, nor in use by another command.        *)
THEOREM PruneIsSafe == Spec => DeletesOnlyObsolete
<1> DEFINE Obsolete(g) ==
             /\ LoadActive \in Gens => g \notin {LoadActive, manifest[LoadActive].prev}
             /\ latest # None => g # latest.id
             /\ \A p \in Procs : pc[p] \in RaisePoints \cup {"switched", "recovering"}
                                    => gen[p] # g
<1>1. ASSUME IInv, HInv, [Next]_vars, NEW g \in Gens, Loses(g)
      PROVE  \E p \in Procs : pc[p] = "pruning" /\ g \in doomed[p]
  <2> DEFINE Kept == /\ manifest[g] # None => manifest'[g] # None
                     /\ collection'[g] = "absent" => collection[g] = "absent"
                     /\ artifacts'[g] = "absent" => artifacts[g] = "absent"
  <2>1. ASSUME NEW p \in Procs, Build(p) PROVE Kept
    <3>1. CASE BeginBuild(p)
      BY <1>1, <3>1 DEF IInv, BegunInv, BeginBuild, Create, Fresh
    <3>2. CASE Seal(p)
      <4>1. PICK m \in Manifests : /\ m # None
                                   /\ manifest' = [manifest EXCEPT ![gen[p]] = m]
        BY <1>1, <3>2, SealWrites
      <4>2. manifest \in [Gens -> Manifests \cup {None}]
        BY <1>1 DEF IInv, TypeOK
      <4> QED
        BY <1>1, <3>2, <4>1, <4>2 DEF Seal
    <3>3. CASE CreateCollection(p) \/ Fill(p)
      BY <1>1, <3>3 DEF IInv, TypeOK, CreateCollection, Fill
    <3> QED
      BY <2>1, <3>1, <3>2, <3>3
      DEF Build, AnnounceBegin, AnnounceSealed, Activate, EndBuild, ReuseActive
  <2>2. ASSUME NEW p \in Procs, Handler(p) PROVE Kept
    <3>1. CASE BeginFailed(p)
      BY <1>1, <3>1 DEF IInv, BegunInv, BeginFailed, Create, Fresh
    <3>2. CASE Fail(p)
      <4>1. \/ UNCHANGED manifest
            \/ \E m \in Manifests : /\ m # None
                                     /\ manifest' = [manifest EXCEPT ![gen[p]] = m]
        BY <1>1, <3>2, FailWrites
      <4>2. manifest \in [Gens -> Manifests \cup {None}]
        BY <1>1 DEF IInv, TypeOK
      <4> QED
        BY <1>1, <3>2, <4>1, <4>2 DEF Fail
    <3> QED
      BY <2>2, <3>1, <3>2
      DEF Handler, Raise, RaiseEarly, Reacquire, GiveUp, AnnounceFailed, RecordFailure
  <2>3. ASSUME NEW p \in Procs, Maintenance(p) PROVE pc[p] = "pruning" /\ g \in doomed[p]
    BY <1>1, <2>3
    DEF IInv, TypeOK, PruneInv, Maintenance, Rollback, RecoverIntent, Recover,
        EndMaintenance, PlanPrune, PruneCollection, RemoveSome, RemoveRest, Loses
  <2>4. ASSUME NEW p \in Procs, PlanPapers(p) \/ Crash(p) PROVE Kept
    BY <2>4 DEF PlanPapers, Crash, PlansFirst
  <2>5. ASSUME Environment PROVE Kept
    <3>1. ASSUME NEW h \in Gens, DamageGeneration(h) PROVE Kept
      BY <1>1, <3>1, DamageWrites DEF IInv, TypeOK, DamageGeneration
    <3> QED
      BY <2>5, <3>1 DEF Environment, EditLibrary, DamagePointer
  <2>6. ASSUME UNCHANGED vars PROVE Kept
    BY <2>6 DEF vars
  <2> QED
    BY <1>1, <2>1, <2>2, <2>3, <2>4, <2>5, <2>6 DEF Next, Process, Loses
<1>2. ASSUME IInv, HInv, NEW g \in Gens, NEW p \in Procs,
             pc[p] = "pruning", g \in doomed[p]
      PROVE  Obsolete(g)
  <2>1. LoadActive \in Gens => g \notin {LoadActive, manifest[LoadActive].prev}
    BY <1>2, LoadActiveFacts, RecordAssumption DEF IInv, PruneInv, HInv, KeepInv
  <2>2. latest # None => g # latest.id
    BY <1>2 DEF HInv, KeepInv
  <2>3. \A q \in Procs : pc[q] \in RaisePoints \cup {"switched", "recovering"}
                            => gen[q] # g
    BY <1>2, Alone DEF IInv
  <2> QED
    BY <2>1, <2>2, <2>3
<1>3. IInv /\ HInv /\ [Next]_vars => [\A g \in Gens : Loses(g) => Obsolete(g)]_vars
  BY <1>1, <1>2
<1> QED
  BY <1>3, HistoryInvariance, PTL DEF Spec, DeletesOnlyObsolete

(* A recovery replaces only the pointer value that its intent record keeps,*)
(* whatever happened between the two reads of active.json.                 *)
THEOREM RecoveryLosesNothing == Spec => RecoveryKeepsPointer
<1> DEFINE Kept(p) == pc[p] = "recovering" /\ pointer' # pointer =>
                          pointer \in preserved \/ damage' # damage
<1>1. ASSUME IInv, HInv, [Next]_vars, NEW p \in Procs PROVE Kept(p)
  <2> SUFFICES ASSUME pc[p] = "recovering", pointer' # pointer, damage' = damage
               PROVE  pointer \in preserved
    OBVIOUS
  <2>1. lock = p /\ \A q \in Procs : q # p => pc[q] \notin Locked
    BY <1>1, Alone DEF IInv
  <2>2. ASSUME NEW q \in Procs, Process(q) \/ Crash(q)
        PROVE  Recover(q) \/ Activate(q) \/ Rollback(q)
    <3>1. CASE Build(q)
      BY <3>1
      DEF Build, BeginBuild, AnnounceBegin, CreateCollection, Fill, Seal, AnnounceSealed,
          EndBuild, ReuseActive
    <3>2. CASE Handler(q)
      BY <3>2
      DEF Handler, Raise, RaiseEarly, Reacquire, GiveUp, BeginFailed, AnnounceFailed,
          Fail, RecordFailure
    <3>3. CASE Maintenance(q)
      BY <3>3
      DEF Maintenance, RecoverIntent, EndMaintenance, PlanPrune, PruneCollection,
          RemoveSome, RemoveRest
    <3> QED
      BY <2>2, <3>1, <3>2, <3>3 DEF Process, PlanPapers, Crash, PlansFirst
  <2>3. ~ Environment
    BY DEF Environment, EditLibrary, DamagePointer, DamageGeneration
  <2>4. PICK q \in Procs : Recover(q) \/ Activate(q) \/ Rollback(q)
    BY <1>1, <2>2, <2>3 DEF Next, vars
  <2>5. q = p /\ Recover(p)
    BY <2>1, <2>4, ConfigAssumption DEF Activate, Rollback, Recover, Acquire
  <2> QED
    BY <1>1, <2>5 DEF HInv, OriginalInv, Recover, PointerUnchanged
<1>2. IInv /\ HInv /\ [Next]_vars => [\A p \in Procs : Kept(p)]_vars
  BY <1>1
<1> QED
  BY <1>2, HistoryInvariance, PTL DEF Spec, RecoveryKeepsPointer

(***************************************************************************)
(* What a publication knows about the generation it replaces, and what the *)
(* files say of it afterwards: the store implements the register of        *)
(* IndexRegister, no source is withdrawn in silence, no older library      *)
(* replaces a newer one, and latest-attempt.json and the exit codes agree  *)
(* with the manifests.                                                     *)
(***************************************************************************)

(* The control points of a build before its pointer replacement.           *)
Building == RaisePoints \ {"activated"}

(* A candidate has never been active; once sealed it binds the generation  *)
(* it will replace, and a recovery still finds no active generation.       *)
LineageInv ==
    /\ committed \subseteq begun
    /\ \A g \in Gens : manifest[g] # None => manifest[g].prev \in committed \cup {None}
    /\ \A p \in Procs :
        /\ pc[p] \in Building => gen[p] \notin committed
        /\ pc[p] \in {"sealed", "activating"} =>
             /\ manifest[gen[p]] # None
             /\ LoadActive \in Gens \/ damage = {} => manifest[gen[p]].prev = LoadActive
             /\ LoadActive \in Gens =>
                  RemovalsAllowed(p, manifest[LoadActive].snap, snap[p])
        /\ pc[p] = "recovering" => LoadActive \notin Gens

(* No manifest is of a library later than the present one, and none is of  *)
(* a library later than the one a notes build has scanned under the lock.  *)
SnapshotInv ==
    /\ \A p \in Procs : snap[p] <= world
    /\ \A g \in Gens : manifest[g] # None => manifest[g].snap <= world
    /\ ~Papers => \A p \in Procs, g \in Gens :
         pc[p] \in Building /\ manifest[g] # None => manifest[g].snap <= snap[p]

(* What a process at a control point may say of its generation: whoever    *)
(* will record an outcome has announced it before.                         *)
Vouched(q) ==
    /\ pc[q] = "rebeginning" => manifest[gen[q]] # None
    /\ pc[q] \in {"switched", "recovering"} =>
         /\ manifest[gen[q]] # None
         /\ gen[q] \notin damage => manifest[gen[q]].state = "complete"
    /\ gen[q] # None
         /\ pc[q] \notin {"beginning", "rebeginning", "switched", "recovering", "pruning"}
       => latest # None /\ (latest.id = gen[q] \/ gen[q] \in superseded)

(* latest-attempt.json names a generation whose manifest is there.         *)
TruthInv ==
    /\ LatestTruthful
    /\ latest # None => manifest[latest.id] # None
    /\ \A g \in Gens : manifest[g] # None /\ manifest[g].state = "unreadable" => g \in damage
    /\ \A p \in Procs : Vouched(p)

(* A process whose generation has been made active has not lost sight of   *)
(* that, as long as the pointer shows it.                                  *)
Reported(q) ==
    gen[q] # None /\ told[gen[q]] = "active" =>
        /\ pc[q] \in {"activated", "handling", "recording", "switched", "recovering", "pruning"}
        /\ pc[q] \in {"activated", "handling"} => pointer = [id |-> gen[q], fp |-> SealedPrint]
        /\ pc[q] = "recording" => code[q] = "warning"

(* A notes build keeps the lock to its end: its own commit is the last.    *)
ReportInv ==
    /\ \A g \in Gens : told[g] = "active" => g \in committed
    /\ ~Papers => \A p \in Procs : pc[p] # "unlocked"
    /\ ~Papers /\ damage = {} => \A p \in Procs : Reported(p)

LInv == LineageInv /\ SnapshotInv /\ TruthInv /\ ReportInv

(***************************************************************************)
(* What can happen to the active generation                                *)
(***************************************************************************)

(* The active generation is one that was made active.                      *)
LEMMA ActiveCommitted ==
    ASSUME IInv, HInv, LoadActive \in Gens
    PROVE  LoadActive \in committed
BY LoadActiveFacts DEF IInv, HInv, OutcomeInv

(* While the pointer and what it names stay, so does the active generation.*)
LEMMA ActiveKept ==
    ASSUME UNCHANGED pointer, pointer \notin {None, Garbled} => UNCHANGED manifest[pointer.id]
    PROVE  LoadActive' = LoadActive
BY DEF LoadActive

(* Damage takes the active generation away or leaves it.                   *)
LEMMA ActiveDamaged ==
    ASSUME IInv, DamagePointer \/ \E g \in Gens : DamageGeneration(g)
    PROVE  /\ LoadActive' \in {LoadActive, None, Garbled}
           /\ LoadActive' \in Gens => LoadActive' = LoadActive
           /\ damage' # {}
<1>1. CASE DamagePointer
  BY <1>1, ConfigAssumption DEF DamagePointer, LoadActive
<1>2. ASSUME NEW g \in Gens, DamageGeneration(g)
      PROVE  /\ LoadActive' \in {LoadActive, None, Garbled}
             /\ LoadActive' \in Gens => LoadActive' = LoadActive
             /\ damage' # {}
  <2>1. UNCHANGED pointer /\ damage' # {}
    BY <1>2 DEF DamageGeneration
  <2>2. CASE pointer \in {None, Garbled} \/ pointer.id # g
    BY <1>2, <2>1, <2>2, ActiveKept, DamageWrites DEF IInv, TypeOK, Pointers
  <2>3. CASE pointer \notin {None, Garbled} /\ pointer.id = g
    <3>2. manifest'[g] \in {manifest[g], [manifest[g] EXCEPT !.rev = 1],
                            [manifest[g] EXCEPT !.state = "unreadable"]}
      BY <1>2 DEF IInv, TypeOK, DamageGeneration
    <3>3. manifest[g] \in Manifests /\ manifest[g] # None /\ manifest[g].state = "complete"
      BY <1>2 DEF IInv, TypeOK, DamageGeneration
    <3>4. pointer.fp = SealedPrint
      BY <2>3 DEF IInv, TypeOK, Pointers
    <3>5. manifest'[g] # manifest[g] => LoadActive' = Garbled
      BY <2>1, <2>3, <3>2, <3>3, <3>4
      DEF LoadActive, Fingerprint, SealedPrint, Manifests
    <3>6. manifest'[g] = manifest[g] => LoadActive' = LoadActive
      BY <2>1, <2>3 DEF LoadActive
    <3> QED
      BY <2>1, <3>5, <3>6, ConfigAssumption
  <2> QED
    BY <2>2, <2>3
<1> QED
  BY <1>1, <1>2

(***************************************************************************)
(* Lineage                                                                 *)
(***************************************************************************)

(* A process that leaves build and recovery alone disturbs no lineage.     *)
LEMMA QuietLineage ==
    ASSUME LineageInv, NEW p \in Procs,
           UNCHANGED <<manifest, pointer, begun, committed, damage>>,
           pc'[p] \notin Building \cup {"recovering"},
           \A q \in Procs : q # p => UNCHANGED <<pc[q], gen[q], snap[q]>>
    PROVE  LineageInv'
<1>1. LoadActive' = LoadActive
  BY ActiveKept
<1> QED
  BY <1>1 DEF LineageInv, Building

(* No step breaks the lineage.                                             *)
LEMMA LineageKept ==
    ASSUME IInv, HInv, LineageInv, [Next]_vars
    PROVE  LineageInv'
<1>1. ASSUME NEW p \in Procs, Build(p) PROVE LineageInv'
  <2>1. CASE BeginBuild(p)
    <3>1. PICK g \in Gens : /\ g \notin begun /\ begun' = begun \cup {g}
                            /\ manifest' = [manifest EXCEPT ![g] =
                                  NewManifest(Snapshot(p), World[world].embedding)]
                            /\ gen' = [gen EXCEPT ![p] = g]
      BY <2>1 DEF BeginBuild, Create, Fresh
    <3>2. NewManifest(Snapshot(p), World[world].embedding).prev = None
      BY DEF NewManifest
    <3>3. \A q \in Procs : q # p => pc'[q] \notin Locked
      BY <2>1, NobodyLocked DEF IInv, BeginBuild, Acquire
    <3> QED
      BY <2>1, <3>1, <3>2, <3>3 DEF IInv, TypeOK, LineageInv, Building, BeginBuild
  <2>2. CASE AnnounceBegin(p) \/ CreateCollection(p) \/ Fill(p) \/ AnnounceSealed(p)
    <3>1. LoadActive' = LoadActive
      BY <2>2, ActiveKept DEF AnnounceBegin, CreateCollection, Fill, AnnounceSealed
    <3> QED
      BY <2>2, <3>1
      DEF IInv, TypeOK, LineageInv, Building, AnnounceBegin, CreateCollection, Fill,
          AnnounceSealed
  <2>3. CASE Seal(p)
    <3>1. /\ gen[p] \in Gens /\ gen[p] \notin committed
          /\ LoadActive \in Gens \cup {None}
          /\ LoadActive \in Gens => /\ LoadActive \in committed
                                    /\ RemovalsAllowed(p, manifest[LoadActive].snap, snap[p])
      BY <2>3, <1>1, ActiveCommitted, LoadActiveFacts, SealWrites
      DEF IInv, LineageInv, Building, Seal
    <3>2. PICK m \in Manifests : /\ manifest' = [manifest EXCEPT ![gen[p]] = m]
                                 /\ m # None /\ m.prev = LoadActive
      BY <2>3, SealWrites
    <3>3. LoadActive' = LoadActive
      BY <2>3, <3>1, <3>2, ActiveKept
      DEF IInv, TypeOK, Pointers, HInv, OutcomeInv, Seal
    <3>4. \A q \in Procs : q # p => pc'[q] \notin Locked
      BY <2>3, Alone DEF IInv, Seal
    <3>5. manifest'[gen[p]] = m /\ \A h \in Gens : h # gen[p] => manifest'[h] = manifest[h]
      BY <3>1, <3>2 DEF IInv, TypeOK
    <3>6. UNCHANGED <<gen, snap, committed, begun, damage>> /\ pc' = [pc EXCEPT ![p] = "sealed"]
      BY <2>3 DEF Seal
    <3>7. LoadActive \in Gens => LoadActive # gen[p]
      BY <3>1
    <3>8. manifest'[gen[p]].prev = LoadActive' /\ manifest'[gen[p]] # None
      BY <3>2, <3>3, <3>5
    <3>9. LoadActive' \in Gens =>
             RemovalsAllowed(p, manifest'[LoadActive'].snap, snap'[p])
      BY <3>1, <3>3, <3>5, <3>6, <3>7
    <3>10. \A h \in Gens : manifest'[h] # None => manifest'[h].prev \in committed' \cup {None}
      BY <3>1, <3>2, <3>5, <3>6 DEF LineageInv
    <3>11. pc'[p] = "sealed" /\ gen'[p] \notin committed'
      BY <3>1, <3>6 DEF IInv, TypeOK
    <3> QED
      BY <3>4, <3>6, <3>8, <3>9, <3>10, <3>11 DEF LineageInv, Building
  <2>4. CASE Activate(p)
    <3>1. \A q \in Procs : q # p => pc'[q] \notin Locked
      BY <2>4, Alone DEF IInv, Activate
    <3>2. gen[p] \in begun
      BY <2>4, ConfigAssumption DEF IInv, CandidateInv, HInv, AttemptInv, Activate
    <3> QED
      BY <2>4, <3>1, <3>2 DEF IInv, TypeOK, LineageInv, Building, Activate, Switch
  <2>5. CASE EndBuild(p) \/ ReuseActive(p)
    BY <2>5, QuietLineage DEF IInv, TypeOK, EndBuild, ReuseActive, Exit, Building
  <2> QED
    BY <1>1, <2>1, <2>2, <2>3, <2>4, <2>5 DEF Build
<1>2. ASSUME NEW p \in Procs, Handler(p) PROVE LineageInv'
  <2>1. CASE BeginFailed(p)
    <3>1. PICK g \in Gens : /\ g \notin begun /\ begun' = begun \cup {g}
                            /\ manifest' = [manifest EXCEPT ![g] =
                                  NewManifest(snap[p], World[world].embedding)]
                            /\ gen' = [gen EXCEPT ![p] = g]
      BY <2>1 DEF BeginFailed, Create, Fresh
    <3>2. NewManifest(snap[p], World[world].embedding).prev = None
      BY DEF NewManifest
    <3>3. \A q \in Procs : q # p => pc'[q] \notin Locked
      BY <2>1, Alone DEF IInv, BeginFailed
    <3> QED
      BY <2>1, <3>1, <3>2, <3>3 DEF IInv, TypeOK, LineageInv, Building, BeginFailed
  <2>2. CASE Fail(p)
    <3>1. \A q \in Procs : q # p => pc'[q] \notin Locked
      BY <2>2, Alone DEF IInv, Fail
    <3>2. \A h \in Gens : manifest'[h] # None =>
             manifest[h] # None /\ manifest'[h].prev = manifest[h].prev
      BY <2>2, FailWrites DEF IInv, TypeOK
    <3> QED
      BY <2>2, <3>1, <3>2 DEF IInv, TypeOK, LineageInv, Building, Fail
  <2>3. CASE Raise(p)
    BY <2>3, QuietLineage DEF IInv, TypeOK, Raise, Handle, Building
  <2>4. CASE RaiseEarly(p) \/ Reacquire(p)
    BY <2>4, QuietLineage DEF IInv, TypeOK, RaiseEarly, Reacquire, Handle, Building
  <2>5. CASE AnnounceFailed(p)
    BY <2>5, QuietLineage DEF IInv, TypeOK, AnnounceFailed, Building
  <2>6. CASE GiveUp(p) \/ RecordFailure(p)
    BY <2>6, QuietLineage DEF IInv, TypeOK, GiveUp, RecordFailure, Exit, Building
  <2> QED
    BY <1>2, <2>1, <2>2, <2>3, <2>4, <2>5, <2>6 DEF Handler
<1>3. ASSUME NEW p \in Procs, Maintenance(p) PROVE LineageInv'
  <2>1. CASE Rollback(p)
    <3>1. \A q \in Procs : q # p => pc'[q] \notin Locked
      BY <2>1, NobodyLocked DEF IInv, Rollback, Acquire
    <3>2. manifest[LoadActive].prev \in begun
      BY <2>1, LoadActiveFacts DEF IInv, TypeOK, Manifests, BegunInv, Trusted, Rollback
    <3> QED
      BY <2>1, <3>1, <3>2 DEF IInv, TypeOK, LineageInv, Building, Rollback, Switch
  <2>2. CASE RecoverIntent(p)
    <3>1. LoadActive' = LoadActive
      BY <2>2, ActiveKept DEF RecoverIntent
    <3> QED
      BY <2>2, <3>1 DEF IInv, TypeOK, LineageInv, Building, RecoverIntent, PointerBroken
  <2>3. CASE Recover(p)
    <3>1. \A q \in Procs : q # p => pc'[q] \notin Locked
      BY <2>3, Alone DEF IInv, Recover
    <3>2. gen[p] \in begun
      BY <2>3, ConfigAssumption DEF IInv, CandidateInv, HInv, AttemptInv, Recover
    <3> QED
      BY <2>3, <3>1, <3>2 DEF IInv, TypeOK, LineageInv, Building, Recover, Switch
  <2>4. CASE EndMaintenance(p)
    BY <2>4, QuietLineage DEF IInv, TypeOK, EndMaintenance, Exit, Building
  <2>5. CASE PlanPrune(p)
    BY <2>5, QuietLineage DEF IInv, TypeOK, PlanPrune, Building
  <2>6. CASE PruneCollection(p)
    BY <2>6, QuietLineage DEF IInv, TypeOK, PruneCollection, Building
  <2>7. CASE RemoveSome(p) \/ RemoveRest(p)
    <3>1. \A q \in Procs : q # p => pc'[q] \notin Locked
      BY <2>7, Alone DEF IInv, RemoveSome, RemoveRest
    <3>2. \A h \in Gens : manifest'[h] \in {manifest[h], None}
      BY <2>7 DEF IInv, TypeOK, RemoveSome, RemoveRest
    <3> QED
      BY <2>7, <3>1, <3>2 DEF IInv, TypeOK, LineageInv, Building, RemoveSome, RemoveRest
  <2> QED
    BY <1>3, <2>1, <2>2, <2>3, <2>4, <2>5, <2>6, <2>7 DEF Maintenance
<1>4. ASSUME NEW p \in Procs, PlanPapers(p) \/ Crash(p) PROVE LineageInv'
  BY <1>4, QuietLineage DEF IInv, TypeOK, PlanPapers, PlansFirst, Crash, Exit, Building
<1>5. CASE EditLibrary
  <2>1. LoadActive' = LoadActive
    BY <1>5, ActiveKept DEF EditLibrary
  <2> QED
    BY <1>5, <2>1 DEF LineageInv, EditLibrary
<1>6. CASE DamagePointer \/ \E g \in Gens : DamageGeneration(g)
  <2>1. \A h \in Gens : manifest[h] # None =>
            /\ manifest'[h] # None
            /\ manifest'[h].prev = manifest[h].prev
            /\ manifest'[h].snap = manifest[h].snap
    BY <1>6, DamageWrites DEF DamagePointer
  <2>2. UNCHANGED <<pc, gen, snap, committed, begun>>
    BY <1>6 DEF DamagePointer, DamageGeneration
  <2>3. \A q \in Procs : pc[q] \in Building => gen[q] \in Gens
    BY DEF IInv, CandidateInv, Building
  <2>4. LoadActive \in Gens => manifest[LoadActive] # None
    BY LoadActiveFacts, RecordAssumption DEF IInv
  <2>5. LoadActive' \in Gens => LoadActive' = LoadActive
    BY <1>6, ActiveDamaged
  <2>6. damage' # {}
    BY <1>6, ActiveDamaged
  <2>7. LoadActive' \in Gens => manifest'[LoadActive'].snap = manifest[LoadActive].snap
    BY <2>1, <2>4, <2>5
  <2>8. ASSUME NEW q \in Procs, pc[q] \in {"sealed", "activating"}
        PROVE  /\ manifest'[gen[q]] # None
               /\ LoadActive' \in Gens \/ damage' = {} => manifest'[gen[q]].prev = LoadActive'
               /\ LoadActive' \in Gens =>
                    RemovalsAllowed(q, manifest'[LoadActive'].snap, snap[q])
    <3>1. gen[q] \in Gens /\ manifest[gen[q]] # None
      BY <2>3, <2>8 DEF LineageInv, Building
    <3>2. LoadActive \in Gens =>
             /\ manifest[gen[q]].prev = LoadActive
             /\ RemovalsAllowed(q, manifest[LoadActive].snap, snap[q])
      BY <2>8 DEF LineageInv
    <3>3. manifest'[gen[q]] # None /\ manifest'[gen[q]].prev = manifest[gen[q]].prev
      BY <2>1, <3>1
    <3>4. LoadActive' \in Gens =>
             RemovalsAllowed(q, manifest'[LoadActive'].snap, snap[q])
      BY <2>5, <2>7, <3>2
    <3> QED
      BY <2>5, <2>6, <3>2, <3>3, <3>4
  <2>9. \A q \in Procs : pc[q] = "recovering" => LoadActive' \notin Gens
    BY <2>5 DEF LineageInv
  <2>10. \A h \in Gens : manifest'[h] # None => manifest'[h].prev \in committed \cup {None}
    <3>1. \A h \in Gens : manifest'[h] # None => manifest[h] # None
      BY <1>6, DamageWrites DEF DamagePointer
    <3> QED
      BY <2>1, <3>1 DEF LineageInv
  <2> QED
    BY <2>2, <2>8, <2>9, <2>10 DEF LineageInv
<1>7. CASE UNCHANGED vars
  <2>1. LoadActive' = LoadActive
    BY <1>7, ActiveKept DEF vars
  <2> QED
    BY <1>7, <2>1 DEF LineageInv, vars
<1> QED
  BY <1>1, <1>2, <1>3, <1>4, <1>5, <1>6, <1>7 DEF Next, Process, Environment

(***************************************************************************)
(* The register that readers see                                           *)
(***************************************************************************)

(* The version a generation replaced, as the register remembers it.        *)
Replaced == [g \in Gens |-> IF g \in committed /\ manifest[g] # None
                            THEN manifest[g].prev ELSE None]

(* A step that changes no published lineage is none of the register.       *)
LEMMA RegisterRests ==
    ASSUME LoadActive' = LoadActive, UNCHANGED <<committed, damage>>,
           \A g \in Gens : g \in committed =>
              /\ manifest'[g] # None <=> manifest[g] # None
              /\ manifest[g] # None => manifest'[g].prev = manifest[g].prev
    PROVE  UNCHANGED Register!regs
BY DEF Register!regs

(* A publication makes a version active that never was.                    *)
LEMMA ActivatePublishes ==
    ASSUME IInv, HInv, LineageInv, NEW p \in Procs, NEW g \in Gens, g = gen[p],
           Activate(p)
    PROVE  Register!Publish(g)
<1> DEFINE b == manifest[g].prev
<1>1. g \notin committed /\ manifest[g] # None
  BY DEF IInv, CandidateInv, LineageInv, Building, Activate
<1>2. b \in Gens \cup {None} /\ (LoadActive \in Gens \/ damage = {} => b = LoadActive)
  BY <1>1 DEF IInv, TypeOK, Manifests, LineageInv, Activate
<1>3. /\ UNCHANGED <<manifest, damage>> /\ committed' = committed \cup {g}
      /\ pointer' = [id |-> g, fp |-> SealedPrint]
  BY DEF Activate, Switch
<1>4. LoadActive' \in {g} \cup (IF damage # {} THEN {Garbled} ELSE {})
  <2>1. pointer' \notin {None, Garbled}
    BY <1>1, <1>3, RecordAssumption DEF Pointers
  <2>2. g \notin damage => Sound(g)
    BY DEF IInv, CandidateInv, Activate
  <2> QED
    BY <1>1, <1>3, <2>1, <2>2 DEF LoadActive, Sound, Fingerprint, SealedPrint
<1>5. Replaced' = [Replaced EXCEPT ![g] = b]
  BY <1>1, <1>3 DEF Replaced
<1> QED
  BY <1>1, <1>2, <1>3, <1>4, <1>5 DEF Register!Publish, Register!Lands, Replaced

(* A rollback returns to the version that the active one replaced.         *)
LEMMA RollbackReverts ==
    ASSUME IInv, HInv, LineageInv, NEW p \in Procs, Rollback(p)
    PROVE  Register!Revert
<1> DEFINE a == LoadActive
           t == manifest[a].prev
<1>1. a \in Gens /\ a \in committed /\ manifest[a] # None
  BY LoadActiveFacts, ActiveCommitted, RecordAssumption DEF IInv, Rollback
<1>2. /\ t \in Gens /\ t \in committed
      /\ manifest[t] # None /\ manifest[t].state = "complete"
  BY <1>1 DEF IInv, TypeOK, Manifests, LineageInv, Rollback, Trusted
<1>3. /\ UNCHANGED <<manifest, damage>> /\ committed' = committed \cup {t}
      /\ pointer' = [id |-> t, fp |-> Fingerprint(manifest[t])]
  BY DEF Rollback, Switch
<1>4. LoadActive' = t
  <2>1. Fingerprint(manifest[t]) = SealedPrint
    BY <1>1, <1>2
    DEF IInv, ManifestInv, Trusted, Rollback
  <2>2. pointer' \notin {None, Garbled}
    BY <1>2, <1>3, <2>1, RecordAssumption DEF Pointers
  <2> QED
    BY <1>2, <1>3, <2>2 DEF LoadActive, Fingerprint
<1>5. committed' = committed /\ Replaced' = Replaced /\ Replaced[a] = t
  BY <1>1, <1>2, <1>3 DEF Replaced
<1> QED
  BY <1>1, <1>2, <1>3, <1>4, <1>5, ConfigAssumption DEF Register!Revert, Replaced

(* A recovery sets a register that names no version.                       *)
LEMMA RecoverRestores ==
    ASSUME IInv, HInv, LineageInv, NEW p \in Procs, NEW g \in Gens, g = gen[p],
           Recover(p)
    PROVE  Register!Restore(g)
<1> DEFINE b == IF manifest[g] # None THEN manifest[g].prev ELSE None
<1>1. LoadActive \notin Gens
  BY DEF IInv, CandidateInv, LineageInv, Recover
<1>2. b \in Gens \cup {None}
  BY <1>1 DEF IInv, TypeOK, Manifests
<1>3. /\ UNCHANGED <<manifest, damage>> /\ committed' = committed \cup {g}
      /\ pointer' = [id |-> g, fp |-> SealedPrint]
  BY DEF Recover, Switch
<1>4. LoadActive' \in {g} \cup (IF damage # {} THEN {Garbled} ELSE {})
  <2>1. pointer' \notin {None, Garbled}
    BY <1>1, <1>3, RecordAssumption DEF Pointers
  <2>2. g \notin damage => Sound(g)
    BY DEF IInv, CandidateInv, Recover
  <2> QED
    BY <1>1, <1>3, <2>1, <2>2 DEF LoadActive, Sound, Fingerprint, SealedPrint
<1>5. Replaced' = [Replaced EXCEPT ![g] = b]
  BY <1>1, <1>3 DEF Replaced
<1> QED
  BY <1>1, <1>2, <1>3, <1>4, <1>5 DEF Register!Restore, Register!Lands, Replaced

(* A prune forgets what neither readers nor the next rollback need.        *)
LEMMA RemovalForgets ==
    ASSUME IInv, HInv, LineageInv, NEW p \in Procs, NEW g \in Gens, g = gen[p],
           RemoveSome(p) \/ RemoveRest(p)
    PROVE  Register!Forget(g) \/ UNCHANGED Register!regs
<1>1. /\ g \in doomed[p] /\ pc[p] = "pruning"
      /\ UNCHANGED <<pointer, committed, damage>>
      /\ manifest' \in {manifest, [manifest EXCEPT ![g] = None]}
  BY DEF IInv, TypeOK, PruneInv, RemoveSome, RemoveRest
<1>2. pointer \in Pointers => pointer.id # g
  BY <1>1 DEF IInv, PruneInv
<1>3. LoadActive' = LoadActive
  BY <1>1, <1>2, ActiveKept DEF IInv, TypeOK, Pointers
<1>4. CASE manifest' = manifest
  BY <1>1, <1>3, <1>4, RegisterRests
<1>5. CASE manifest' = [manifest EXCEPT ![g] = None]
  <2>1. g # LoadActive
    BY <1>1, <1>2, LoadActiveFacts, ConfigAssumption DEF IInv
  <2>2. LoadActive \in Gens => /\ LoadActive \in committed /\ manifest[LoadActive] # None
                              /\ manifest[LoadActive].prev # g
    BY <1>1, ActiveCommitted, LoadActiveFacts, RecordAssumption DEF IInv, HInv, KeepInv
  <2>3. LoadActive \in Gens => Replaced[LoadActive] # g
    BY <2>2 DEF Replaced
  <2>4. Replaced' = [Replaced EXCEPT ![g] = None]
    BY <1>1, <1>5 DEF IInv, TypeOK, Replaced
  <2> QED
    BY <1>1, <1>3, <2>1, <2>3, <2>4 DEF Register!Forget, Replaced
<1> QED
  BY <1>1, <1>4, <1>5

(* Damage from outside takes a version away or only shows later.           *)
LEMMA DamageLoses ==
    ASSUME IInv, DamagePointer \/ \E g \in Gens : DamageGeneration(g)
    PROVE  Register!Lose
<1>1. /\ LoadActive' \in {LoadActive, None, Garbled} /\ damage' # {} /\ committed' = committed
  BY ActiveDamaged DEF DamagePointer, DamageGeneration
<1>2. \A h \in Gens : manifest[h] # None =>
          manifest'[h] # None /\ manifest'[h].prev = manifest[h].prev
  BY DamageWrites DEF DamagePointer
<1>3. \A h \in Gens : manifest'[h] # None => manifest[h] # None
  BY DamageWrites DEF DamagePointer
<1>4. Replaced' = Replaced
  BY <1>1, <1>2, <1>3 DEF Replaced
<1> QED
  BY <1>1, <1>4 DEF Register!Lose, Replaced

(* Every step of the store is a step of the register or none of its.       *)
LEMMA StepRefines ==
    ASSUME IInv, HInv, LineageInv, [Next]_vars
    PROVE  Register!RegisterNext \/ UNCHANGED Register!regs
<1>1. ASSUME NEW p \in Procs, Build(p)
      PROVE  Register!RegisterNext \/ UNCHANGED Register!regs
  <2>1. CASE Activate(p)
    <3>1. PICK g \in Gens : g = gen[p]
      BY <2>1 DEF IInv, CandidateInv, Activate
    <3> QED
      BY <2>1, <3>1, ActivatePublishes DEF Register!RegisterNext
  <2>2. CASE BeginBuild(p)
    <3>1. PICK g \in Gens : /\ g \notin begun
                            /\ \A h \in Gens : h # g => manifest'[h] = manifest[h]
      BY <2>2 DEF IInv, TypeOK, BeginBuild, Create, Fresh
    <3>2. g \notin committed /\ (pointer \in Pointers => pointer.id # g)
      BY <3>1 DEF LineageInv, HInv, OutcomeInv
    <3>3. LoadActive' = LoadActive
      BY <2>2, <3>1, <3>2, ActiveKept DEF IInv, TypeOK, Pointers, BeginBuild
    <3> QED
      BY <2>2, <3>1, <3>2, <3>3, RegisterRests DEF BeginBuild
  <2>3. CASE Seal(p)
    <3>1. /\ gen[p] \in Gens /\ gen[p] \notin committed
          /\ \A h \in Gens : h # gen[p] => manifest'[h] = manifest[h]
      <4>1. gen[p] \in Gens /\ gen[p] \notin committed
        BY <2>3, SealWrites DEF LineageInv, Building, Seal
      <4>2. \A h \in Gens : h # gen[p] => manifest'[h] = manifest[h]
        BY <2>3, <4>1 DEF IInv, TypeOK, Seal
      <4> QED
        BY <4>1, <4>2
    <3>2. pointer \in Pointers => pointer.id # gen[p]
      BY <3>1 DEF HInv, OutcomeInv
    <3>3. LoadActive' = LoadActive
      BY <2>3, <3>1, <3>2, ActiveKept DEF IInv, TypeOK, Pointers, Seal
    <3> QED
      BY <2>3, <3>1, <3>3, RegisterRests DEF Seal
  <2>4. CASE \/ AnnounceBegin(p) \/ CreateCollection(p) \/ Fill(p) \/ AnnounceSealed(p)
             \/ EndBuild(p) \/ ReuseActive(p)
    <3>1. UNCHANGED <<manifest, pointer, committed, damage>>
      BY <2>4
      DEF AnnounceBegin, CreateCollection, Fill, AnnounceSealed, EndBuild, ReuseActive
    <3> QED
      BY <3>1, ActiveKept, RegisterRests
  <2> QED
    BY <1>1, <2>1, <2>2, <2>3, <2>4 DEF Build
<1>2. ASSUME NEW p \in Procs, Handler(p) PROVE UNCHANGED Register!regs
  <2>1. CASE BeginFailed(p)
    <3>1. PICK g \in Gens : /\ g \notin begun
                            /\ \A h \in Gens : h # g => manifest'[h] = manifest[h]
      BY <2>1 DEF IInv, TypeOK, BeginFailed, Create, Fresh
    <3>2. g \notin committed /\ (pointer \in Pointers => pointer.id # g)
      BY <3>1 DEF LineageInv, HInv, OutcomeInv
    <3>3. LoadActive' = LoadActive
      BY <2>1, <3>1, <3>2, ActiveKept DEF IInv, TypeOK, Pointers, BeginFailed
    <3> QED
      BY <2>1, <3>1, <3>2, <3>3, RegisterRests DEF BeginFailed
  <2>2. CASE Fail(p)
    <3>1. UNCHANGED <<pointer, committed, damage>>
      BY <2>2 DEF Fail
    <3>2. CASE manifest' = manifest
      BY <3>1, <3>2, ActiveKept, RegisterRests
    <3>3. CASE MustFail(gen[p])
      <4>1. LoadActive # Garbled /\ gen[p] \in Gens /\ manifest[gen[p]].state = "building"
        BY <2>2, <3>3
        DEF IInv, TypeOK, Fail, MustFail, Outcome, PublicationState, Unreadable
      <4>2. pointer \in Pointers => pointer.id # gen[p]
        BY <4>1, RecordAssumption DEF LoadActive
      <4>3. /\ \A h \in Gens : h # gen[p] => manifest'[h] = manifest[h]
            /\ manifest'[gen[p]] # None <=> manifest[gen[p]] # None
            /\ manifest[gen[p]] # None => manifest'[gen[p]].prev = manifest[gen[p]].prev
        BY <2>2, <4>1, FailWrites DEF IInv, TypeOK
      <4>4. LoadActive' = LoadActive
        BY <3>1, <4>2, <4>3, ActiveKept DEF IInv, TypeOK, Pointers
      <4> QED
        BY <3>1, <4>3, <4>4, RegisterRests
    <3> QED
      BY <2>2, <3>2, <3>3 DEF Fail
  <2>3. CASE \/ Raise(p) \/ RaiseEarly(p) \/ Reacquire(p) \/ GiveUp(p)
             \/ AnnounceFailed(p) \/ RecordFailure(p)
    <3>1. UNCHANGED <<manifest, pointer, committed, damage>>
      BY <2>3 DEF Raise, RaiseEarly, Reacquire, GiveUp, AnnounceFailed, RecordFailure
    <3> QED
      BY <3>1, ActiveKept, RegisterRests
  <2> QED
    BY <1>2, <2>1, <2>2, <2>3 DEF Handler
<1>3. ASSUME NEW p \in Procs, Maintenance(p)
      PROVE  Register!RegisterNext \/ UNCHANGED Register!regs
  <2>1. CASE Rollback(p)
    BY <2>1, RollbackReverts DEF Register!RegisterNext
  <2>2. CASE Recover(p)
    <3>1. PICK g \in Gens : g = gen[p]
      BY <2>2 DEF IInv, CandidateInv, Recover
    <3> QED
      BY <2>2, <3>1, RecoverRestores DEF Register!RegisterNext
  <2>3. CASE RemoveSome(p) \/ RemoveRest(p)
    <3>1. PICK g \in Gens : g = gen[p]
      BY <2>3 DEF IInv, TypeOK, RemoveSome, RemoveRest
    <3> QED
      BY <2>3, <3>1, RemovalForgets DEF Register!RegisterNext
  <2>4. CASE RecoverIntent(p) \/ EndMaintenance(p) \/ PlanPrune(p) \/ PruneCollection(p)
    <3>1. UNCHANGED <<manifest, pointer, committed, damage>>
      BY <2>4 DEF RecoverIntent, EndMaintenance, PlanPrune, PruneCollection
    <3> QED
      BY <3>1, ActiveKept, RegisterRests
  <2> QED
    BY <1>3, <2>1, <2>2, <2>3, <2>4 DEF Maintenance
<1>4. CASE \/ \E p \in Procs : PlanPapers(p) \/ Crash(p)
           \/ EditLibrary \/ UNCHANGED vars
  <2>1. UNCHANGED <<manifest, pointer, committed, damage>>
    BY <1>4 DEF PlanPapers, PlansFirst, Crash, EditLibrary, vars
  <2> QED
    BY <2>1, ActiveKept, RegisterRests
<1>5. CASE DamagePointer \/ \E g \in Gens : DamageGeneration(g)
  BY <1>5, DamageLoses DEF Register!RegisterNext
<1> QED
  BY <1>1, <1>2, <1>3, <1>4, <1>5 DEF Next, Process, Environment

(***************************************************************************)
(* Snapshots                                                               *)
(***************************************************************************)

(* The states of the library are numbered.                                 *)
LEMMA WorldIsNumber ==
    ASSUME TypeOK
    PROVE  /\ world \in Nat /\ 1 <= world
           /\ \A p \in Procs : snap[p] \in Nat
           /\ \A g \in Gens : manifest[g] # None => manifest[g].snap \in Nat
<1>1. DOMAIN World \subseteq Nat /\ \A w \in DOMAIN World : 1 <= w
  BY WorldAssumption
<1> QED
  BY <1>1 DEF TypeOK, Manifests

(* A step that begins nothing and edits nothing keeps every snapshot.      *)
LEMMA QuietSnapshots ==
    ASSUME IInv, SnapshotInv, UNCHANGED world,
           \A g \in Gens : manifest'[g] # None =>
              manifest[g] # None /\ manifest'[g].snap = manifest[g].snap,
           \A q \in Procs : /\ snap'[q] \in {snap[q], 1}
                            /\ pc'[q] \in Building => pc[q] \in Building /\ snap'[q] = snap[q]
    PROVE  SnapshotInv'
BY WorldIsNumber DEF IInv, SnapshotInv

(* A generation is begun of a library that is not later than the present.  *)
LEMMA BegunSnapshots ==
    ASSUME IInv, SnapshotInv, NEW p \in Procs, NEW g \in Gens, NEW s \in DOMAIN World,
           s <= world, ~Papers /\ pc'[p] \in Building => s = world,
           UNCHANGED world, snap' = [snap EXCEPT ![p] = s],
           manifest' = [manifest EXCEPT ![g] = NewManifest(s, World[world].embedding)],
           \A q \in Procs : q # p => pc'[q] \notin Building
    PROVE  SnapshotInv'
<1> DEFINE m == NewManifest(s, World[world].embedding)
<1>1. m.snap = s
  BY DEF NewManifest
<1>2. \A h \in Gens : manifest'[h] # None =>
          \/ manifest'[h].snap = s
          \/ manifest[h] # None /\ manifest'[h].snap = manifest[h].snap
  <2>1. manifest' = [manifest EXCEPT ![g] = m] /\ manifest \in [Gens -> Manifests \cup {None}]
    BY DEF IInv, TypeOK
  <2> HIDE DEF m
  <2> QED
    BY <1>1, <2>1
<1>3. snap'[p] = s /\ \A q \in Procs : q # p => snap'[q] = snap[q]
  BY DEF IInv, TypeOK
<1>4. \A q \in Procs : snap'[q] <= world
  BY <1>3 DEF SnapshotInv
<1>5. \A h \in Gens : manifest'[h] # None => manifest'[h].snap <= world
  BY <1>2 DEF SnapshotInv
<1>6. ASSUME ~Papers, NEW q \in Procs, NEW h \in Gens, pc'[q] \in Building, manifest'[h] # None
      PROVE  manifest'[h].snap <= snap'[q]
  BY <1>3, <1>5, <1>6
<1> QED
  BY <1>4, <1>5, <1>6 DEF SnapshotInv, Building

(* No step breaks the order of snapshots.                                  *)
LEMMA SnapshotsKept ==
    ASSUME IInv, SnapshotInv, [Next]_vars
    PROVE  SnapshotInv'
<1>1. ASSUME NEW p \in Procs, Build(p) PROVE SnapshotInv'
  <2>1. CASE BeginBuild(p)
    <3>1. PICK g \in Gens : manifest' = [manifest EXCEPT ![g] =
                                  NewManifest(Snapshot(p), World[world].embedding)]
      BY <2>1 DEF BeginBuild, Create, Fresh
    <3>2. PICK s \in DOMAIN World : s = Snapshot(p)
      BY DEF IInv, TypeOK, Snapshot
    <3>3. s <= world /\ (~Papers => s = world)
      BY <3>2, WorldIsNumber DEF IInv, SnapshotInv, Snapshot, PlansFirst
    <3>4. \A q \in Procs : q # p => pc'[q] \notin Building
      BY <2>1, NobodyLocked DEF IInv, BeginBuild, Acquire, Building
    <3>5. UNCHANGED world /\ snap' = [snap EXCEPT ![p] = s]
      BY <2>1, <3>2 DEF BeginBuild
    <3> QED
      BY <3>1, <3>2, <3>3, <3>4, <3>5, BegunSnapshots
  <2>2. CASE Seal(p)
    <3>1. \A h \in Gens : manifest'[h] # None =>
              manifest[h] # None /\ manifest'[h].snap = manifest[h].snap
      <4>1. PICK m \in Manifests : /\ manifest' = [manifest EXCEPT ![gen[p]] = m]
                                   /\ m.snap = snap[p]
        BY <2>2, SealWrites
      <4>2. manifest[gen[p]] # None /\ manifest[gen[p]].snap = snap[p]
        BY <2>2 DEF IInv, CandidateInv, Seal
      <4> QED
        BY <4>1, <4>2 DEF IInv, TypeOK
    <3> QED
      BY <2>2, <3>1, QuietSnapshots DEF IInv, TypeOK, Seal, Building
  <2>3. CASE \/ AnnounceBegin(p) \/ CreateCollection(p) \/ Fill(p) \/ AnnounceSealed(p)
             \/ Activate(p)
    BY <2>3, QuietSnapshots
    DEF IInv, TypeOK, AnnounceBegin, CreateCollection, Fill, AnnounceSealed, Activate,
        Building
  <2>4. CASE EndBuild(p) \/ ReuseActive(p)
    BY <2>4, QuietSnapshots DEF IInv, TypeOK, EndBuild, ReuseActive, Exit, Building
  <2> QED
    BY <1>1, <2>1, <2>2, <2>3, <2>4 DEF Build
<1>2. ASSUME NEW p \in Procs, Handler(p) PROVE SnapshotInv'
  <2>1. CASE BeginFailed(p)
    <3>1. PICK g \in Gens : manifest' = [manifest EXCEPT ![g] =
                                  NewManifest(snap[p], World[world].embedding)]
      BY <2>1 DEF BeginFailed, Create, Fresh
    <3>2. PICK s \in DOMAIN World : s = snap[p]
      BY DEF IInv, TypeOK
    <3>3. s <= world /\ pc'[p] \notin Building
      BY <2>1, <3>2 DEF IInv, TypeOK, SnapshotInv, BeginFailed, Building
    <3>4. \A q \in Procs : q # p => pc'[q] \notin Building
      BY <2>1, Alone DEF IInv, BeginFailed, Building
    <3>5. UNCHANGED world /\ snap' = [snap EXCEPT ![p] = s]
      BY <2>1, <3>2 DEF IInv, TypeOK, BeginFailed
    <3> QED
      BY <3>1, <3>2, <3>3, <3>4, <3>5, BegunSnapshots
  <2>2. CASE Fail(p)
    <3>1. \A h \in Gens : manifest'[h] # None =>
              manifest[h] # None /\ manifest'[h].snap = manifest[h].snap
      BY <2>2, FailWrites DEF IInv, TypeOK
    <3> QED
      BY <2>2, <3>1, QuietSnapshots DEF IInv, TypeOK, Fail, Building
  <2>3. CASE Raise(p) \/ RaiseEarly(p) \/ Reacquire(p) \/ AnnounceFailed(p)
    BY <2>3, QuietSnapshots
    DEF IInv, TypeOK, Raise, RaiseEarly, Reacquire, AnnounceFailed, Handle, Building
  <2>4. CASE GiveUp(p) \/ RecordFailure(p)
    BY <2>4, QuietSnapshots DEF IInv, TypeOK, GiveUp, RecordFailure, Exit, Building
  <2> QED
    BY <1>2, <2>1, <2>2, <2>3, <2>4 DEF Handler
<1>3. ASSUME NEW p \in Procs, Maintenance(p) PROVE SnapshotInv'
  <2>1. CASE \/ Rollback(p) \/ RecoverIntent(p) \/ Recover(p) \/ PlanPrune(p)
             \/ PruneCollection(p)
    BY <2>1, QuietSnapshots
    DEF IInv, TypeOK, Rollback, RecoverIntent, Recover, PlanPrune, PruneCollection, Building
  <2>2. CASE EndMaintenance(p)
    BY <2>2, QuietSnapshots DEF IInv, TypeOK, EndMaintenance, Exit, Building
  <2>3. CASE RemoveSome(p) \/ RemoveRest(p)
    <3>1. \A h \in Gens : manifest'[h] \in {manifest[h], None}
      BY <2>3 DEF IInv, TypeOK, RemoveSome, RemoveRest
    <3> QED
      BY <2>3, <3>1, QuietSnapshots DEF RemoveSome, RemoveRest
  <2> QED
    BY <1>3, <2>1, <2>2, <2>3 DEF Maintenance
<1>4. ASSUME NEW p \in Procs, PlanPapers(p) PROVE SnapshotInv'
  BY <1>4, WorldIsNumber DEF IInv, TypeOK, SnapshotInv, PlanPapers, PlansFirst, Building
<1>5. ASSUME NEW p \in Procs, Crash(p) PROVE SnapshotInv'
  BY <1>5, QuietSnapshots DEF IInv, TypeOK, Crash, Exit, Building
<1>6. CASE EditLibrary
  BY <1>6, WorldIsNumber DEF IInv, SnapshotInv, EditLibrary
<1>7. CASE DamagePointer
  BY <1>7, QuietSnapshots DEF DamagePointer
<1>8. ASSUME NEW g \in Gens, DamageGeneration(g) PROVE SnapshotInv'
  BY <1>8, QuietSnapshots, DamageWrites DEF DamageGeneration
<1>9. CASE UNCHANGED vars
  BY <1>9 DEF SnapshotInv, vars
<1> QED
  BY <1>1, <1>2, <1>3, <1>4, <1>5, <1>6, <1>7, <1>8, <1>9 DEF Next, Process, Environment

(***************************************************************************)
(* The truth of latest-attempt.json                                        *)
(***************************************************************************)

(* A step of one process that leaves the files alone.                      *)
LEMMA RestingTruth ==
    ASSUME TruthInv, NEW p \in Procs, UNCHANGED <<manifest, latest, superseded, damage>>,
           \A q \in Procs : q # p => UNCHANGED <<pc[q], gen[q]>>,
           Vouched(p)'
    PROVE  TruthInv'
BY DEF TruthInv, LatestTruthful, Vouched

(* A process that ends vouches for nothing.                                *)
LEMMA ExitTruth ==
    ASSUME IInv, TruthInv, NEW p \in Procs, NEW c, Exit(p, c),
           UNCHANGED <<manifest, latest, superseded, damage>>
    PROVE  TruthInv'
<1>1. gen'[p] = None /\ pc'[p] = "idle"
  BY DEF IInv, TypeOK, Exit
<1> QED
  BY <1>1, RestingTruth DEF IInv, TypeOK, Exit, Vouched

(* An attempt is announced with the state of its manifest, or as building. *)
LEMMA AnnouncedTruth ==
    ASSUME TruthInv, AttemptInv, NEW p \in Procs, gen[p] \in Gens,
           gen[p] \in begun \ superseded, manifest[gen[p]] # None,
           NEW s \in {"building", "complete"}, Announce(gen[p], s),
           \/ s = "building" \/ gen[p] \in damage \/ manifest[gen[p]].state = s,
           UNCHANGED <<manifest, gen, damage>>,
           pc'[p] \in {"begun", "activating", "handling"},
           \A q \in Procs : q # p => pc'[q] = pc[q] /\ pc[q] \notin Locked
    PROVE  TruthInv'
<1>1. latest' # None /\ latest'.id = gen[p] /\ latest'.state = s
  BY Announced DEF Announce
<1>2. superseded \subseteq superseded'
      /\ (latest # None /\ latest.id # gen[p] => latest.id \in superseded')
  BY DEF Announce
<1>3. LatestTruthful'
  BY <1>1 DEF LatestTruthful
<1>4. \A q \in Procs : Vouched(q)'
  BY <1>1, <1>2 DEF TruthInv, Vouched
<1> QED
  BY <1>1, <1>3, <1>4 DEF TruthInv, Vouched

(* A recorded event names the attempt that is there already.               *)
LEMMA RecordedTruth ==
    ASSUME IInv, TruthInv, NEW p \in Procs, gen[p] \in Gens, manifest[gen[p]] # None,
           NEW s \in {"building", "complete", "failed"}, RecordEvent(gen[p], s),
           \/ s = "building" \/ gen[p] \in damage \/ manifest[gen[p]].state = s,
           NEW c, Exit(p, c), UNCHANGED <<manifest, damage>>
    PROVE  TruthInv'
<1>1. CASE UNCHANGED <<latest, superseded>>
  BY <1>1, ExitTruth
<1>2. CASE (latest = None \/ latest.id = gen[p]) /\ Announce(gen[p], s)
  <2>1. latest' = [id |-> gen[p], state |-> s] /\ superseded' = superseded
    BY <1>2 DEF Announce
  <2>2. latest' # None
    BY <2>1, RecordAssumption DEF Attempts
  <2>3. gen'[p] = None /\ pc'[p] = "idle" /\ \A q \in Procs : q # p => UNCHANGED <<pc[q], gen[q]>>
    BY DEF IInv, TypeOK, Exit
  <2>4. \A q \in Procs : Vouched(q)'
    BY <1>2, <2>1, <2>2, <2>3 DEF TruthInv, Vouched
  <2>5. LatestTruthful'
    BY <2>1 DEF LatestTruthful
  <2> QED
    BY <2>1, <2>4, <2>5 DEF TruthInv, Vouched
<1> QED
  BY <1>1, <1>2 DEF RecordEvent

(* A new manifest makes nothing untrue.                                    *)
LEMMA CreatedTruth ==
    ASSUME IInv, HInv, TruthInv, NEW p \in Procs, NEW g \in Gens, g \notin begun,
           NEW m, m # None, m.state = "building",
           manifest' = [manifest EXCEPT ![g] = m], gen' = [gen EXCEPT ![p] = g],
           UNCHANGED <<latest, superseded, damage>>,
           pc' = [pc EXCEPT ![p] = "beginning"] \/ pc' = [pc EXCEPT ![p] = "rebeginning"],
           \A q \in Procs : q # p => pc'[q] \notin Locked
    PROVE  TruthInv'
<1>1. /\ manifest'[g] = m /\ gen'[p] = g /\ pc'[p] \in {"beginning", "rebeginning"}
      /\ \A h \in Gens : h # g => manifest'[h] = manifest[h]
      /\ \A q \in Procs : q # p => gen'[q] = gen[q] /\ pc'[q] = pc[q]
  BY DEF IInv, TypeOK
<1>2. latest # None => latest.id \in Gens /\ latest.id # g
  BY DEF IInv, TypeOK, HInv, AttemptInv
<1>3. LatestTruthful' /\ (latest' # None => manifest'[latest'.id] # None)
  BY <1>1, <1>2 DEF TruthInv, LatestTruthful
<1>4. \A q \in Procs : Vouched(q)'
  BY <1>1 DEF TruthInv, Vouched
<1>5. \A h \in Gens : manifest'[h] # None /\ manifest'[h].state = "unreadable" => h \in damage
  BY <1>1 DEF TruthInv
<1> QED
  BY <1>3, <1>4, <1>5 DEF TruthInv, Vouched

(* The manifest of an attempt moves on from building.                      *)
LEMMA SettledTruth ==
    ASSUME IInv, TruthInv, NEW p \in Procs, gen[p] \in Gens, pc[p] \in Locked,
           manifest[gen[p]] # None, manifest[gen[p]].state = "building",
           NEW m, m # None, m.state \in {"complete", "failed"},
           manifest' = [manifest EXCEPT ![gen[p]] = m],
           UNCHANGED <<gen, latest, superseded, damage>>,
           Vouched(p)', \A q \in Procs : q # p => pc'[q] = pc[q]
    PROVE  TruthInv'
<1>1. /\ manifest'[gen[p]] = m
      /\ \A h \in Gens : h # gen[p] => manifest'[h] = manifest[h]
  BY DEF IInv, TypeOK
<1>2. latest # None => latest.id \in Gens
  BY RecordAssumption DEF IInv, TypeOK, Attempts
<1>3. LatestTruthful' /\ (latest' # None => manifest'[latest'.id] # None)
  BY <1>1, <1>2 DEF TruthInv, LatestTruthful
<1>4. \A q \in Procs : q # p => pc[q] \notin Locked
  BY Alone DEF IInv
<1>5. \A q \in Procs : q # p => Vouched(q)'
  BY <1>1, <1>4 DEF TruthInv, Vouched
<1>6. \A h \in Gens : manifest'[h] # None /\ manifest'[h].state = "unreadable" => h \in damage
  BY <1>1 DEF TruthInv
<1> QED
  BY <1>3, <1>5, <1>6 DEF TruthInv, Vouched

(* No step makes latest-attempt.json untrue.                               *)
LEMMA TruthKept ==
    ASSUME IInv, HInv, LineageInv, TruthInv, [Next]_vars
    PROVE  TruthInv'
<1>1. ASSUME NEW p \in Procs, Build(p) PROVE TruthInv'
  <2>1. CASE BeginBuild(p)
    <3>1. PICK g \in Gens : /\ g \notin begun
                            /\ manifest' = [manifest EXCEPT ![g] =
                                  NewManifest(Snapshot(p), World[world].embedding)]
                            /\ gen' = [gen EXCEPT ![p] = g]
      BY <2>1 DEF BeginBuild, Create, Fresh
    <3>2. Snapshot(p) \in DOMAIN World
      BY DEF IInv, TypeOK, Snapshot
    <3>3. /\ NewManifest(Snapshot(p), World[world].embedding) # None
          /\ NewManifest(Snapshot(p), World[world].embedding).state = "building"
      BY <3>2, NewManifestFacts DEF IInv
    <3>4. \A q \in Procs : q # p => pc'[q] \notin Locked
      BY <2>1, NobodyLocked DEF IInv, BeginBuild, Acquire
    <3> QED
      BY <2>1, <3>1, <3>3, <3>4, CreatedTruth DEF BeginBuild
  <2>2. CASE AnnounceBegin(p)
    <3>1. /\ gen[p] \in Gens /\ manifest[gen[p]] # None
          /\ gen[p] \in begun \ superseded
      BY <2>2, ConfigAssumption DEF IInv, CandidateInv, HInv, AttemptInv, AnnounceBegin
    <3>2. \A q \in Procs : q # p => pc'[q] = pc[q] /\ pc[q] \notin Locked
      BY <2>2, Alone DEF IInv, TypeOK, AnnounceBegin
    <3>3. pc'[p] = "begun"
      BY <2>2 DEF IInv, TypeOK, AnnounceBegin
    <3> QED
      BY <2>2, <3>1, <3>2, <3>3, AnnouncedTruth DEF HInv, AnnounceBegin
  <2>3. CASE Seal(p)
    <3>1. PICK m \in Manifests : /\ manifest' = [manifest EXCEPT ![gen[p]] = m]
                                 /\ m # None /\ m.state = "complete"
      BY <2>3, SealWrites
    <3>2. /\ gen[p] \in Gens /\ manifest[gen[p]] # None
          /\ manifest[gen[p]].state = "building"
      BY <2>3, SealWrites
    <3>3. Vouched(p)'
      BY <2>3 DEF IInv, TypeOK, TruthInv, Vouched, Seal
    <3> QED
      BY <2>3, <3>1, <3>2, <3>3, SettledTruth DEF IInv, TypeOK, Seal
  <2>4. CASE AnnounceSealed(p)
    <3>1. /\ gen[p] \in Gens /\ manifest[gen[p]] # None
          /\ gen[p] \in begun \ superseded
          /\ gen[p] \in damage \/ manifest[gen[p]].state = "complete"
      BY <2>4, ConfigAssumption
      DEF IInv, CandidateInv, Sound, HInv, AttemptInv, LineageInv, AnnounceSealed
    <3>2. \A q \in Procs : q # p => pc'[q] = pc[q] /\ pc[q] \notin Locked
      BY <2>4, Alone DEF IInv, TypeOK, AnnounceSealed
    <3>3. pc'[p] = "activating"
      BY <2>4 DEF IInv, TypeOK, AnnounceSealed
    <3> QED
      BY <2>4, <3>1, <3>2, <3>3, AnnouncedTruth DEF HInv, AnnounceSealed
  <2>5. CASE CreateCollection(p) \/ Fill(p) \/ Activate(p)
    <3>1. Vouched(p)'
      BY <2>5 DEF IInv, TypeOK, TruthInv, Vouched, CreateCollection, Fill, Activate
    <3> QED
      BY <2>5, <3>1, RestingTruth DEF IInv, TypeOK, CreateCollection, Fill, Activate
  <2>6. CASE EndBuild(p) \/ ReuseActive(p)
    BY <2>6, ExitTruth DEF EndBuild, ReuseActive
  <2> QED
    BY <1>1, <2>1, <2>2, <2>3, <2>4, <2>5, <2>6 DEF Build
<1>2. ASSUME NEW p \in Procs, Handler(p) PROVE TruthInv'
  <2>1. CASE BeginFailed(p)
    <3>1. PICK g \in Gens : /\ g \notin begun
                            /\ manifest' = [manifest EXCEPT ![g] =
                                  NewManifest(snap[p], World[world].embedding)]
                            /\ gen' = [gen EXCEPT ![p] = g]
      BY <2>1 DEF BeginFailed, Create, Fresh
    <3>2. /\ NewManifest(snap[p], World[world].embedding) # None
          /\ NewManifest(snap[p], World[world].embedding).state = "building"
      BY NewManifestFacts DEF IInv, TypeOK
    <3>3. \A q \in Procs : q # p => pc'[q] \notin Locked
      BY <2>1, Alone DEF IInv, BeginFailed
    <3> QED
      BY <2>1, <3>1, <3>2, <3>3, CreatedTruth DEF BeginFailed
  <2>2. CASE AnnounceFailed(p)
    <3>1. /\ gen[p] \in Gens /\ manifest[gen[p]] # None
          /\ gen[p] \in begun \ superseded
      BY <2>2, ConfigAssumption
      DEF IInv, CandidateInv, HInv, AttemptInv, TruthInv, Vouched, AnnounceFailed
    <3>2. \A q \in Procs : q # p => pc'[q] = pc[q] /\ pc[q] \notin Locked
      BY <2>2, Alone DEF IInv, TypeOK, AnnounceFailed
    <3>3. pc'[p] = "handling"
      BY <2>2 DEF IInv, TypeOK, AnnounceFailed
    <3> QED
      BY <2>2, <3>1, <3>2, <3>3, AnnouncedTruth DEF HInv, AnnounceFailed
  <2>3. CASE Fail(p)
    <3>1. Vouched(p)'
      BY <2>3 DEF IInv, TypeOK, TruthInv, Vouched, Fail
    <3>2. CASE UNCHANGED manifest
      BY <2>3, <3>1, <3>2, RestingTruth DEF IInv, TypeOK, Fail
    <3>3. CASE manifest' # manifest
      <4>1. PICK m \in Manifests : /\ manifest' = [manifest EXCEPT ![gen[p]] = m]
                                   /\ m # None /\ m.state = "failed"
        BY <2>3, <3>3, FailWrites
      <4>2. /\ gen[p] \in Gens /\ manifest[gen[p]] # None
            /\ manifest[gen[p]].state = "building"
        BY <2>3, <3>3, FailWrites
      <4> QED
        BY <2>3, <3>1, <4>1, <4>2, SettledTruth DEF IInv, TypeOK, Fail
    <3> QED
      BY <3>2, <3>3
  <2>4. CASE RecordFailure(p)
    <3>1. gen[p] \in Gens
      BY <2>4 DEF IInv, CandidateInv, RecordFailure
    <3>2. latest # None /\ (latest.id = gen[p] => manifest[gen[p]] # None)
      BY <2>4, <3>1, ConfigAssumption DEF TruthInv, Vouched, RecordFailure
    <3>3. CASE latest.id # gen[p]
      BY <2>4, <3>2, <3>3, ExitTruth DEF RecordFailure, RecordEvent
    <3>4. CASE latest.id = gen[p]
      <4>1. manifest[gen[p]] # None /\ manifest[gen[p]] \in Manifests
        BY <3>1, <3>2, <3>4 DEF IInv, TypeOK
      <4>2. \E s \in {"building", "complete", "failed"} :
              /\ RecordEvent(gen[p], s)
              /\ s = "building" \/ gen[p] \in damage \/ manifest[gen[p]].state = s
        BY <2>4, <3>1, <4>1 DEF TruthInv, Unreadable, Manifests, RecordFailure
      <4> QED
        BY <2>4, <3>1, <4>1, <4>2, RecordedTruth DEF RecordFailure
    <3> QED
      BY <3>3, <3>4
  <2>5. CASE Raise(p) \/ RaiseEarly(p) \/ Reacquire(p)
    <3>1. Vouched(p)'
      BY <2>5
      DEF IInv, TypeOK, CandidateInv, TruthInv, Vouched, Raise, RaiseEarly, Reacquire, Handle,
          MayStart, PlansFirst
    <3> QED
      BY <2>5, <3>1, RestingTruth DEF IInv, TypeOK, Raise, RaiseEarly, Reacquire, Handle
  <2>6. CASE GiveUp(p)
    BY <2>6, ExitTruth DEF GiveUp
  <2> QED
    BY <1>2, <2>1, <2>2, <2>3, <2>4, <2>5, <2>6 DEF Handler
<1>3. ASSUME NEW p \in Procs, Maintenance(p) PROVE TruthInv'
  <2>1. CASE Rollback(p)
    <3>1. /\ manifest[manifest[LoadActive].prev] # None
          /\ manifest[manifest[LoadActive].prev].state = "complete"
      BY <2>1 DEF Rollback, Trusted
    <3>2. Vouched(p)'
      BY <2>1, <3>1 DEF IInv, TypeOK, Vouched, Rollback
    <3> QED
      BY <2>1, <3>2, RestingTruth DEF IInv, TypeOK, Rollback
  <2>2. CASE RecoverIntent(p) \/ Recover(p)
    <3>1. Vouched(p)'
      BY <2>2 DEF IInv, TypeOK, TruthInv, Vouched, RecoverIntent, Recover, Trusted
    <3> QED
      BY <2>2, <3>1, RestingTruth DEF IInv, TypeOK, RecoverIntent, Recover
  <2>3. CASE EndMaintenance(p)
    <3>1. CASE UNCHANGED <<latest, superseded>>
      BY <2>3, <3>1, ExitTruth DEF EndMaintenance
    <3>2. CASE pc[p] = "switched" /\ RecordEvent(gen[p], "complete")
      <4>1. /\ gen[p] \in Gens /\ manifest[gen[p]] # None
            /\ gen[p] \in damage \/ manifest[gen[p]].state = "complete"
        BY <3>2 DEF IInv, CandidateInv, TruthInv, Vouched
      <4> QED
        BY <2>3, <3>2, <4>1, RecordedTruth DEF EndMaintenance
    <3> QED
      BY <2>3, <3>1, <3>2 DEF EndMaintenance
  <2>4. CASE PlanPrune(p) \/ PruneCollection(p)
    <3>1. Vouched(p)'
      BY <2>4 DEF IInv, TypeOK, TruthInv, Vouched, PlanPrune, PruneCollection
    <3> QED
      BY <2>4, <3>1, RestingTruth DEF IInv, TypeOK, PlanPrune, PruneCollection
  <2>5. CASE RemoveSome(p) \/ RemoveRest(p)
    <3>1. /\ gen[p] \in Gens /\ gen[p] \in doomed[p] /\ pc[p] = "pruning" /\ pc' = pc
          /\ \A h \in Gens : h # gen[p] => manifest'[h] = manifest[h]
          /\ manifest'[gen[p]] \in {manifest[gen[p]], None}
          /\ UNCHANGED <<latest, superseded, damage>>
      BY <2>5 DEF IInv, TypeOK, PruneInv, RemoveSome, RemoveRest
    <3>2. latest # None => latest.id \in Gens /\ latest.id # gen[p]
      BY <3>1, RecordAssumption DEF IInv, TypeOK, Attempts, HInv, KeepInv
    <3>3. LatestTruthful' /\ (latest' # None => manifest'[latest'.id] # None)
      BY <3>1, <3>2 DEF TruthInv, LatestTruthful
    <3>4. \A q \in Procs : q # p => pc[q] \notin Locked /\ gen'[q] = gen[q]
      BY <2>5, <3>1, Alone DEF IInv, TypeOK, RemoveSome, RemoveRest
    <3>5. \A q \in Procs : Vouched(q)'
      BY <3>1, <3>4 DEF TruthInv, Vouched
    <3>6. \A h \in Gens : manifest'[h] # None /\ manifest'[h].state = "unreadable" => h \in damage
      BY <3>1 DEF TruthInv
    <3> QED
      BY <3>1, <3>3, <3>5, <3>6 DEF TruthInv
  <2> QED
    BY <1>3, <2>1, <2>2, <2>3, <2>4, <2>5 DEF Maintenance
<1>4. ASSUME NEW p \in Procs, PlanPapers(p) PROVE TruthInv'
  <2>1. Vouched(p)'
    BY <1>4 DEF IInv, TypeOK, TruthInv, Vouched, PlanPapers, PlansFirst
  <2> QED
    BY <1>4, <2>1, RestingTruth DEF IInv, TypeOK, PlanPapers, PlansFirst
<1>5. ASSUME NEW p \in Procs, Crash(p) PROVE TruthInv'
  BY <1>5, ExitTruth DEF Crash
<1>6. CASE EditLibrary \/ UNCHANGED vars
  BY <1>6 DEF TruthInv, LatestTruthful, Vouched, EditLibrary, vars
<1>7. CASE DamagePointer
  BY <1>7 DEF TruthInv, LatestTruthful, Vouched, DamagePointer
<1>8. ASSUME NEW g \in Gens, DamageGeneration(g) PROVE TruthInv'
  <2>1. /\ \A h \in Gens : h # g => manifest'[h] = manifest[h]
        /\ manifest[g] # None /\ manifest'[g] # None
        /\ damage' = damage \cup {g} /\ UNCHANGED <<latest, superseded, pc, gen>>
    BY <1>8, DamageWrites DEF DamageGeneration
  <2>2. latest # None => latest.id \in Gens
    BY RecordAssumption DEF IInv, TypeOK, Attempts
  <2>3. LatestTruthful' /\ (latest' # None => manifest'[latest'.id] # None)
    BY <2>1, <2>2 DEF TruthInv, LatestTruthful
  <2>4. \A q \in Procs : pc[q] \in {"rebeginning", "switched", "recovering"} => gen[q] \in Gens
    BY DEF IInv, CandidateInv
  <2>5. \A q \in Procs : Vouched(q)'
    BY <2>1, <2>4 DEF TruthInv, Vouched
  <2>6. \A h \in Gens : manifest'[h] # None /\ manifest'[h].state = "unreadable" => h \in damage'
    BY <2>1 DEF TruthInv
  <2> QED
    BY <2>3, <2>5, <2>6 DEF TruthInv
<1> QED
  BY <1>1, <1>2, <1>3, <1>4, <1>5, <1>6, <1>7, <1>8 DEF Next, Process, Environment

(***************************************************************************)
(* What a build reports                                                    *)
(***************************************************************************)

(* A step of one process that moves no pointer.                            *)
LEMMA QuietReports ==
    ASSUME ReportInv, NEW p \in Procs, UNCHANGED <<pointer, committed, damage>>,
           \A g \in Gens : told'[g] = "active" => told[g] = "active",
           \A q \in Procs : q # p => UNCHANGED <<pc[q], gen[q], code[q]>>,
           \A q \in Procs : gen[q] \in Gens \cup {None},
           pc'[p] = "unlocked" => Papers,
           ~Papers /\ damage = {} => Reported(p)'
    PROVE  ReportInv'
BY DEF ReportInv, Reported

(* A process that ends has nothing left to report.                         *)
LEMMA ExitReports ==
    ASSUME IInv, ReportInv, NEW p \in Procs,
           NEW c \in {"none", "ok", "warning", "interrupted", "failed"}, Exit(p, c),
           UNCHANGED <<pointer, committed, damage>>
    PROVE  ReportInv'
<1>1. \A g \in Gens : told'[g] = "active" => told[g] = "active"
  BY DEF IInv, TypeOK, Exit
<1>2. /\ gen'[p] = None /\ pc'[p] = "idle"
      /\ \A q \in Procs : q # p => UNCHANGED <<pc[q], gen[q], code[q]>>
  BY DEF IInv, TypeOK, Exit
<1> QED
  BY <1>1, <1>2, QuietReports DEF IInv, TypeOK, Reported

(* When the lock is taken, only its new holder has a generation.           *)
LEMMA LockedReports ==
    ASSUME IInv, ReportInv, NEW p \in Procs, committed \subseteq committed', UNCHANGED damage,
           \A g \in Gens : told'[g] = "active" => told[g] = "active" \/ g \in committed',
           \A q \in Procs : q # p =>
              UNCHANGED <<pc[q], gen[q]>> /\ pc[q] \notin Locked,
           pc'[p] # "unlocked", ~Papers /\ damage = {} => Reported(p)'
    PROVE  ReportInv'
<1>1. ASSUME ~Papers, NEW q \in Procs, q # p PROVE gen'[q] = None /\ pc'[q] # "unlocked"
  BY <1>1 DEF IInv, TypeOK, CandidateInv, ReportInv
<1> QED
  BY <1>1 DEF ReportInv, Reported

(* No step of a notes build forgets what it has published.                 *)
LEMMA ReportsKept ==
    ASSUME IInv, HInv, LineageInv, ReportInv, [Next]_vars
    PROVE  ReportInv'
<1> USE DEF Reported
<1>1. ASSUME NEW p \in Procs, Build(p) PROVE ReportInv'
  <2>1. CASE BeginBuild(p)
    <3>1. PICK g \in Gens : g \notin begun /\ gen' = [gen EXCEPT ![p] = g]
      BY <2>1 DEF BeginBuild, Create, Fresh
    <3>2. told[g] # "active"
      BY <3>1 DEF LineageInv, ReportInv
    <3> QED
      BY <2>1, <3>1, <3>2, QuietReports DEF IInv, TypeOK, BeginBuild
  <2>2. CASE Activate(p)
    <3>1. \A q \in Procs : q # p => UNCHANGED <<pc[q], gen[q]>> /\ pc[q] \notin Locked
      BY <2>2, Alone DEF IInv, TypeOK, Activate
    <3>2. \A g \in Gens : told'[g] = "active" => told[g] = "active" \/ g \in committed'
      BY <2>2 DEF IInv, TypeOK, Activate, Switch
    <3> QED
      BY <2>2, <3>1, <3>2, LockedReports DEF IInv, TypeOK, Activate, Switch
  <2>3. CASE AnnounceBegin(p) \/ CreateCollection(p) \/ Fill(p) \/ Seal(p) \/ AnnounceSealed(p)
    <3>1. gen[p] \in Gens /\ gen[p] \notin committed
      BY <2>3
      DEF IInv, CandidateInv, LineageInv, Building, AnnounceBegin, CreateCollection, Fill,
          Seal, AnnounceSealed
    <3>2. told[gen[p]] # "active"
      BY <3>1 DEF ReportInv
    <3> QED
      BY <2>3, <3>2, QuietReports
      DEF IInv, TypeOK, AnnounceBegin, CreateCollection, Fill, Seal, AnnounceSealed
  <2>4. CASE EndBuild(p) \/ ReuseActive(p)
    BY <2>4, ExitReports DEF EndBuild, ReuseActive
  <2> QED
    BY <1>1, <2>1, <2>2, <2>3, <2>4 DEF Build
<1>2. ASSUME NEW p \in Procs, Handler(p) PROVE ReportInv'
  <2>1. CASE BeginFailed(p)
    <3>1. PICK g \in Gens : g \notin begun /\ gen' = [gen EXCEPT ![p] = g]
      BY <2>1 DEF BeginFailed, Create, Fresh
    <3>2. told[g] # "active"
      BY <3>1 DEF LineageInv, ReportInv
    <3> QED
      BY <2>1, <3>1, <3>2, QuietReports DEF IInv, TypeOK, BeginFailed
  <2>2. CASE Fail(p)
    <3>1. ASSUME ~Papers, damage = {}, told[gen[p]] = "active"
          PROVE  code'[p] = "warning"
      <4>1. /\ gen[p] \in Gens /\ pointer = [id |-> gen[p], fp |-> SealedPrint]
            /\ pointer \in Pointers
        BY <2>2, <3>1 DEF IInv, TypeOK, ReportInv, Fail, Pointers
      <4>2. Sound(gen[p])
        BY <3>1, <4>1 DEF IInv, PointerInv
      <4>3. LoadActive = gen[p]
        BY <4>1, <4>2, RecordAssumption DEF LoadActive, Sound, Fingerprint, SealedPrint
      <4>4. Outcome(gen[p]) = "committed"
        BY <4>1, <4>2, <4>3, ConfigAssumption DEF Outcome, Unreadable, PublicationState, Sound
      <4> QED
        BY <2>2, <4>4 DEF IInv, TypeOK, Fail, ExitCode
    <3> QED
      BY <2>2, <3>1, QuietReports DEF IInv, TypeOK, Fail
  <2>3. CASE AnnounceFailed(p)
    <3>1. told[gen[p]] # "active" \/ Papers \/ damage # {}
      BY <2>3, ConfigAssumption DEF IInv, CandidateInv, ReportInv, AnnounceFailed
    <3> QED
      BY <2>3, <3>1, QuietReports DEF IInv, TypeOK, AnnounceFailed
  <2>4. CASE Raise(p)
    <3>1. ~Papers /\ damage = {} => Reported(p)'
      BY <2>4 DEF IInv, TypeOK, ReportInv, Raise, Handle
    <3> QED
      BY <2>4, <3>1, QuietReports DEF IInv, TypeOK, Raise, Handle
  <2>5. CASE RaiseEarly(p)
    <3>1. gen'[p] = None
      BY <2>5 DEF IInv, CandidateInv, RaiseEarly, MayStart, PlansFirst
    <3> QED
      BY <2>5, <3>1, QuietReports DEF IInv, TypeOK, RaiseEarly, Handle
  <2>6. CASE Reacquire(p)
    BY <2>6, QuietReports DEF IInv, TypeOK, ReportInv, Reacquire
  <2>7. CASE GiveUp(p)
    BY <2>7, ExitReports DEF GiveUp, ExitCode
  <2>8. CASE RecordFailure(p)
    BY <2>8, ExitReports DEF IInv, TypeOK, RecordFailure
  <2> QED
    BY <1>2, <2>1, <2>2, <2>3, <2>4, <2>5, <2>6, <2>7, <2>8 DEF Handler
<1>3. ASSUME NEW p \in Procs, Maintenance(p) PROVE ReportInv'
  <2>1. CASE Rollback(p)
    <3>1. \A q \in Procs : q # p => UNCHANGED <<pc[q], gen[q]>> /\ pc[q] \notin Locked
      BY <2>1, NobodyLocked DEF IInv, TypeOK, Rollback, Acquire
    <3> QED
      BY <2>1, <3>1, LockedReports DEF IInv, TypeOK, ReportInv, Rollback, Switch
  <2>2. CASE Recover(p)
    <3>1. \A q \in Procs : q # p => UNCHANGED <<pc[q], gen[q]>> /\ pc[q] \notin Locked
      BY <2>2, Alone DEF IInv, TypeOK, Recover
    <3> QED
      BY <2>2, <3>1, LockedReports DEF IInv, TypeOK, ReportInv, Recover, Switch
  <2>3. CASE \/ RecoverIntent(p) \/ PlanPrune(p) \/ PruneCollection(p) \/ RemoveSome(p)
             \/ RemoveRest(p)
    BY <2>3, QuietReports
    DEF IInv, TypeOK, RecoverIntent, PlanPrune, PruneCollection, RemoveSome, RemoveRest
  <2>4. CASE EndMaintenance(p)
    BY <2>4, ExitReports DEF EndMaintenance
  <2> QED
    BY <1>3, <2>1, <2>2, <2>3, <2>4 DEF Maintenance
<1>4. ASSUME NEW p \in Procs, PlanPapers(p) PROVE ReportInv'
  <2>1. gen'[p] = None
    BY <1>4 DEF IInv, CandidateInv, PlanPapers, PlansFirst
  <2> QED
    BY <1>4, <2>1, QuietReports DEF IInv, TypeOK, PlanPapers, PlansFirst
<1>5. ASSUME NEW p \in Procs, Crash(p) PROVE ReportInv'
  BY <1>5, ExitReports DEF Crash
<1>6. CASE EditLibrary \/ UNCHANGED vars
  BY <1>6 DEF ReportInv, EditLibrary, vars
<1>7. CASE DamagePointer \/ \E g \in Gens : DamageGeneration(g)
  BY <1>7 DEF ReportInv, DamagePointer, DamageGeneration
<1> QED
  BY <1>1, <1>2, <1>3, <1>4, <1>5, <1>6, <1>7 DEF Next, Process, Environment

(***************************************************************************)
(* The withdrawal policy                                                   *)
(***************************************************************************)

(* A finite set that is not the larger one can be mapped into the other.   *)
LEMMA SmallerInjects ==
    ASSUME NEW S, NEW T, IsFiniteSet(S), IsFiniteSet(T), Cardinality(S) <= Cardinality(T)
    PROVE  \E f \in [S -> T] : \A x, y \in S : f[x] = f[y] => x = y
<1> DEFINE m == Cardinality(S)
           n == Cardinality(T)
<1>1. m \in Nat /\ n \in Nat /\ ExistsBijection(1 .. m, S) /\ ExistsBijection(1 .. n, T)
  BY FS_CardinalityType
<1>2. PICK a : a \in Bijection(1 .. m, S)
  BY <1>1, Fun_ExistsBij
<1>3. PICK b : b \in Bijection(1 .. n, T)
  BY <1>1, Fun_ExistsBij
<1> HIDE DEF m, n
<1>4. /\ a \in [1 .. m -> S] /\ \A x \in S : \E k \in 1 .. m : a[k] = x
  BY <1>2 DEF Bijection, Injection, Surjection
<1>5. /\ b \in [1 .. n -> T] /\ \A k, l \in 1 .. n : b[k] = b[l] => k = l
  BY <1>3, Fun_BijectionProperties
<1> DEFINE place(x) == CHOOSE k \in 1 .. m : a[k] = x
           f == [x \in S |-> b[place(x)]]
<1>6. \A x \in S : place(x) \in 1 .. m /\ a[place(x)] = x
  BY <1>4
<1>7. \A x \in S : place(x) \in 1 .. n
  BY <1>1, <1>6 DEF m, n
<1> HIDE DEF place
<1>8. f \in [S -> T]
  BY <1>5, <1>7
<1>9. \A x, y \in S : f[x] = f[y] => x = y
  BY <1>5, <1>6, <1>7
<1> HIDE DEF f
<1> QED
  BY <1>8, <1>9

(* When no content is rarer among the new identities than among those that *)
(* disappear, every one of these has a successor of its own.               *)
LEMMA CoverPairs ==
    ASSUME NEW old \in DOMAIN World, NEW new \in DOMAIN World, RenamesCover(old, new)
    PROVE  Paired(old, new)
<1> DEFINE A == Gone(old, new)
           B == Gone(new, old)
           H(i) == World[old].sources[i]
           From(h) == WithHash(A, old, h)
           To(h) == WithHash(B, new, h)
           Injective(f, S) == \A x, y \in S : f[x] = f[y] => x = y
<1>1. IsFiniteSet(A) /\ IsFiniteSet(B)
  BY WorldAssumption, FS_Difference DEF Gone
<1>2. \A i \in A : H(i) \in Hashes(old) /\ i \in From(H(i))
  BY DEF Gone, Hashes, WithHash
<1>3. ASSUME NEW h \in Hashes(old) PROVE \E f \in [From(h) -> To(h)] : Injective(f, From(h))
  <2>1. From(h) \in SUBSET A /\ To(h) \in SUBSET B
    BY DEF WithHash
  <2>2. IsFiniteSet(From(h)) /\ IsFiniteSet(To(h))
    BY <1>1, <2>1, FS_Subset
  <2>3. Cardinality(From(h)) <= Cardinality(To(h))
    BY DEF RenamesCover
  <2> HIDE DEF From, To
  <2> QED
    BY <2>2, <2>3, SmallerInjects
<1> DEFINE inj(h) == CHOOSE f \in [From(h) -> To(h)] : Injective(f, From(h))
           pairing == [i \in A |-> inj(H(i))[i]]
<1>4. \A h \in Hashes(old) : inj(h) \in [From(h) -> To(h)] /\ Injective(inj(h), From(h))
  BY <1>3
<1> HIDE DEF inj
<1>5. \A i \in A : pairing[i] \in To(H(i))
  BY <1>2, <1>4
<1>6. \A i \in A : pairing[i] \in B /\ World[new].sources[pairing[i]] = H(i)
  BY <1>5 DEF WithHash
<1>7. ASSUME NEW i \in A, NEW j \in A, pairing[i] = pairing[j] PROVE i = j
  <2>1. H(i) = H(j)
    BY <1>6, <1>7
  <2>2. i \in From(H(i)) /\ j \in From(H(i)) /\ inj(H(i))[i] = inj(H(i))[j]
    BY <1>2, <1>7, <2>1
  <2> QED
    BY <1>2, <1>4, <2>2
<1>8. pairing \in [A -> B]
  BY <1>6
<1> HIDE DEF pairing, A, B
<1> QED
  BY <1>6, <1>7, <1>8 DEF Paired, A, B

(***************************************************************************)
(* The theorems                                                            *)
(***************************************************************************)

(* The invariant holds in every state.                                     *)
THEOREM LineageInvariance == Spec => [](IInv /\ HInv /\ LInv)
<1>1. ASSUME Init PROVE LInv
  <2>1. LineageInv /\ SnapshotInv
    BY <1>1, WorldAssumption DEF Init, LineageInv, SnapshotInv, Building
  <2>2. TruthInv /\ ReportInv
    BY <1>1 DEF Init, TruthInv, LatestTruthful, Vouched, ReportInv, Reported
  <2> QED
    BY <2>1, <2>2 DEF LInv
<1>2. IInv /\ HInv /\ LInv /\ [Next]_vars => LInv'
  BY LineageKept, SnapshotsKept, TruthKept, ReportsKept DEF LInv
<1> QED
  BY <1>1, <1>2, HistoryInvariance, PTL DEF Spec

(* The store implements the register of IndexRegister: whatever the        *)
(* builders, handlers and commands do to the files, readers (load_active)  *)
(* see it move forward to a version never published before, back to the    *)
(* one that version replaced, or, once it was damaged, where it is put.    *)
THEOREM StoreIsRegister == Spec => RefinesRegister
<1>1. Init => Register!RegisterInit
  BY DEF Init, Register!RegisterInit, LoadActive
<1>2. IInv /\ HInv /\ LInv /\ [Next]_vars => [Register!RegisterNext]_(Register!regs)
  BY StepRefines DEF LInv
<1> QED
  BY <1>1, <1>2, LineageInvariance, PTL DEF Spec, RefinesRegister, Register!RegisterSpec

(* latest-attempt.json, which begin, publish, fail and the commands write  *)
(* apart from the manifest, never claims another outcome than it has.      *)
THEOREM AttemptIsTrue == Spec => []LatestTruthful
<1>1. LInv => LatestTruthful
  BY DEF LInv, TruthInv
<1> QED
  BY <1>1, LineageInvariance, PTL

(* Whatever was renamed, removed or copied in the library, and whatever    *)
(* else was published since it began: a build without --allow-removals     *)
(* drops no source of the generation it replaces (source_removals in       *)
(* publish) without a new source of the same content in its place.         *)
THEOREM NothingWithdrawn == Spec => NoSilentWithdrawal
<1>1. ASSUME IInv, HInv, LInv, [Next]_vars, NEW p \in Procs \ Permissive,
             pc[p] = "activating", pc'[p] = "activated", LoadActive \in Gens
      PROVE  Paired(manifest[LoadActive].snap, snap[p])
  <2>1. RenamesCover(manifest[LoadActive].snap, snap[p])
    BY <1>1 DEF LInv, LineageInv, RemovalsAllowed
  <2>2. manifest[LoadActive].snap \in DOMAIN World /\ snap[p] \in DOMAIN World
    BY <1>1, LoadActiveFacts DEF IInv, TypeOK, Manifests
  <2> QED
    BY <2>1, <2>2, CoverPairs
<1>2. IInv /\ HInv /\ LInv /\ [Next]_vars =>
        [\A p \in Procs \ Permissive :
           pc[p] = "activating" /\ pc'[p] = "activated" /\ LoadActive \in Gens =>
              Paired(manifest[LoadActive].snap, snap[p])]_vars
  BY <1>1
<1> QED
  BY <1>2, LineageInvariance, PTL DEF Spec, NoSilentWithdrawal

(* The notes builder scans the library under the lock, so the generation   *)
(* it replaces was never built of a later library than its own.            *)
THEOREM NotesMoveForward ==
    ASSUME ~Papers
    PROVE  Spec => NoStalePublish
<1>1. ASSUME IInv, HInv, LInv, [Next]_vars, NEW p \in Procs,
             pc[p] = "activating", pc'[p] = "activated", LoadActive \in Gens
      PROVE  manifest[LoadActive].snap <= snap[p]
  <2>1. manifest[LoadActive] # None
    BY <1>1, LoadActiveFacts, RecordAssumption DEF IInv
  <2> QED
    BY <1>1, <2>1 DEF LInv, SnapshotInv, Building
<1>2. IInv /\ HInv /\ LInv /\ [Next]_vars =>
        [\A p \in Procs :
           pc[p] = "activating" /\ pc'[p] = "activated" /\ LoadActive \in Gens =>
              manifest[LoadActive].snap <= snap[p]]_vars
  BY <1>1
<1> QED
  BY <1>2, LineageInvariance, PTL DEF Spec, NoStalePublish

(* Nothing is damaged where nothing may be.                                *)
Undamaged == damage = {}

(* Nothing is ever damaged if no damage is allowed.                        *)
LEMMA NoDamage ==
    ASSUME MaxDamage = 0
    PROVE  Spec => []Undamaged
<1>1. Init => Undamaged
  BY DEF Init, Undamaged
<1>2. Undamaged /\ [Next]_vars => Undamaged'
  <2> USE DEF Undamaged
  <2> SUFFICES ASSUME damage = {}, [Next]_vars PROVE damage' = {}
    OBVIOUS
  <2>1. ~(Cardinality(damage) < MaxDamage)
    BY FS_EmptySet
  <2>2. ~DamagePointer /\ \A g \in Gens : ~DamageGeneration(g)
    BY <2>1 DEF DamagePointer, DamageGeneration
  <2>3. ASSUME NEW p \in Procs, Process(p) \/ Crash(p) PROVE UNCHANGED damage
    BY <2>3
    DEF Process, Build, Handler, Maintenance, PlanPapers, PlansFirst, BeginBuild,
        AnnounceBegin, CreateCollection, Fill, Seal, AnnounceSealed, Activate, EndBuild,
        ReuseActive, Raise, RaiseEarly, Reacquire, GiveUp, BeginFailed, AnnounceFailed,
        Fail, RecordFailure, Rollback, RecoverIntent, Recover, EndMaintenance, PlanPrune,
        PruneCollection, RemoveSome, RemoveRest, Crash
  <2> QED
    BY <2>2, <2>3 DEF Next, Environment, EditLibrary, vars
<1> QED
  BY <1>1, <1>2, PTL DEF Spec

(* A notes build that has made its generation active never exits with      *)
(* plain failure, whatever is raised after that, as long as nothing        *)
(* outside the program touches the files.                                  *)
THEOREM CommitsAreReported ==
    ASSUME ~Papers, MaxDamage = 0
    PROVE  Spec => CommitReported
<1>1. ASSUME IInv, HInv, LInv, Undamaged, [Next]_vars, NEW g \in Gens,
             told[g] = "active", told'[g] = "failed"
      PROVE  FALSE
  <2>1. ASSUME NEW p \in Procs, NEW c, Exit(p, c) PROVE c = "failed" /\ gen[p] = g
    BY <1>1, <2>1 DEF IInv, TypeOK, Exit
  <2>2. ASSUME NEW p \in Procs, gen[p] = g PROVE Reported(p)
    BY <1>1 DEF Undamaged, LInv, ReportInv
  <2>3. ASSUME NEW p \in Procs, Build(p) PROVE FALSE
    BY <1>1, <2>1, <2>3
    DEF IInv, TypeOK, Build, BeginBuild, AnnounceBegin, CreateCollection, Fill, Seal,
        AnnounceSealed, Activate, EndBuild, ReuseActive
  <2>4. ASSUME NEW p \in Procs, GiveUp(p) PROVE FALSE
    <3>1. gen[p] = g /\ pc[p] = "handling" /\ MustFail(g)
      BY <1>1, <2>1, <2>2, <2>4, ConfigAssumption
      DEF Undamaged, GiveUp, LInv, ReportInv, Reported, LockBusy
    <3>2. Sound(g)
      BY <1>1, <2>2, <3>1, ConfigAssumption
      DEF Undamaged, IInv, TypeOK, PointerInv, Pointers, Reported
    <3> QED
      BY <3>1, <3>2 DEF MustFail, Sound
  <2>5. ASSUME NEW p \in Procs, RecordFailure(p) PROVE FALSE
    BY <1>1, <2>1, <2>2, <2>5, ConfigAssumption DEF RecordFailure, Reported
  <2>6. ASSUME NEW p \in Procs, Handler(p), ~GiveUp(p), ~RecordFailure(p) PROVE FALSE
    BY <1>1, <2>6
    DEF Handler, Raise, RaiseEarly, Reacquire, BeginFailed, AnnounceFailed, Fail
  <2>7. ASSUME NEW p \in Procs, Maintenance(p) PROVE FALSE
    BY <1>1, <2>1, <2>7
    DEF Maintenance, Rollback, RecoverIntent, Recover, EndMaintenance, PlanPrune,
        PruneCollection, RemoveSome, RemoveRest
  <2>8. ASSUME NEW p \in Procs, PlanPapers(p) \/ Crash(p) PROVE FALSE
    BY <1>1, <2>1, <2>8 DEF PlanPapers, PlansFirst, Crash
  <2>9. ~Environment /\ ~UNCHANGED vars
    BY <1>1 DEF Environment, EditLibrary, DamagePointer, DamageGeneration, vars
  <2> QED
    BY <1>1, <2>3, <2>4, <2>5, <2>6, <2>7, <2>8, <2>9 DEF Next, Process
<1>2. IInv /\ HInv /\ LInv /\ Undamaged /\ [Next]_vars =>
        [\A g \in Gens : told[g] = "active" => told'[g] # "failed"]_vars
  BY <1>1
<1> QED
  BY <1>2, LineageInvariance, NoDamage, PTL DEF Spec, CommitReported

=============================================================================
