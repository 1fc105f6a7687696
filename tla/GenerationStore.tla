--------------------------- MODULE GenerationStore ---------------------------
(***************************************************************************)
(* One logical index collection ("notes" or "papers") of service/          *)
(* index_generation.py, with every process that writes it: the two         *)
(* builders (build_notes_db.py, build_pdf_db.py) and the maintenance tool  *)
(* (manage_index_generations.py: rollback, recover, prune).                *)
(*                                                                         *)
(* A generation is built in private, sealed by a complete manifest and     *)
(* made visible by replacing one pointer file.  Every action performs at   *)
(* most one atomic_write_json / collection / directory operation, so that  *)
(* an exception, a process death or another process can come between any   *)
(* two of them.                                                            *)
(*                                                                         *)
(* An operator whose comment begins with "Variant" is a plausible mistake  *)
(* in the operator that follows it.  No action uses one: each is there to  *)
(* show which property would notice it.                                    *)
(***************************************************************************)
EXTENDS Naturals, Sequences, FiniteSets

CONSTANTS
    Gens,        \* generation identities (uuid4, never drawn twice)
    Procs,       \* processes that run a builder or a maintenance command
    Papers,      \* TRUE: the papers builder; FALSE: the notes builder
    Permissive,  \* the processes started with --allow-removals
    World,       \* successive states of the library and its configuration
    MaxDamage,   \* bound: how many things the outside world may damage
    None, Garbled

(* World[w].sources maps each source identity to its content hash,         *)
(* World[w].complete says that every declared source can be read, and      *)
(* World[w].embedding is the embedding contract of the configuration.      *)
ASSUME WorldAssumption ==
    /\ DOMAIN World = 1 .. Len(World) /\ Len(World) \in Nat \ {0}
    /\ \A w \in DOMAIN World :
          World[w].complete \in BOOLEAN /\ IsFiniteSet(DOMAIN World[w].sources)

ASSUME ConfigAssumption ==
    /\ Papers \in BOOLEAN
    /\ MaxDamage \in Nat
    /\ Permissive \subseteq Procs
    /\ None \notin Gens \cup Procs \cup {Garbled}
    /\ Garbled \notin Gens

VARIABLES
    (* the files of <chroma>/.research-rag/<collection>/ and Chroma        *)
    manifest,    \* [g -> generations/<g>/manifest.json, or None]
    collection,  \* [g -> the Chroma collection of g]
    artifacts,   \* [g -> the other files of generations/<g>/]
    pointer,     \* active.json: None, Garbled or [id, fp]
    latest,      \* latest-attempt.json: None or [id, state]
    preserved,   \* the pointer values kept by recovery/ intent records
    (* the processes                                                       *)
    lock,        \* holder of writer.lock; the OS releases it on death
    pc, gen,     \* control point, and the generation the process works on
    snap,        \* the state of the library the build read
    err,         \* the exception being handled
    code,        \* the exit code decided by the exception handler
    doomed,      \* the generations a prune still has to delete
    original,    \* the pointer a recovery read first
    (* the outside world, and what an observer remembers                   *)
    world,       \* index into World
    begun,       \* identities already drawn
    committed,   \* generations the code has ever made active
    superseded,  \* generations latest-attempt.json no longer names
    told,        \* [g -> "active" once its builder has made it so, and then
                 \*       the exit code the builder reported]
    damage       \* what was damaged from outside: "pointer", generations

files == <<manifest, collection, artifacts, pointer, latest, preserved>>
procs == <<lock, pc, gen, snap, err, code, doomed, original>>
observed == <<world, begun, committed, superseded, told, damage>>
vars == <<files, procs, observed>>

(***************************************************************************)
(* The records on disk                                                     *)
(***************************************************************************)

SealedPrint == <<"complete", 0>>

Manifests ==
    [state : {"building", "complete", "failed", "unreadable"}, snap : DOMAIN World,
     model : {World[w].embedding : w \in DOMAIN World}, prev : Gens \cup {None},
     prevPrint : {SealedPrint, None}, rev : {0, 1}]

Pointers == [id : Gens, fp : {SealedPrint}]

Attempts == [id : Gens, state : {"building", "complete", "failed"}]

ASSUME RecordAssumption ==
    None \notin Manifests \cup Attempts /\ Pointers \cap {None, Garbled} = {}

(* The fields in which two manifests of one generation can differ.         *)
Fingerprint(m) == <<m.state, m.rev>>

NewManifest(s, e) ==
    [state |-> "building", snap |-> s, model |-> e, prev |-> None,
     prevPrint |-> None, rev |-> 0]

(***************************************************************************)
(* Reading the store                                                       *)
(***************************************************************************)

(* load_active: None, Garbled (GenerationIntegrityError) or a generation.  *)
LoadActive ==
    IF pointer \in {None, Garbled} THEN pointer
    ELSE LET m == manifest[pointer.id] IN
         IF m # None /\ m.state = "complete" /\ Fingerprint(m) = pointer.fp
         THEN pointer.id ELSE Garbled

PublicationState(g) ==
    CASE LoadActive = Garbled -> "unknown"
      [] LoadActive = g       -> "committed"
      [] OTHER                -> "not_active"

(* validate_artifacts and _validate_collection                             *)
Intact(g) == collection[g] = "full" /\ artifacts[g] = "full"

generation_usable(g) ==
    manifest[g] # None /\ manifest[g].state = "complete" /\ Intact(g)

same_inputs(g, s) ==
    /\ World[manifest[g].snap].sources = World[s].sources
    /\ manifest[g].model = World[world].embedding

(***************************************************************************)
(* The source-withdrawal policy                                            *)
(***************************************************************************)

Gone(old, new) == DOMAIN World[old].sources \ DOMAIN World[new].sources

WithHash(ids, w, h) == {i \in ids : World[w].sources[i] = h}

Hashes(w) == {World[w].sources[i] : i \in DOMAIN World[w].sources}

(* Variant: hashes compared as a set, so that one copy covers two.         *)
RenamesCoverAsSet(old, new) ==
    \A i \in Gone(old, new) : WithHash(Gone(new, old), new, World[old].sources[i]) # {}

(* publish lets a source disappear only when a new identity carries the    *)
(* same content; the Counter pairs them one to one.                        *)
RenamesCover(old, new) ==
    \A h \in Hashes(old) :
        Cardinality(WithHash(Gone(old, new), old, h))
            <= Cardinality(WithHash(Gone(new, old), new, h))

(* The papers builder first refuses any disappeared identity.              *)
RemovalsAllowed(p, old, new) ==
    \/ p \in Permissive
    \/ (Papers => Gone(old, new) = {}) /\ RenamesCover(old, new)

(***************************************************************************)
(* Writing the store                                                       *)
(***************************************************************************)

Fresh == Gens \ begun

(* begin, first half: the directory and the building manifest.             *)
Create(g, s) ==
    /\ g \in Fresh
    /\ begun' = begun \cup {g}
    /\ manifest' = [manifest EXCEPT ![g] = NewManifest(s, World[world].embedding)]

(* latest-attempt.json is replaced.                                        *)
Announce(g, state) ==
    /\ latest' = [id |-> g, state |-> state]
    /\ superseded' = IF latest # None /\ latest.id # g
                       THEN superseded \cup {latest.id} ELSE superseded

(* Variant: a recorder always replaces the entry.                          *)
RecordEventAlways(g, state) == Announce(g, state)

(* _record_error_event is best effort, and a late recorder leaves the      *)
(* entry of a newer attempt alone.                                         *)
RecordEvent(g, state) ==
    \/ (latest = None \/ latest.id = g) /\ Announce(g, state)
    \/ UNCHANGED <<latest, superseded>>

(* _activate_manifest: the commit point.                                   *)
Switch(g, fp) ==
    /\ pointer' = [id |-> g, fp |-> fp]
    /\ committed' = committed \cup {g}

Goto(p, label) == pc' = [pc EXCEPT ![p] = label]

Acquire(p) == lock = None /\ lock' = p

Released(p) == IF lock = p THEN None ELSE lock

(* The process ends, and with exit code c if it is a builder's.            *)
Exit(p, c) ==
    /\ Goto(p, "idle")
    /\ lock' = Released(p)
    /\ gen' = [gen EXCEPT ![p] = None]
    /\ snap' = [snap EXCEPT ![p] = 1]
    /\ err' = [err EXCEPT ![p] = "none"]
    /\ code' = [code EXCEPT ![p] = "none"]
    /\ doomed' = [doomed EXCEPT ![p] = {}]
    /\ original' = [original EXCEPT ![p] = None]
    /\ told' = IF c # "none" /\ gen[p] # None THEN [told EXCEPT ![gen[p]] = c] ELSE told

(***************************************************************************)
(* A build                                                                 *)
(***************************************************************************)

(* Variant: the library is always read before the lock is held.            *)
AlwaysPlansFirst == TRUE

(* The papers builder prepares its plan before it asks for the lock; the   *)
(* notes builder scans the library while it holds the lock.                *)
PlansFirst == Papers

PlanPapers(p) ==
    /\ PlansFirst /\ pc[p] = "idle"
    /\ snap' = [snap EXCEPT ![p] = world]
    /\ Goto(p, "planned")
    /\ UNCHANGED <<files, lock, gen, err, code, doomed, original, observed>>

MayStart(p) == pc[p] = (IF PlansFirst THEN "planned" ELSE "idle")

Snapshot(p) == IF PlansFirst THEN snap[p] ELSE world

(* An active generation with the same inputs that still validates is kept. *)
ReuseActive(p) ==
    /\ MayStart(p) /\ lock = None
    /\ World[Snapshot(p)].complete
    /\ LoadActive \in Gens
    /\ same_inputs(LoadActive, Snapshot(p)) /\ generation_usable(LoadActive)
    /\ Exit(p, "none")
    /\ UNCHANGED <<files, world, begun, committed, superseded, damage>>

(* A papers plan with unreadable sources is begun only to be failed, and   *)
(* without a look at the active generation; unreadable notes end the scan. *)
BeginBuild(p) ==
    /\ MayStart(p) /\ Acquire(p)
    /\ IF World[Snapshot(p)].complete THEN LoadActive # Garbled ELSE Papers
    /\ \E g \in Fresh :
           /\ Create(g, Snapshot(p))
           /\ gen' = [gen EXCEPT ![p] = g]
    /\ snap' = [snap EXCEPT ![p] = Snapshot(p)]
    /\ Goto(p, "beginning")
    /\ UNCHANGED <<collection, artifacts, pointer, latest, preserved, err, code,
                   doomed, original, world, committed, superseded, told, damage>>

AnnounceBegin(p) ==
    /\ pc[p] = "beginning"
    /\ Announce(gen[p], "building")
    /\ Goto(p, "begun")
    /\ UNCHANGED <<manifest, collection, artifacts, pointer, preserved, lock, gen,
                   snap, err, code, doomed, original, world, begun, committed,
                   told, damage>>

CreateCollection(p) ==
    /\ pc[p] = "begun" /\ World[snap[p]].complete
    /\ collection' = [collection EXCEPT ![gen[p]] = "partial"]
    /\ artifacts' = [artifacts EXCEPT ![gen[p]] = "partial"]
    /\ Goto(p, "filling")
    /\ UNCHANGED <<manifest, pointer, latest, preserved, lock, gen, snap, err, code,
                   doomed, original, observed>>

(* All batches are embedded and stored, the receipt is written and the     *)
(* count agrees; an exception before that leaves both partial.             *)
Fill(p) ==
    /\ pc[p] = "filling"
    /\ collection' = [collection EXCEPT ![gen[p]] = "full"]
    /\ artifacts' = [artifacts EXCEPT ![gen[p]] = "full"]
    /\ Goto(p, "filled")
    /\ UNCHANGED <<manifest, pointer, latest, preserved, lock, gen, snap, err, code,
                   doomed, original, observed>>

(* publish up to the complete manifest, which binds the one it replaces.   *)
Seal(p) ==
    /\ pc[p] = "filled"
    /\ LoadActive # Garbled
    /\ LoadActive \in Gens => RemovalsAllowed(p, manifest[LoadActive].snap, snap[p])
    /\ manifest' = [manifest EXCEPT
          ![gen[p]].state = "complete",
          ![gen[p]].prev = LoadActive,
          ![gen[p]].prevPrint = IF LoadActive = None THEN None
                                ELSE Fingerprint(manifest[LoadActive])]
    /\ Goto(p, "sealed")
    /\ UNCHANGED <<collection, artifacts, pointer, latest, preserved, lock, gen, snap,
                   err, code, doomed, original, observed>>

AnnounceSealed(p) ==
    /\ pc[p] = "sealed"
    /\ Announce(gen[p], "complete")
    /\ Goto(p, "activating")
    /\ UNCHANGED <<manifest, collection, artifacts, pointer, preserved, lock, gen,
                   snap, err, code, doomed, original, world, begun, committed,
                   told, damage>>

Activate(p) ==
    /\ pc[p] = "activating"
    /\ Switch(gen[p], SealedPrint)
    /\ told' = [told EXCEPT ![gen[p]] = "active"]
    /\ Goto(p, "activated")
    /\ UNCHANGED <<manifest, collection, artifacts, latest, preserved, lock, gen, snap,
                   err, code, doomed, original, world, begun, superseded, damage>>

(* A notes build whose last message cannot be printed exits with 3.        *)
EndBuild(p) ==
    /\ pc[p] = "activated"
    /\ \E c \in {"ok", "warning"} : (c = "warning" => ~Papers) /\ Exit(p, c)
    /\ UNCHANGED <<files, world, begun, committed, superseded, damage>>

(***************************************************************************)
(* Exceptions in a build                                                   *)
(***************************************************************************)

RaisePoints == {"beginning", "begun", "filling", "filled", "sealed", "activating",
                "activated"}

(* Around the pointer replacement _activate_manifest turns an exception    *)
(* into PublicationCommittedError when the pointer is found committed.     *)
Thrown(p) ==
    {"error", "interrupt"} \cup
    (IF pc[p] = "activated" /\ PublicationState(gen[p]) = "committed"
     THEN {"published"} ELSE {})

(* The notes builder handles the exception under its lock; in the papers   *)
(* builder the exception first leaves the with-block that holds it.        *)
Handle(p, e) ==
    /\ err' = [err EXCEPT ![p] = e]
    /\ Goto(p, IF Papers THEN "unlocked" ELSE "handling")

(* begin returns nothing when it raises: its generation is lost.           *)
Raise(p) ==
    /\ pc[p] \in RaisePoints
    /\ \E e \in Thrown(p) : Handle(p, e)
    /\ lock' = IF Papers THEN None ELSE lock
    /\ gen' = IF pc[p] = "beginning" THEN [gen EXCEPT ![p] = None] ELSE gen
    /\ UNCHANGED <<files, snap, code, doomed, original, observed>>

(* The scan, the plan, load_active or the lock itself fails.               *)
RaiseEarly(p) ==
    /\ MayStart(p)
    /\ \E e \in {"error", "interrupt"} : Handle(p, e)
    /\ IF Papers THEN UNCHANGED lock ELSE Acquire(p)
    /\ UNCHANGED <<files, gen, snap, code, doomed, original, observed>>

(* _record_failed_attempt asks for the lock again.                         *)
Reacquire(p) ==
    /\ pc[p] = "unlocked" /\ Acquire(p)
    /\ Goto(p, "handling")
    /\ UNCHANGED <<files, gen, snap, err, code, doomed, original, observed>>

(* Variant: a manifest that exists is taken to be readable.                *)
UnreadableIfMissing(m) == m = None

Unreadable(m) == m = None \/ m.state = "unreadable"

(* What fail finds on disk, and when it turns it into a failed manifest.   *)
Outcome(g) == IF Unreadable(manifest[g]) THEN "unknown" ELSE PublicationState(g)

(* Variant: fail rewrites whatever manifest it can read.                   *)
MustFailUnchecked(g) == ~Unreadable(manifest[g])

MustFail(g) == Outcome(g) = "not_active" /\ manifest[g].state = "building"

(* Variants: the exit code follows the exception alone; an unknown outcome *)
(* is taken for a commit.                                                  *)
ExitCodeByException(p, outcome) ==
    IF err[p] = "interrupt" THEN "interrupted" ELSE "failed"

ExitCodeHopeful(p, outcome) ==
    IF outcome # "not_active" THEN "warning" ELSE ExitCodeByException(p, outcome)

ExitCode(p, outcome) ==
    IF outcome = "committed" \/ (~Papers /\ err[p] = "published") THEN "warning"
    ELSE IF err[p] = "interrupt" THEN "interrupted" ELSE "failed"

(* Variant: the recorder waits for the lock.                               *)
LockAwaited(p) == FALSE

LockBusy(p) == pc[p] = "unlocked" /\ lock # None

(* The lock is busy, or a write of begin or of the failed manifest raises; *)
(* fail only reads a sealed generation, and its event is best effort.      *)
GiveUp(p) ==
    /\ \/ LockBusy(p)
       \/ pc[p] = "handling" /\ (gen[p] # None => MustFail(gen[p]))
       \/ pc[p] = "rebeginning"
    /\ Exit(p, ExitCode(p, "unknown"))
    /\ UNCHANGED <<files, world, begun, committed, superseded, damage>>

(* A failure before begin is recorded as an attempt of its own.            *)
BeginFailed(p) ==
    /\ pc[p] = "handling" /\ gen[p] = None
    /\ \E g \in Fresh :
           /\ Create(g, snap[p])
           /\ gen' = [gen EXCEPT ![p] = g]
    /\ Goto(p, "rebeginning")
    /\ UNCHANGED <<collection, artifacts, pointer, latest, preserved, lock, snap, err,
                   code, doomed, original, world, committed, superseded, told, damage>>

AnnounceFailed(p) ==
    /\ pc[p] = "rebeginning"
    /\ Announce(gen[p], "building")
    /\ Goto(p, "handling")
    /\ UNCHANGED <<manifest, collection, artifacts, pointer, preserved, lock, gen, snap,
                   err, code, doomed, original, world, begun, committed, told, damage>>

(* fail, up to the manifest: a sealed or active generation stays as it is. *)
Fail(p) ==
    /\ pc[p] = "handling" /\ gen[p] # None
    /\ code' = [code EXCEPT ![p] = ExitCode(p, Outcome(gen[p]))]
    /\ manifest' = IF MustFail(gen[p])
                   THEN [manifest EXCEPT ![gen[p]].state = "failed"] ELSE manifest
    /\ Goto(p, "recording")
    /\ UNCHANGED <<collection, artifacts, pointer, latest, preserved, lock, gen, snap,
                   err, doomed, original, observed>>

(* A generation that cannot be read is recorded as it was in memory.       *)
RecordFailure(p) ==
    /\ pc[p] = "recording"
    /\ IF Unreadable(manifest[gen[p]])
       THEN \E s \in {"building", "complete"} : RecordEvent(gen[p], s)
       ELSE RecordEvent(gen[p], manifest[gen[p]].state)
    /\ Exit(p, code[p])
    /\ UNCHANGED <<manifest, collection, artifacts, pointer, preserved, world, begun,
                   committed, damage>>

(***************************************************************************)
(* Maintenance                                                             *)
(***************************************************************************)

(* Variant: a manifest is trusted without a look at what it describes.     *)
TrustedByName(g, print) ==
    manifest[g] # None /\ manifest[g].state = "complete" /\ Fingerprint(manifest[g]) = print

(* A sealed manifest with the expected fingerprint, for the configured     *)
(* embedding model, whose files and collection validate.                   *)
Trusted(g, print) ==
    /\ manifest[g] # None /\ manifest[g].state = "complete"
    /\ Fingerprint(manifest[g]) = print
    /\ manifest[g].model = World[world].embedding
    /\ Intact(g)

(* rollback: all its checks read, and its only write is the pointer.       *)
Rollback(p) ==
    /\ pc[p] = "idle" /\ Acquire(p)
    /\ LoadActive \in Gens
    /\ LET target == manifest[LoadActive].prev IN
          /\ target # None /\ Trusted(target, manifest[LoadActive].prevPrint)
          /\ Switch(target, Fingerprint(manifest[target]))
          /\ gen' = [gen EXCEPT ![p] = target]
    /\ Goto(p, "switched")
    /\ UNCHANGED <<manifest, collection, artifacts, latest, preserved, snap, err, code,
                   doomed, original, world, begun, superseded, told, damage>>

(* Variant: recover does not mind a valid active generation.               *)
RecoverAnyway == TRUE

PointerBroken == LoadActive \notin Gens

(* recover, up to the intent record that keeps the pointer it found.  The  *)
(* operator names a generation by the fingerprint it was sealed with.      *)
RecoverIntent(p) ==
    /\ pc[p] = "idle" /\ Acquire(p)
    /\ PointerBroken
    /\ \E g \in Gens :
          /\ Trusted(g, SealedPrint) /\ World[manifest[g].snap].complete
          /\ gen' = [gen EXCEPT ![p] = g]
    /\ preserved' = preserved \cup {pointer}
    /\ original' = [original EXCEPT ![p] = pointer]
    /\ Goto(p, "recovering")
    /\ UNCHANGED <<manifest, collection, artifacts, pointer, latest, snap, err, code,
                   doomed, observed>>

(* Variant: the pointer is not read again.                                 *)
PointerUnchecked(p) == TRUE

(* The pointer is read once more before it is replaced.                    *)
PointerUnchanged(p) == pointer = original[p]

Recover(p) ==
    /\ pc[p] = "recovering" /\ PointerUnchanged(p)
    /\ Switch(gen[p], SealedPrint)
    /\ Goto(p, "switched")
    /\ UNCHANGED <<manifest, collection, artifacts, latest, preserved, lock, gen, snap,
                   err, code, doomed, original, world, begun, superseded, told, damage>>

(* The command returns, or raises after its write and records the event.   *)
EndMaintenance(p) ==
    /\ \/ /\ pc[p] = "switched"
          /\ RecordEvent(gen[p], "complete")
       \/ /\ pc[p] \in {"recovering", "pruning"}
          /\ UNCHANGED <<latest, superseded>>
    /\ Exit(p, "none")
    /\ UNCHANGED <<manifest, collection, artifacts, pointer, preserved, world, begun,
                   committed, damage>>

(* Variants: what a prune keeps without the predecessor, or the attempt.   *)
KeepWithoutPrevious ==
    {LoadActive} \cup (IF latest = None THEN {} ELSE {latest.id})

KeepWithoutLatest == {LoadActive, manifest[LoadActive].prev}

(* What a prune keeps: active, its predecessor and the latest attempt.     *)
Keep ==
    {LoadActive, manifest[LoadActive].prev}
        \cup (IF latest = None THEN {} ELSE {latest.id})

PlanPrune(p) ==
    /\ pc[p] = "idle" /\ Acquire(p)
    /\ LoadActive \in Gens
    /\ \A g \in Gens : manifest[g] # None => manifest[g].state # "unreadable"
    /\ doomed' = [doomed EXCEPT ![p] = {g \in Gens : manifest[g] # None} \ Keep]
    /\ Goto(p, "pruning")
    /\ UNCHANGED <<files, gen, snap, err, code, original, observed>>

PruneCollection(p) ==
    /\ pc[p] = "pruning" /\ gen[p] = None
    /\ \E g \in doomed[p] :
          /\ collection' = [collection EXCEPT ![g] = "absent"]
          /\ gen' = [gen EXCEPT ![p] = g]
    /\ UNCHANGED <<manifest, artifacts, pointer, latest, preserved, lock, pc, snap, err,
                   code, doomed, original, observed>>

(* rmtree deletes the files of the directory in no particular order.       *)
RemoveSome(p) ==
    /\ pc[p] = "pruning" /\ gen[p] # None
    /\ \/ /\ manifest' = [manifest EXCEPT ![gen[p]] = None]
          /\ UNCHANGED artifacts
       \/ /\ artifacts' = [artifacts EXCEPT ![gen[p]] = "absent"]
          /\ UNCHANGED manifest
    /\ UNCHANGED <<collection, pointer, latest, preserved, procs, observed>>

RemoveRest(p) ==
    /\ pc[p] = "pruning" /\ gen[p] # None
    /\ manifest' = [manifest EXCEPT ![gen[p]] = None]
    /\ artifacts' = [artifacts EXCEPT ![gen[p]] = "absent"]
    /\ doomed' = [doomed EXCEPT ![p] = @ \ {gen[p]}]
    /\ gen' = [gen EXCEPT ![p] = None]
    /\ UNCHANGED <<collection, pointer, latest, preserved, lock, pc, snap, err, code,
                   original, observed>>

(***************************************************************************)
(* The outside world                                                       *)
(***************************************************************************)

(* A process dies at any point; the operating system frees its lock.       *)
Crash(p) ==
    /\ pc[p] # "idle"
    /\ Exit(p, "none")
    /\ UNCHANGED <<files, world, begun, committed, superseded, damage>>

(* The user edits the library or its configuration.                        *)
EditLibrary ==
    /\ world < Len(World)
    /\ world' = world + 1
    /\ UNCHANGED <<files, procs, begun, committed, superseded, told, damage>>

(* Something outside the program loses or garbles the active pointer.      *)
DamagePointer ==
    /\ "pointer" \notin damage /\ Cardinality(damage) < MaxDamage
    /\ pointer' \in {None, Garbled} \ {pointer}
    /\ damage' = damage \cup {"pointer"}
    /\ UNCHANGED <<manifest, collection, artifacts, latest, preserved, procs, world,
                   begun, committed, superseded, told>>

(* ... or the manifest, the collection or the files of a sealed generation *)
DamageGeneration(g) ==
    /\ manifest[g] # None /\ manifest[g].state = "complete"
    /\ g \notin damage /\ Cardinality(damage) < MaxDamage
    /\ \/ /\ manifest' \in {[manifest EXCEPT ![g].rev = 1],
                             [manifest EXCEPT ![g].state = "unreadable"]}
          /\ UNCHANGED <<collection, artifacts>>
       \/ /\ collection' = [collection EXCEPT ![g] = "partial"]
          /\ UNCHANGED <<manifest, artifacts>>
       \/ /\ artifacts' = [artifacts EXCEPT ![g] = "partial"]
          /\ UNCHANGED <<manifest, collection>>
    /\ damage' = damage \cup {g}
    /\ UNCHANGED <<pointer, latest, preserved, procs, world, begun, committed,
                   superseded, told>>

(***************************************************************************)
(* The specification                                                       *)
(***************************************************************************)

Init ==
    /\ manifest = [g \in Gens |-> None]
    /\ collection = [g \in Gens |-> "absent"]
    /\ artifacts = [g \in Gens |-> "absent"]
    /\ pointer = None /\ latest = None /\ preserved = {}
    /\ lock = None
    /\ pc = [p \in Procs |-> "idle"]
    /\ gen = [p \in Procs |-> None]
    /\ snap = [p \in Procs |-> 1]
    /\ err = [p \in Procs |-> "none"]
    /\ code = [p \in Procs |-> "none"]
    /\ doomed = [p \in Procs |-> {}]
    /\ original = [p \in Procs |-> None]
    /\ world = 1 /\ begun = {} /\ committed = {} /\ superseded = {}
    /\ told = [g \in Gens |-> "none"]
    /\ damage = {}

Build(p) ==
    \/ BeginBuild(p) \/ AnnounceBegin(p) \/ CreateCollection(p) \/ Fill(p)
    \/ Seal(p) \/ AnnounceSealed(p) \/ Activate(p) \/ EndBuild(p)
    \/ ReuseActive(p)

Handler(p) ==
    \/ Raise(p) \/ RaiseEarly(p) \/ Reacquire(p) \/ GiveUp(p) \/ BeginFailed(p)
    \/ AnnounceFailed(p) \/ Fail(p) \/ RecordFailure(p)

Maintenance(p) ==
    \/ Rollback(p) \/ RecoverIntent(p) \/ Recover(p) \/ EndMaintenance(p)
    \/ PlanPrune(p) \/ PruneCollection(p) \/ RemoveSome(p) \/ RemoveRest(p)

Process(p) == PlanPapers(p) \/ Build(p) \/ Handler(p) \/ Maintenance(p)

Environment ==
    \/ EditLibrary \/ DamagePointer \/ \E g \in Gens : DamageGeneration(g)

Next ==
    \/ \E p \in Procs : Process(p) \/ Crash(p)
    \/ Environment

Spec == Init /\ [][Next]_vars

(***************************************************************************)
(* Properties                                                              *)
(***************************************************************************)

Labels ==
    RaisePoints \cup {"idle", "planned", "unlocked", "handling", "rebeginning",
                      "recording", "switched", "recovering", "pruning"}

(* Every variable stays in its domain.                                     *)
TypeOK ==
    /\ manifest \in [Gens -> Manifests \cup {None}]
    /\ collection \in [Gens -> {"absent", "partial", "full"}]
    /\ artifacts \in [Gens -> {"absent", "partial", "full"}]
    /\ pointer \in Pointers \cup {None, Garbled}
    /\ latest \in Attempts \cup {None}
    /\ preserved \subseteq Pointers \cup {None, Garbled}
    /\ lock \in Procs \cup {None}
    /\ pc \in [Procs -> Labels]
    /\ gen \in [Procs -> Gens \cup {None}]
    /\ snap \in [Procs -> DOMAIN World]
    /\ err \in [Procs -> {"none", "error", "interrupt", "published"}]
    /\ code \in [Procs -> {"none", "warning", "interrupted", "failed"}]
    /\ doomed \in [Procs -> SUBSET Gens]
    /\ original \in [Procs -> Pointers \cup {None, Garbled}]
    /\ world \in DOMAIN World
    /\ begun \subseteq Gens /\ committed \subseteq Gens /\ superseded \subseteq Gens
    /\ told \in [Gens -> {"none", "active", "ok", "warning", "interrupted", "failed"}]
    /\ damage \subseteq Gens \cup {"pointer"}

(* Whatever was interrupted, failed or pruned: unless something outside    *)
(* the program damaged it, the pointer names a generation a reader can     *)
(* open, whole and built from a complete library.                          *)
ActiveServable ==
    /\ damage = {} => LoadActive # Garbled
    /\ LoadActive \in Gens \ damage =>
          Intact(LoadActive) /\ World[manifest[LoadActive].snap].complete

(* latest-attempt.json, written after the manifest and never with it, does *)
(* not claim an outcome that the manifest on disk does not have.           *)
LatestTruthful ==
    latest # None /\ latest.id \notin damage =>
        \/ latest.state = "building"
        \/ manifest[latest.id] # None /\ manifest[latest.id].state = latest.state

(* A failure recorded late, after the lock was free for a while, never     *)
(* takes latest-attempt.json back to an attempt older than the one there.  *)
LatestNeverReturns == latest # None => latest.id \notin superseded

(* No handler, retry or maintenance command rewrites a sealed manifest;    *)
(* it is deleted whole or damaged from outside.                            *)
SealedImmutable ==
    [][\A g \in Gens :
         manifest[g] # None /\ manifest[g].state \in {"complete", "failed"} =>
            manifest'[g] \in {manifest[g], None} \/ g \in damage' \ damage]_vars

Loses(g) ==
    \/ manifest[g] # None /\ manifest'[g] = None
    \/ collection[g] # "absent" /\ collection'[g] = "absent"
    \/ artifacts[g] # "absent" /\ artifacts'[g] = "absent"

(* A prune works from a list it made when it started: at the moment of     *)
(* each deletion the generation is neither active, nor the one a rollback  *)
(* would activate, nor the latest attempt, nor one being built.            *)
DeletesOnlyObsolete ==
    [][\A g \in Gens : Loses(g) =>
         /\ LoadActive \in Gens => g \notin {LoadActive, manifest[LoadActive].prev}
         /\ latest # None => g # latest.id
         /\ \A p \in Procs : pc[p] \in RaisePoints \cup {"switched", "recovering"}
                                => gen[p] # g]_vars

Paired(old, new) ==
    \E f \in [Gone(old, new) -> Gone(new, old)] :
        \A i, j \in Gone(old, new) :
            /\ World[new].sources[f[i]] = World[old].sources[i]
            /\ f[i] = f[j] => i = j

(* A publication without --allow-removals, against the generation that is  *)
(* active when the pointer is replaced, gives every source that disappears *)
(* a new source of the same content, and no two of them the same one.      *)
NoSilentWithdrawal ==
    [][\A p \in Procs \ Permissive :
         pc[p] = "activating" /\ pc'[p] = "activated" /\ LoadActive \in Gens =>
            Paired(manifest[LoadActive].snap, snap[p])]_vars

(* The notes builder never replaces an index by one of an older library.   *)
NoStalePublish ==
    [][\A p \in Procs :
         pc[p] = "activating" /\ pc'[p] = "activated" /\ LoadActive \in Gens =>
            manifest[LoadActive].snap <= snap[p]]_vars

(* A build reports success, or success with a warning, only of a           *)
(* generation that did become active.                                      *)
NoFalseSuccess ==
    \A g \in Gens : told[g] \in {"ok", "warning"} => g \in committed

(* A build that made its generation active does not report plain failure.  *)
(* docs/INDEX_GENERATIONS.md:6: "Exit `3` reports a completed operation    *)
(* with a subsequent warning".                                             *)
CommitReported ==
    [][\A g \in Gens : told[g] = "active" => told'[g] # "failed"]_vars

(* A recovery replaces only a pointer value that an intent record keeps.   *)
RecoveryKeepsPointer ==
    [][\A p \in Procs : pc[p] = "recovering" /\ pointer' # pointer =>
         pointer \in preserved \/ damage' # damage]_vars

Register ==
    INSTANCE IndexRegister WITH
        Versions <- Gens, Lost <- Garbled,
        active <- LoadActive,
        before <- [g \in Gens |-> IF g \in committed /\ manifest[g] # None
                                  THEN manifest[g].prev ELSE None],
        published <- committed,
        lost <- damage # {}

(* Readers see a register that moves only by publication, by rollback to   *)
(* the version replaced, and by recovery after damage.                     *)
RefinesRegister == Register!RegisterSpec

(* Builders run to their end: nothing in them waits for another process,   *)
(* the lock included, and every remote call has a timeout.                 *)
Fairness == \A p \in Procs : WF_vars(pc[p] # "idle" /\ Process(p))

FairSpec == Spec /\ Fairness

(* Every command ends, and frees the lock, whatever fails on its way: no   *)
(* handler waits for a lock that others may keep taking.                   *)
BuildEnds == \A p \in Procs : pc[p] # "idle" ~> pc[p] = "idle"

=============================================================================
