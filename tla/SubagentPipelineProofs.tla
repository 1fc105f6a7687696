------------------------ MODULE SubagentPipelineProofs ------------------------
(***************************************************************************)
(* What SubagentPipeline keeps, proved for any number of papers, attempts, *)
(* deaths, bad answers and single runs.  The argument: whatever directory  *)
(* a command names, a process that gets past the identity guard works in   *)
(* the directory of its own paper, alone, so a run directory and what is   *)
(* loaded from it are about one paper; and the name of a note, once it is  *)
(* taken by the note of a paper, is given to nothing else.  The second     *)
(* half needs that no two papers share a name (see the run subagent_names).*)
(***************************************************************************)
EXTENDS SubagentPipeline, TLAPS

(* The control points of a process.                                        *)
Labels == {"idle", "started", "profiled", "drafted", "publishing", "recording"} \cup Stages

Processes == [pc : Labels, dir : Papers \cup {None}, resume : BOOLEAN, force : BOOLEAN,
              profile : Papers \cup {None}, draft : Papers \cup {None}]

Manifests == [profiler : Papers \cup {None, Garbled},
              note_generator : Papers \cup {None, Garbled}, last : Stages]

(* The types of the variables.                                             *)
TypeOK ==
    /\ exists \subseteq Papers /\ ledger \subseteq Papers /\ index \subseteq Papers
    /\ boot \in [Papers -> Papers \cup {None, Garbled}]
    /\ profile \in [Papers -> Papers \cup {None, Partial, Invalid}]
    /\ draft \in [Papers -> Papers \cup {None, Partial, Invalid}]
    /\ asked \in [Papers -> Manifests]
    /\ note \in [Names -> Notes \cup {None}]
    /\ process \in [Papers -> Processes]
    /\ phase \in {"loop", "running", "solo", "dispatching", "done"} /\ vault \in BOOLEAN
    /\ result \in [Papers -> {"todo", "ok", "pending", "failed", "skip"}]
    /\ tries \in [Papers -> Nat]
    /\ jobs \in [Papers -> Stages \cup {None}]
    /\ fails \in Nat

(* A process that runs, and one that is past the identity guard.           *)
Active(p) == process[p].pc # "idle"

Working(p) == process[p].pc \notin {"idle", "started"}

(* Processes run in a batch, each on its group, or one alone.              *)
PhaseInv ==
    /\ \A p \in Papers : Active(p) => phase \in {"running", "solo"}
    /\ phase = "running" => \A p \in Papers : Active(p) => result[p] = "todo" /\ process[p].dir = p
    /\ phase = "solo" => \A p, q \in Papers : Active(p) /\ Active(q) => p = q
    /\ \A d \in Papers : jobs[d] # None =>
         phase = "dispatching" /\ d \in exists /\ asked[d][jobs[d]] = d

(* A process past the identity guard is in the directory of its paper, and *)
(* holds nothing that is about another one.                                *)
ProcessInv ==
    \A p \in Papers :
        /\ Active(p) => process[p].resume \/ process[p].dir = p
        /\ Working(p) => process[p].dir = p /\ p \in exists
        /\ process[p].pc \in {"profiled", "note_generator", "drafted", "publishing", "recording"} =>
             process[p].resume /\ process[p].profile = p
        /\ process[p].pc \in {"drafted", "publishing", "recording"} => process[p].draft = p

(* A run directory is about one paper, but for what a death has garbled,   *)
(* and is empty until it is made.  A group that a batch does not resume has *)
(* nothing there to resume.                                                *)
DirectoryInv ==
    /\ \A d \in Papers :
        /\ profile[d] \in Papers => profile[d] = d
        /\ draft[d] \in Papers => draft[d] = d
        /\ boot[d] \in {None, Garbled, d}
        /\ \A stage \in Stages : asked[d][stage] \in {None, Garbled, d}
        /\ d \notin exists =>
             profile[d] = None /\ draft[d] = None /\ \A stage \in Stages : asked[d][stage] = None
    /\ phase = "running" =>
         \A p \in Papers : Active(p) /\ ~process[p].resume => profile[p] = None

(* A pending group has been asked for what its directory has not got.      *)
PendingInv ==
    phase = "running" => \A p \in Papers : result[p] = "pending" => Unfilled(p) # {}

(* The parts together.                                                     *)
IInv ==
    /\ TypeOK /\ PhaseInv /\ ProcessInv /\ DirectoryInv /\ PendingInv /\ NoteOfItsPaper

(* Publishing the note of a paper has at least begun; and what a batch     *)
(* takes for done, which is less than that there is a note (see            *)
(* DoneMissesOnlyTorn).                                                    *)
Published(p) == HasNote(p) \/ HasTornNote(p)

Seen(p) == HasNote(p) \/ (HasTornNote(p) /\ p \in ledger \cup InVault)

(* What the ledger, a batch and its prefilter take for granted.            *)
CoverInv ==
    /\ \A p \in ledger \cup index : Published(p)
    /\ vault => \A p \in Papers : process[p].pc = "recording" => HasNote(p)
    /\ vault /\ phase = "running" =>
         \A p \in Papers : result[p] \in {"ok", "skip"} => Seen(p)
    /\ vault /\ phase = "done" => \A p \in Papers : Seen(p)

(***************************************************************************)
(* Types                                                                   *)
(***************************************************************************)

(* What a scanner process starts as and turns into.                        *)
LEMMA ProcessTypes ==
    /\ Idle \in Processes
    /\ \A me \in Processes, label \in Labels, q \in Papers :
        /\ [me EXCEPT !.pc = label] \in Processes
        /\ [me EXCEPT !.pc = label, !.profile = q] \in Processes
        /\ [me EXCEPT !.pc = label, !.draft = q] \in Processes
    /\ \A d \in Papers, resume, force \in BOOLEAN :
        /\ [Idle EXCEPT !.pc = "started", !.dir = d, !.resume = resume, !.force = force]
             \in Processes
        /\ [Idle EXCEPT !.pc = "started", !.dir = d, !.force = force, !.resume = resume]
             \in Processes
BY ZenonT(30) DEF Processes, Idle, Labels

(* A retry starts a process that has loaded nothing.                       *)
LEMMA RetryTypes ==
    ASSUME TypeOK, NEW p \in Papers, Retry(p)
    PROVE  process' \in [Papers -> Processes]
<1>1. ASSUME NEW me \in Processes
      PROVE  [me EXCEPT !.pc = "started", !.profile = None, !.draft = None] \in Processes
  BY DEF Processes, Labels
<1> QED
  BY <1>1 DEF Retry, TypeOK

(* What the manifests of a run directory turn into.                        *)
LEMMA ManifestTypes ==
    ASSUME NEW m \in Manifests
    PROVE  /\ NothingAsked \in Manifests
           /\ \A q \in Papers : /\ [m EXCEPT !.profiler = q, !.last = "profiler"] \in Manifests
                                /\ [m EXCEPT !.note_generator = q, !.last = "note_generator"]
                                     \in Manifests
           /\ \A stage \in Stages, value \in {None, Garbled} :
                [m EXCEPT ![stage] = value] \in Manifests
<1>1. NothingAsked \in Manifests
  BY DEF Manifests, Stages, NothingAsked
<1>2. \A q \in Papers : [m EXCEPT !.profiler = q, !.last = "profiler"] \in Manifests
  BY DEF Manifests, Stages
<1>3. \A q \in Papers : [m EXCEPT !.note_generator = q, !.last = "note_generator"] \in Manifests
  BY DEF Manifests, Stages
<1>4. \A stage \in Stages, value \in {None, Garbled} : [m EXCEPT ![stage] = value] \in Manifests
  BY DEF Manifests, Stages
<1> QED
  BY <1>1, <1>2, <1>3, <1>4

(* Manifests stay manifests when a stage is asked for, done or cleared.    *)
LEMMA AskTypes ==
    ASSUME TypeOK, NEW d \in Papers, NEW q \in Papers, NEW stage \in Stages,
           NEW value \in {None, Garbled}
    PROVE  /\ [asked EXCEPT ![d].profiler = q, ![d].last = "profiler"] \in [Papers -> Manifests]
           /\ [asked EXCEPT ![d].note_generator = q, ![d].last = "note_generator"]
                \in [Papers -> Manifests]
           /\ [asked EXCEPT ![d][stage] = value] \in [Papers -> Manifests]
           /\ [asked EXCEPT ![d] = NothingAsked] \in [Papers -> Manifests]
BY ManifestTypes DEF TypeOK

(* What is published is a note.                                            *)
LEMMA NoteTypes ==
    ASSUME NEW p \in Papers, process[p].profile = p, process[p].draft = p
    PROVE  /\ Written(p) \in Notes /\ CutShort(p) \subseteq Notes
           /\ \A file \in {Written(p)} \cup CutShort(p) :
                file.paper = p /\ file.profile = p /\ file.draft = p
BY DEF Notes, Written, CutShort

(* A scanner process ends, or its group is given another attempt.          *)
LEMMA ExitTypes ==
    ASSUME TypeOK, NEW p \in Papers, NEW code \in {0, 1, 200}, Exit(p, code),
           code = 200 => process[p].pc \in Stages
    PROVE  /\ process' \in [Papers -> Processes]
           /\ phase' \in {"loop", "running", "solo", "dispatching", "done"}
           /\ UNCHANGED <<index, vault>>
           /\ result' \in [Papers -> {"todo", "ok", "pending", "failed", "skip"}]
           /\ tries' \in [Papers -> Nat]
           /\ jobs' \in [Papers -> Stages \cup {None}]
<1>1. process[p] \in Processes /\ "started" \in Labels
  BY DEF TypeOK, Labels
<1>2. CASE Retry(p) /\ phase = "running"
  <2>1. process' \in [Papers -> Processes]
    BY <1>2, RetryTypes
  <2>2. tries' \in [Papers -> Nat]
    BY <1>2 DEF Retry, TypeOK
  <2> QED
    BY <1>2, <2>1, <2>2 DEF Retry, TypeOK
<1>3. CASE EndGroup(p, code) /\ phase = "running"
  BY <1>1, <1>3, ProcessTypes DEF EndGroup, ResultOf, TypeOK
<1>4. CASE EndSolo(p, code)
  <2>1. process' \in [Papers -> Processes]
    BY <1>4, ProcessTypes DEF EndSolo, TypeOK
  <2>2. jobs' \in [Papers -> Stages \cup {None}]
    <3>1. CASE code = 200
      BY <1>4, <3>1 DEF EndSolo, TypeOK
    <3>2. CASE code # 200
      BY <1>4, <3>2 DEF EndSolo, TypeOK
    <3> QED
      BY <3>1, <3>2
  <2> QED
    BY <1>4, <2>1, <2>2 DEF EndSolo, TypeOK
<1> QED
  BY <1>2, <1>3, <1>4 DEF Exit

(* What the file that a process was writing may be after its death: a      *)
(* single one has changed, in the directory of its paper or in the vault.  *)
LEMMA CutTypes ==
    ASSUME TypeOK, ProcessInv, NEW p \in Papers, CutWrite(p)
    PROVE  /\ exists' \subseteq Papers
           /\ boot' \in [Papers -> Papers \cup {None, Garbled}]
           /\ profile' \in [Papers -> Papers \cup {None, Partial, Invalid}]
           /\ draft' \in [Papers -> Papers \cup {None, Partial, Invalid}]
           /\ asked' \in [Papers -> Manifests]
           /\ note' \in [Names -> Notes \cup {None}]
<1> DEFINE d == process[p].dir
           stage == process[p].pc
<1>1. CASE UNCHANGED <<rundirs, note>>
  BY <1>1 DEF TypeOK, rundirs
<1>2. CASE /\ Proceeds(p) /\ exists' = exists \cup {d} /\ Cut(boot, d, {None, Garbled})
           /\ UNCHANGED <<profile, draft, asked, note>>
  <2>1. d \in Papers
    BY <1>2 DEF Proceeds, Admitted, Refused, Unresumable, ProcessInv, Active, TypeOK, Processes
  <2> QED
    BY <1>2, <2>1 DEF TypeOK, Cut
<1>3. CASE Cut(profile, d, {Partial}) /\ UNCHANGED <<exists, boot, draft, asked, note>>
  BY <1>3 DEF TypeOK, Cut
<1>4. CASE Cut(draft, d, {Partial}) /\ UNCHANGED <<exists, boot, profile, asked, note>>
  BY <1>4 DEF TypeOK, Cut
<1>5. CASE /\ stage \in Stages
           /\ \E value \in {None, Garbled} : asked' = [asked EXCEPT ![d][stage] = value]
           /\ UNCHANGED <<exists, boot, profile, draft, note>>
  <2>1. d \in Papers
    BY <1>5 DEF ProcessInv, Working, Stages
  <2>2. PICK value \in {None, Garbled} : asked' = [asked EXCEPT ![d][stage] = value]
    BY <1>5
  <2>3. \A at \in Papers, of \in Stages : [asked EXCEPT ![at][of] = value] \in [Papers -> Manifests]
    BY AskTypes
  <2>4. asked' \in [Papers -> Manifests]
    BY <1>5, <2>1, <2>2, <2>3
  <2> QED
    BY <1>5, <2>4 DEF TypeOK
<1>6. CASE /\ stage = "publishing" /\ Cut(note, Filename[p], CutShort(p))
           /\ UNCHANGED rundirs
  <2>1. CutShort(p) \subseteq Notes
    BY <1>6, NoteTypes DEF ProcessInv
  <2> QED
    BY <1>6, <2>1 DEF TypeOK, Cut, rundirs
<1> QED
  BY <1>1, <1>2, <1>3, <1>4, <1>5, <1>6 DEF CutWrite

(* A command that is not refused works in the directory of its paper.      *)
LEMMA OwnDirectory ==
    ASSUME TypeOK, ProcessInv, DirectoryInv, NEW p \in Papers, process[p].pc = "started",
           Admitted(p)
    PROVE  process[p].dir = p
<1>1. CASE ~process[p].resume
  BY <1>1 DEF ProcessInv, Active
<1>2. CASE process[p].resume
  <2>1. process[p].dir \in Papers /\ Owner(process[p].dir) = p
    BY <1>2 DEF Admitted, Refused, Unresumable, TypeOK
  <2> QED
    BY <2>1, PipelineAssumption DEF Owner, DirectoryInv
<1> QED
  BY <1>1, <1>2

(* Every step keeps the types.                                             *)
LEMMA TypeKept ==
    ASSUME IInv, [Next]_vars
    PROVE  TypeOK'
<1> USE DEF IInv
<1>1. ASSUME NEW p \in Papers, Refuse(p) PROVE TypeOK'
  BY <1>1, ExitTypes DEF TypeOK, Refuse, rundirs, counts
<1>2. ASSUME NEW p \in Papers, Skip(p) PROVE TypeOK'
  BY <1>2, ExitTypes DEF TypeOK, Skip, rundirs, counts
<1>3. ASSUME NEW p \in Papers, Bootstrap(p) PROVE TypeOK'
  <2>1. process' \in [Papers -> Processes]
    BY <1>3, ProcessTypes DEF TypeOK, Bootstrap, Goto, Labels, Stages
  <2> QED
    BY <1>3, <2>1, OwnDirectory DEF TypeOK, Bootstrap, Proceeds, Goto, host, counts
<1>4. ASSUME NEW p \in Papers, AskProfile(p) PROVE TypeOK'
  BY <1>4, ExitTypes, AskTypes, ZenonT(30) DEF TypeOK, ProcessInv, Working, AskProfile, counts, Stages
<1>5. ASSUME NEW p \in Papers, LoadProfile(p) PROVE TypeOK'
  BY <1>5, ProcessTypes DEF TypeOK, LoadProfile, rundirs, host, counts, Labels
<1>6. ASSUME NEW p \in Papers, QuarantineProfile(p) PROVE TypeOK'
  BY <1>6, ProcessTypes
  DEF TypeOK, ProcessInv, Working, QuarantineProfile, MoveAside, Goto, host, counts, Labels, Stages
<1>7. ASSUME NEW p \in Papers, SaveProfile(p) PROVE TypeOK'
  <2>1. process' \in [Papers -> Processes]
    BY <1>7, ProcessTypes DEF TypeOK, SaveProfile, Goto, Labels, Stages
  <2>2. process[p].dir = p
    BY <1>7 DEF ProcessInv, Working, SaveProfile
  <2> QED
    BY <1>7, <2>1, <2>2 DEF TypeOK, ProcessInv, SaveProfile, Goto, host, counts
<1>8. ASSUME NEW p \in Papers, AskNote(p) PROVE TypeOK'
  BY <1>8, ExitTypes, AskTypes, ZenonT(30) DEF TypeOK, ProcessInv, Working, AskNote, counts, Stages
<1>9. ASSUME NEW p \in Papers, LoadDraft(p) PROVE TypeOK'
  BY <1>9, ProcessTypes DEF TypeOK, LoadDraft, rundirs, host, counts, Labels
<1>10. ASSUME NEW p \in Papers, QuarantineDraft(p) PROVE TypeOK'
  BY <1>10, ProcessTypes
  DEF TypeOK, ProcessInv, Working, QuarantineDraft, MoveAside, Goto, host, counts, Labels, Stages
<1>11. ASSUME NEW p \in Papers, SaveDraft(p) PROVE TypeOK'
  BY <1>11, ProcessTypes
  DEF TypeOK, ProcessInv, Working, SaveDraft, Goto, host, counts, Labels
<1>12. ASSUME NEW p \in Papers, PublishNote(p) PROVE TypeOK'
  BY <1>12, ProcessTypes, NoteTypes, PipelineAssumption
  DEF TypeOK, ProcessInv, PublishNote, Goto, host, rundirs, counts, Labels
<1>13. ASSUME NEW p \in Papers, Record(p) PROVE TypeOK'
  BY <1>13, ExitTypes DEF TypeOK, Record, ToRecord, rundirs, counts
<1>14. ASSUME NEW p \in Papers, StartGroup(p) PROVE TypeOK'
  <2> DEFINE resume == ~Forced /\ p \in exists
             started == [Idle EXCEPT !.pc = "started", !.dir = p, !.force = Forced,
                                     !.resume = resume]
  <2>1. resume \in BOOLEAN /\ Forced \in BOOLEAN
    BY PipelineAssumption
  <2>2. process' = [process EXCEPT ![p] = started]
    BY <1>14 DEF StartGroup
  <2> HIDE DEF resume
  <2>3. started \in Processes
    BY <2>1, ProcessTypes
  <2> HIDE DEF started
  <2>4. process' \in [Papers -> Processes]
    BY <2>2, <2>3 DEF TypeOK
  <2>5. CASE Forced
    <3>1. asked' \in [Papers -> Manifests]
      BY <1>14, <2>5, AskTypes DEF StartGroup, Stages
    <3> QED
      BY <1>14, <2>4, <2>5, <3>1 DEF TypeOK, StartGroup, host, counts
  <2>6. CASE ~Forced
    BY <1>14, <2>4, <2>6 DEF TypeOK, StartGroup, rundirs, host, counts
  <2> QED
    BY <2>5, <2>6
<1>15. ASSUME NEW p \in Papers, AnswerJob(p) PROVE TypeOK'
  <2>1. jobs[p] # None => asked[p][jobs[p]] = p
    BY DEF PhaseInv
  <2>2. /\ profile' \in [Papers -> Papers \cup {None, Partial, Invalid}]
        /\ draft' \in [Papers -> Papers \cup {None, Partial, Invalid}]
    BY <1>15, <2>1, PipelineRecordAssumption
    DEF TypeOK, AnswerJob, AnswerProfile, AnswerNote, AnswerBadly, Output, Stages
  <2>3. jobs' \in [Papers -> Stages \cup {None}]
    BY <1>15 DEF TypeOK, AnswerJob, AnswerProfile, AnswerNote, AnswerBadly
  <2>4. UNCHANGED <<exists, boot, asked, note, ledger, process, phase, vault, index, result,
                    tries, fails>>
    BY <1>15 DEF AnswerJob, AnswerProfile, AnswerNote, AnswerBadly, counts
  <2> QED
    BY <2>2, <2>3, <2>4 DEF TypeOK
<1>16. ASSUME RunBatch PROVE TypeOK'
  <2>1. InVault \subseteq Papers
    BY DEF InVault
  <2> QED
    BY <1>16, <2>1 DEF TypeOK, RunBatch, rundirs, counts
<1>17. ASSUME EndBatch PROVE TypeOK'
  <2>1. ASSUME NEW d \in Papers PROVE Listed(d) \in Stages \cup {None}
    BY DEF Listed, Unfilled
  <2> QED
    BY <1>17, <2>1 DEF TypeOK, EndBatch, rundirs, counts
<1>18. ASSUME Waited \/ ChangeTarget PROVE TypeOK'
  BY <1>18 DEF TypeOK, Waited, ChangeTarget, rundirs, counts
<1>19. ASSUME NEW p \in Papers, Die(p) PROVE TypeOK'
  BY <1>19, CutTypes, ExitTypes DEF Die, TypeOK
<1>20. ASSUME NEW p \in Papers, StartSolo(p) PROVE TypeOK'
  <2>1. PICK d \in Papers, resume, force \in BOOLEAN :
          process' = [process EXCEPT ![p] =
                        [Idle EXCEPT !.pc = "started", !.dir = d, !.resume = resume,
                                     !.force = force]]
    BY <1>20 DEF StartSolo
  <2> DEFINE started == [Idle EXCEPT !.pc = "started", !.dir = d, !.resume = resume,
                                     !.force = force]
  <2>2. started \in Processes /\ process' = [process EXCEPT ![p] = started]
    BY <2>1, ProcessTypes
  <2> HIDE DEF started
  <2> QED
    BY <1>20, <2>2 DEF TypeOK, StartSolo, rundirs
<1>21. ASSUME HostDies PROVE TypeOK'
  <2>1. PICK p \in Papers : CutWrite(p)
    BY <1>21 DEF HostDies
  <2>2. process' \in [Papers -> Processes]
    BY <1>21, ProcessTypes DEF HostDies
  <2>3. /\ index' \subseteq Papers /\ ledger' \subseteq Papers /\ phase' = "loop" /\ vault' \in BOOLEAN
        /\ result' \in [Papers -> {"skip"}] /\ tries' \in [Papers -> {0}]
        /\ jobs' \in [Papers -> {None}] /\ fails' \in Nat
    BY <1>21 DEF TypeOK, HostDies
  <2>4. /\ result' \in [Papers -> {"todo", "ok", "pending", "failed", "skip"}]
        /\ tries' \in [Papers -> Nat] /\ jobs' \in [Papers -> Stages \cup {None}]
    BY <2>3
  <2> QED
    BY <2>1, <2>2, <2>3, <2>4, CutTypes DEF TypeOK
<1>22. ASSUME BatchCannotScan \/ UNCHANGED vars PROVE TypeOK'
  BY <1>22 DEF TypeOK, BatchCannotScan, vars, rundirs, host, counts
<1> QED
  BY <1>1, <1>2, <1>3, <1>4, <1>5, <1>6, <1>7, <1>8, <1>9, <1>10, <1>11, <1>12, <1>13, <1>14,
     <1>15, <1>16, <1>17, <1>18, <1>19, <1>20, <1>21, <1>22 DEF Next, Progress, Scan

(***************************************************************************)
(* Who runs                                                                *)
(***************************************************************************)

LEMMA ExitPhase ==
    ASSUME TypeOK, PhaseInv, NEW p \in Papers, Active(p), NEW code \in {0, 1, 200},
           Exit(p, code), exists \subseteq exists',
           code = 200 => LET d == process[p].dir IN
                         d \in exists /\ process[p].pc \in Stages /\ asked'[d][process[p].pc] = d
    PROVE  PhaseInv'
<1>1. CASE phase = "running" /\ Retry(p)
  BY <1>1 DEF Retry, TypeOK, PhaseInv, Active, Processes
<1>2. CASE phase = "running" /\ EndGroup(p, code)
  BY <1>2 DEF EndGroup, TypeOK, PhaseInv, Active, Idle
<1>3. CASE phase = "solo" /\ EndSolo(p, code)
  <2>1. \A q \in Papers : ~Active(q)'
    BY <1>3 DEF EndSolo, TypeOK, PhaseInv, Active, Idle
  <2>2. \A d \in Papers : jobs'[d] # None =>
          phase' = "dispatching" /\ d \in exists' /\ asked'[d][jobs'[d]] = d
    <3>1. CASE code = 200
      BY <1>3, <3>1 DEF EndSolo, TypeOK, PhaseInv
    <3>2. CASE code # 200
      BY <1>3, <3>2 DEF EndSolo, TypeOK, PhaseInv
    <3> QED
      BY <3>1, <3>2
  <2> QED
    BY <1>3, <2>1, <2>2 DEF PhaseInv, EndSolo
<1> QED
  BY <1>1, <1>2, <1>3 DEF Exit

(* A command is started only when nothing else runs, or by the batch.      *)
LEMMA PhaseKept ==
    ASSUME IInv, [Next]_vars
    PROVE  PhaseInv'
<1> USE DEF IInv
<1>1. ASSUME NEW p \in Papers, Refuse(p) PROVE PhaseInv'
  BY <1>1, ExitPhase DEF Active, Refuse, rundirs
<1>2. ASSUME NEW p \in Papers, Skip(p) PROVE PhaseInv'
  BY <1>2, ExitPhase DEF Active, Skip, rundirs
<1>3. ASSUME NEW p \in Papers, Bootstrap(p) PROVE PhaseInv'
  BY <1>3 DEF TypeOK, PhaseInv, Active, Processes, Bootstrap, Proceeds, Goto, host
<1>4. ASSUME NEW p \in Papers, AskProfile(p) PROVE PhaseInv'
  <2>1. process[p].dir = p /\ p \in exists /\ process[p].pc = "profiler" /\ "profiler" \in Stages
    BY <1>4 DEF ProcessInv, Working, AskProfile, Stages
  <2>2. asked'[p].profiler = p
    BY <1>4, <2>1 DEF TypeOK, Manifests, AskProfile
  <2> QED
    BY <1>4, <2>1, <2>2, ExitPhase DEF Active, AskProfile
<1>5. ASSUME NEW p \in Papers, AskNote(p) PROVE PhaseInv'
  <2>1. /\ process[p].dir = p /\ p \in exists
        /\ process[p].pc = "note_generator" /\ "note_generator" \in Stages
    BY <1>5 DEF ProcessInv, Working, AskNote, Stages
  <2>2. asked'[p].note_generator = p
    BY <1>5, <2>1 DEF TypeOK, Manifests, AskNote
  <2> QED
    BY <1>5, <2>1, <2>2, ExitPhase DEF Active, AskNote
<1>6. ASSUME NEW p \in Papers, LoadProfile(p) \/ LoadDraft(p) PROVE PhaseInv'
  <2>1. process[p].pc # "idle" /\ process' = [process EXCEPT ![p] = process'[p]]
    BY <1>6 DEF TypeOK, LoadProfile, LoadDraft
  <2>2. process'[p].dir = process[p].dir
    BY <1>6 DEF TypeOK, Processes, LoadProfile, LoadDraft
  <2>3. UNCHANGED <<exists, asked, phase, result, jobs>>
    BY <1>6 DEF LoadProfile, LoadDraft, rundirs, host
  <2> QED
    BY <2>1, <2>2, <2>3 DEF TypeOK, PhaseInv, Active
<1>7. ASSUME NEW p \in Papers,
             QuarantineProfile(p) \/ QuarantineDraft(p) \/ SaveProfile(p) \/ SaveDraft(p)
               \/ PublishNote(p)
      PROVE  PhaseInv'
  <2>1. /\ process[p].pc # "idle"
        /\ \E label : process' = [process EXCEPT ![p].pc = label]
    BY <1>7
    DEF QuarantineProfile, QuarantineDraft, MoveAside, SaveProfile, SaveDraft, PublishNote, Goto
  <2>2. UNCHANGED <<exists, asked, phase, result, jobs>>
    BY <1>7
    DEF QuarantineProfile, QuarantineDraft, MoveAside, SaveProfile, SaveDraft, PublishNote, Goto,
        rundirs, host
  <2> QED
    BY <2>1, <2>2 DEF TypeOK, PhaseInv, Active, Processes
<1>8. ASSUME NEW p \in Papers, Record(p) PROVE PhaseInv'
  BY <1>8, ExitPhase DEF Active, Record, rundirs
<1>9. ASSUME NEW p \in Papers, StartGroup(p) PROVE PhaseInv'
  BY <1>9 DEF TypeOK, PhaseInv, Active, Idle, StartGroup, rundirs, host
<1>10. ASSUME NEW p \in Papers, AnswerJob(p) PROVE PhaseInv'
  BY <1>10
  DEF TypeOK, PhaseInv, Active, AnswerJob, AnswerProfile, AnswerNote, AnswerBadly
<1>11. ASSUME RunBatch PROVE PhaseInv'
  BY <1>11 DEF PhaseInv, Active, RunBatch, rundirs
<1>12. ASSUME EndBatch PROVE PhaseInv'
  <2>1. \A d \in Papers : Listed(d) # None => d \in exists /\ asked[d][Listed(d)] = d
    <3> SUFFICES ASSUME NEW d \in Papers, Listed(d) # None
                 PROVE  d \in exists /\ asked[d][Listed(d)] = d
      OBVIOUS
    <3>1. Listed(d) \in Unfilled(d)
      BY DEF Listed
    <3> QED
      BY <3>1, PipelineAssumption DEF DirectoryInv, Unfilled
  <2>2. \A p \in Papers : ~Active(p)
    BY <1>12 DEF EndBatch, PhaseInv
  <2>3. \A d \in Papers : jobs'[d] # None =>
          phase' = "dispatching" /\ d \in exists' /\ asked'[d][jobs'[d]] = d
    BY <1>12, <2>1 DEF EndBatch, TypeOK, PhaseInv, rundirs
  <2> QED
    BY <1>12, <2>2, <2>3 DEF EndBatch, PhaseInv, Active
<1>13. ASSUME Waited \/ ChangeTarget PROVE PhaseInv'
  BY <1>13 DEF PhaseInv, Active, Waited, ChangeTarget, rundirs
<1>14. ASSUME NEW p \in Papers, Die(p) PROVE PhaseInv'
  <2>1. exists \subseteq exists'
    BY <1>14 DEF Die, CutWrite, rundirs
  <2> QED
    BY <1>14, <2>1, ExitPhase DEF Active, Die
<1>15. ASSUME NEW p \in Papers, StartSolo(p) PROVE PhaseInv'
  BY <1>15 DEF TypeOK, PhaseInv, Active, Idle, StartSolo, rundirs
<1>16. ASSUME HostDies PROVE PhaseInv'
  BY <1>16 DEF PhaseInv, Active, Idle, HostDies
<1>17. ASSUME BatchCannotScan \/ UNCHANGED vars PROVE PhaseInv'
  BY <1>17 DEF PhaseInv, Active, BatchCannotScan, vars, rundirs, host
<1> QED
  BY <1>1, <1>2, <1>3, <1>4, <1>5, <1>6, <1>7, <1>8, <1>9, <1>10, <1>11, <1>12, <1>13,
     <1>14, <1>15, <1>16, <1>17 DEF Next, Progress, Scan

(***************************************************************************)
(* What a process holds                                                    *)
(***************************************************************************)

LEMMA ExitProcess ==
    ASSUME TypeOK, ProcessInv, NEW p \in Papers, Active(p), NEW code \in {0, 1, 200},
           Exit(p, code), exists \subseteq exists'
    PROVE  ProcessInv'
<1>1. CASE Retry(p)
  BY <1>1 DEF Retry, TypeOK, ProcessInv, Active, Working, Processes, Stages
<1>2. CASE process' = [process EXCEPT ![p] = Idle]
  BY <1>2 DEF TypeOK, ProcessInv, Active, Working, Idle
<1> QED
  BY <1>1, <1>2 DEF Exit, EndGroup, EndSolo

(* The guard lets a process into its own directory, and what it loads there *)
(* is about its paper.                                                     *)
LEMMA ProcessKept ==
    ASSUME IInv, [Next]_vars
    PROVE  ProcessInv'
<1> USE DEF IInv
<1>1. ASSUME NEW p \in Papers, Refuse(p) PROVE ProcessInv'
  BY <1>1, ExitProcess DEF Active, Refuse, rundirs
<1>2. ASSUME NEW p \in Papers, Skip(p) PROVE ProcessInv'
  BY <1>2, ExitProcess DEF Active, Skip, rundirs
<1>3. ASSUME NEW p \in Papers, Bootstrap(p) PROVE ProcessInv'
  BY <1>3, OwnDirectory
  DEF TypeOK, ProcessInv, Active, Working, Processes, Stages, Bootstrap, Proceeds, Goto
<1>4. ASSUME NEW p \in Papers,
             AskProfile(p) \/ AskNote(p) \/ Record(p)
      PROVE  ProcessInv'
  BY <1>4, ExitProcess DEF Active, AskProfile, AskNote, Record, rundirs
<1>5. ASSUME NEW p \in Papers, LoadProfile(p) PROVE ProcessInv'
  BY <1>5
  DEF TypeOK, ProcessInv, Active, Working, Processes, DirectoryInv, Loads, LoadProfile, rundirs
<1>6. ASSUME NEW p \in Papers, LoadDraft(p) PROVE ProcessInv'
  BY <1>6
  DEF TypeOK, ProcessInv, Active, Working, Processes, DirectoryInv, Loads, LoadDraft, rundirs
<1>7. ASSUME NEW p \in Papers,
             QuarantineProfile(p) \/ QuarantineDraft(p) \/ SaveProfile(p) \/ SaveDraft(p) \/ PublishNote(p)
      PROVE  ProcessInv'
  <2>1. PICK label : process' = [process EXCEPT ![p].pc = label]
    BY <1>7
    DEF QuarantineProfile, QuarantineDraft, MoveAside, SaveProfile, SaveDraft, PublishNote, Goto
  <2>2. process'[p].pc = label
    BY <2>1 DEF TypeOK, Processes
  <2>3. \/ label = process[p].pc /\ label \in Stages
        \/ process[p].pc = "profiled" /\ label = "note_generator"
        \/ process[p].pc = "drafted" /\ label = "publishing"
        \/ process[p].pc = "publishing" /\ label = "recording"
    <3>1. ASSUME NEW other, Goto(p, other) PROVE label = other
      <4>1. process' = [process EXCEPT ![p].pc = other]
        BY <3>1 DEF Goto
      <4> QED
        BY <2>2, <4>1 DEF TypeOK, Processes
    <3>2. CASE QuarantineProfile(p) \/ QuarantineDraft(p)
      BY <3>1, <3>2 DEF QuarantineProfile, QuarantineDraft, MoveAside, Stages
    <3>3. CASE SaveProfile(p) \/ SaveDraft(p) \/ PublishNote(p)
      BY <3>1, <3>3 DEF SaveProfile, SaveDraft, PublishNote
    <3> QED
      BY <1>7, <3>2, <3>3
  <2>4. exists' = exists
    BY <1>7
    DEF QuarantineProfile, QuarantineDraft, MoveAside, SaveProfile, SaveDraft, PublishNote, rundirs
  <2> QED
    BY <2>1, <2>3, <2>4 DEF TypeOK, ProcessInv, Active, Working, Processes, Stages
<1>8. ASSUME NEW p \in Papers, StartGroup(p) PROVE ProcessInv'
  BY <1>8 DEF TypeOK, ProcessInv, Active, Working, Idle, StartGroup, rundirs
<1>9. ASSUME NEW p \in Papers, AnswerJob(p) PROVE ProcessInv'
  BY <1>9
  DEF ProcessInv, Active, Working, AnswerJob, AnswerProfile, AnswerNote, AnswerBadly
<1>10. ASSUME RunBatch \/ EndBatch \/ Waited \/ ChangeTarget PROVE ProcessInv'
  BY <1>10 DEF ProcessInv, Active, Working, RunBatch, EndBatch, Waited, ChangeTarget, rundirs
<1>11. ASSUME NEW p \in Papers, Die(p) PROVE ProcessInv'
  <2>1. exists \subseteq exists'
    BY <1>11 DEF Die, CutWrite, rundirs
  <2> QED
    BY <1>11, <2>1, ExitProcess DEF Active, Die
<1>12. ASSUME NEW p \in Papers, StartSolo(p) PROVE ProcessInv'
  BY <1>12 DEF TypeOK, ProcessInv, Active, Working, Idle, StartSolo, rundirs
<1>13. ASSUME HostDies PROVE ProcessInv'
  BY <1>13 DEF ProcessInv, Active, Working, Idle, HostDies
<1>14. ASSUME BatchCannotScan \/ UNCHANGED vars PROVE ProcessInv'
  BY <1>14 DEF ProcessInv, Active, Working, BatchCannotScan, vars, rundirs
<1> QED
  BY <1>1, <1>2, <1>3, <1>4, <1>5, <1>6, <1>7, <1>8, <1>9, <1>10, <1>11, <1>12, <1>13,
     <1>14 DEF Next, Progress, Scan

(***************************************************************************)
(* What a run directory holds                                              *)
(***************************************************************************)

(* Asking changes the manifests of the paper's own directory only.         *)
LEMMA AskKeeps ==
    ASSUME IInv, NEW p \in Papers, AskProfile(p) \/ AskNote(p)
    PROVE  DirectoryInv'
<1> USE DEF IInv
<1>1. process[p].dir = p /\ p \in exists
  BY DEF ProcessInv, Working, AskProfile, AskNote
<1>2. \A d \in Papers : d # p => asked'[d] = asked[d]
  BY <1>1 DEF TypeOK, AskProfile, AskNote
<1>3. \A stage \in Stages : asked'[p][stage] \in {p, asked[p][stage]}
  <2>1. CASE AskProfile(p)
    <3>1. asked'[p].profiler = p /\ asked'[p].note_generator = asked[p].note_generator
      BY <1>1, <2>1 DEF TypeOK, Manifests, AskProfile
    <3> QED
      BY <3>1 DEF Stages
  <2>2. CASE AskNote(p)
    <3>1. asked'[p].note_generator = p /\ asked'[p].profiler = asked[p].profiler
      BY <1>1, <2>2 DEF TypeOK, Manifests, AskNote
    <3> QED
      BY <3>1 DEF Stages
  <2> QED
    BY <2>1, <2>2
<1>4. \A q \in Papers : Active(q)' => Active(q) /\ process'[q].resume = process[q].resume
  <2>1. process[p].pc # "idle" /\ Exit(p, 200)
    BY DEF AskProfile, AskNote
  <2> QED
    BY <2>1 DEF TypeOK, Processes, Exit, Retry, EndGroup, EndSolo, Active, Idle
<1>5. phase' = "running" => phase = "running"
  BY DEF AskProfile, AskNote, Exit, Retry, EndGroup, EndSolo
<1>6. \A d \in Papers, stage \in Stages : asked'[d][stage] \in {None, Garbled, d}
  BY <1>2, <1>3 DEF DirectoryInv
<1>7. \A d \in Papers \ exists, stage \in Stages : asked'[d][stage] = None
  BY <1>1, <1>2 DEF DirectoryInv
<1>8. UNCHANGED <<exists, boot, profile, draft>>
  BY DEF AskProfile, AskNote
<1> QED
  BY <1>4, <1>5, <1>6, <1>7, <1>8 DEF DirectoryInv

(* A forced group clears its directory, and any other resumes what is      *)
(* there.                                                                  *)
LEMMA StartKeeps ==
    ASSUME IInv, NEW p \in Papers, StartGroup(p)
    PROVE  DirectoryInv'
<1> USE DEF IInv
<1>1. \A q \in Papers \ {p} : Active(q)' => Active(q) /\ process'[q].resume = process[q].resume
  BY DEF TypeOK, StartGroup, Active
<1>2. CASE Forced
  <2>1. \A d \in Papers \ {p} :
          /\ boot'[d] = boot[d] /\ profile'[d] = profile[d] /\ draft'[d] = draft[d]
          /\ asked'[d] = asked[d]
          /\ d \in exists' <=> d \in exists
    BY <1>2 DEF StartGroup, TypeOK
  <2>2. /\ boot'[p] = None /\ profile'[p] = None /\ draft'[p] = None
        /\ \A stage \in Stages : asked'[p][stage] = None
    BY <1>2 DEF StartGroup, TypeOK, NothingAsked, Stages
  <2> QED
    BY <1>1, <2>1, <2>2, PipelineAssumption DEF DirectoryInv, StartGroup, host
<1>3. CASE ~Forced
  <2>1. ~process'[p].resume => p \notin exists
    BY <1>3 DEF TypeOK, StartGroup, Idle
  <2> QED
    BY <1>1, <1>3, <2>1 DEF DirectoryInv, StartGroup, host, rundirs
<1> QED
  BY <1>2, <1>3

(* A write that was cut leaves its file as it was or in part, in the       *)
(* directory of its paper.                                                 *)
LEMMA CutKeeps ==
    ASSUME IInv, NEW p \in Papers, CutWrite(p)
    PROVE  /\ exists \subseteq exists'
           /\ \A d \in Papers :
                /\ boot'[d] \in {None, Garbled, boot[d]}
                /\ profile'[d] \in {Partial, profile[d]} /\ draft'[d] \in {Partial, draft[d]}
                /\ \A stage \in Stages : asked'[d][stage] \in {None, Garbled, asked[d][stage]}
                /\ d # p \/ d \notin exists =>
                     /\ profile'[d] = profile[d] /\ draft'[d] = draft[d]
                     /\ \A stage \in Stages : asked'[d][stage] = asked[d][stage]
           /\ phase = "running" /\ ~process[p].resume => profile' = profile
<1> USE DEF IInv
<1> DEFINE at == process[p].pc
<1>1. Working(p) => process[p].dir = p /\ p \in exists
  BY DEF ProcessInv
<1>2. CASE UNCHANGED <<rundirs, note>>
  BY <1>2 DEF rundirs
<1>3. CASE /\ exists' = exists \cup {process[p].dir} /\ Cut(boot, process[p].dir, {None, Garbled})
           /\ UNCHANGED <<profile, draft, asked, note>>
  BY <1>3 DEF TypeOK, Cut
<1>4. CASE /\ at = "profiled" /\ Cut(profile, process[p].dir, {Partial})
           /\ UNCHANGED <<exists, boot, draft, asked, note>>
  BY <1>1, <1>4 DEF TypeOK, Cut, ProcessInv, Working
<1>5. CASE /\ at = "drafted" /\ Cut(draft, process[p].dir, {Partial})
           /\ UNCHANGED <<exists, boot, profile, asked, note>>
  BY <1>1, <1>5 DEF TypeOK, Cut, Working
<1>6. CASE /\ at \in Stages
           /\ \E value \in {None, Garbled} : asked' = [asked EXCEPT ![process[p].dir][at] = value]
           /\ UNCHANGED <<exists, boot, profile, draft, note>>
  <2>1. process[p].dir = p /\ p \in exists
    BY <1>1, <1>6 DEF Working, Stages
  <2>2. PICK value \in {None, Garbled} : asked' = [asked EXCEPT ![p][at] = value]
    BY <1>6, <2>1
  <2>3. \A d \in Papers, stage \in Stages :
          asked'[d][stage] = IF d = p /\ stage = at THEN value ELSE asked[d][stage]
    BY <1>6, <2>2 DEF TypeOK, Manifests, Stages
  <2> QED
    BY <1>6, <2>1, <2>3
<1>7. CASE UNCHANGED rundirs
  BY <1>7 DEF rundirs
<1> QED
  BY <1>2, <1>3, <1>4, <1>5, <1>6, <1>7 DEF CutWrite

(* So every run directory is still about its paper.                        *)
LEMMA CutDirectories ==
    ASSUME IInv, NEW p \in Papers, CutWrite(p),
           phase' = "running" =>
             /\ phase = "running"
             /\ \A q \in Papers : Active(q)' => Active(q) /\ process'[q].resume = process[q].resume
    PROVE  DirectoryInv'
<1> USE DEF IInv
<1>1. exists \subseteq exists'
  BY CutKeeps
<1>2. \A d \in Papers :
        /\ boot'[d] \in {None, Garbled, d}
        /\ \A stage \in Stages : asked'[d][stage] \in {None, Garbled, d}
  BY CutKeeps DEF DirectoryInv
<1>3. \A d \in Papers :
        /\ profile'[d] \in Papers => profile'[d] = d
        /\ draft'[d] \in Papers => draft'[d] = d
  BY CutKeeps, PipelineAssumption DEF DirectoryInv
<1>4. \A d \in Papers \ exists' :
        profile'[d] = None /\ draft'[d] = None /\ \A stage \in Stages : asked'[d][stage] = None
  BY <1>1, CutKeeps DEF DirectoryInv
<1>5. phase = "running" =>
        \A q \in Papers : Active(q) /\ ~process[q].resume => profile'[q] = profile[q]
  BY CutKeeps
<1>6. phase' = "running" =>
        \A q \in Papers : Active(q)' /\ ~process'[q].resume => profile'[q] = None
  BY <1>5 DEF DirectoryInv
<1> QED
  BY <1>2, <1>3, <1>4, <1>6 DEF DirectoryInv

(* A death leaves the file that was being written as it was or in part.    *)
LEMMA DeathKeeps ==
    ASSUME IInv, NEW p \in Papers, Die(p)
    PROVE  DirectoryInv'
<1>1. \A q \in Papers : Active(q)' => Active(q) /\ process'[q].resume = process[q].resume
  BY SMTT(30)
  DEF IInv, TypeOK, Processes, Die, Exit, Retry, EndGroup, EndSolo, Active, Idle
<1>2. phase' = "running" => phase = "running"
  BY DEF Die, Exit, Retry, EndGroup, EndSolo
<1> QED
  BY <1>1, <1>2, CutDirectories DEF Die

(* Whatever a sub-agent writes, it was asked for by the directory's paper.  *)
LEMMA DirectoryKept ==
    ASSUME IInv, [Next]_vars
    PROVE  DirectoryInv'
<1> USE DEF IInv
<1>1. ASSUME NEW p \in Papers, Refuse(p) PROVE DirectoryInv'
  <2>1. \A q \in Papers : Active(q)' => Active(q) /\ process'[q].resume = process[q].resume
    BY <1>1, SMTT(30)
    DEF TypeOK, Processes, Refuse, Exit, Retry, EndGroup, EndSolo, Active, Idle
  <2>2. phase' = "running" => phase = "running"
    BY <1>1 DEF Refuse, Exit, Retry, EndGroup, EndSolo
  <2> QED
    BY <1>1, <2>1, <2>2 DEF DirectoryInv, Refuse, rundirs
<1>2. ASSUME NEW p \in Papers, Skip(p) PROVE DirectoryInv'
  BY <1>2 DEF TypeOK, Processes, DirectoryInv, Active, Exit, Retry, EndGroup, EndSolo, Idle,
           Skip, rundirs
<1>3. ASSUME NEW p \in Papers, Record(p) PROVE DirectoryInv'
  BY <1>3, SMTT(30) DEF TypeOK, Processes, DirectoryInv, Active, Exit, Retry, EndGroup, EndSolo, Idle,
           Record, rundirs
<1>4. ASSUME NEW p \in Papers, Bootstrap(p) PROVE DirectoryInv'
  <2>1. process[p].dir = p
    BY <1>4, OwnDirectory DEF Bootstrap, Proceeds
  <2> QED
    BY <1>4, <2>1 DEF TypeOK, Processes, DirectoryInv, Active, Bootstrap, Proceeds, Goto, host
<1>5. ASSUME NEW p \in Papers, AskProfile(p) \/ AskNote(p) PROVE DirectoryInv'
  BY <1>5, AskKeeps
<1>6. ASSUME NEW p \in Papers, LoadProfile(p) PROVE DirectoryInv'
  BY <1>6 DEF TypeOK, Processes, DirectoryInv, Active, LoadProfile, rundirs, host
<1>7. ASSUME NEW p \in Papers, LoadDraft(p) PROVE DirectoryInv'
  BY <1>7 DEF TypeOK, Processes, DirectoryInv, Active, LoadDraft, rundirs, host
<1>8. ASSUME NEW p \in Papers, QuarantineProfile(p) PROVE DirectoryInv'
  BY <1>8, PipelineAssumption
  DEF TypeOK, Processes, DirectoryInv, Active, QuarantineProfile, MoveAside, Goto, host
<1>9. ASSUME NEW p \in Papers, QuarantineDraft(p) PROVE DirectoryInv'
  BY <1>9, PipelineAssumption
  DEF TypeOK, Processes, DirectoryInv, Active, QuarantineDraft, MoveAside, Goto, host
<1>10. ASSUME NEW p \in Papers, SaveProfile(p) PROVE DirectoryInv'
  BY <1>10
  DEF TypeOK, Processes, DirectoryInv, Active, Working, ProcessInv, SaveProfile, Goto, host
<1>11. ASSUME NEW p \in Papers, SaveDraft(p) PROVE DirectoryInv'
  BY <1>11
  DEF TypeOK, Processes, DirectoryInv, Active, Working, ProcessInv, SaveDraft, Goto, host
<1>12. ASSUME NEW p \in Papers, PublishNote(p) PROVE DirectoryInv'
  BY <1>12 DEF TypeOK, Processes, DirectoryInv, Active, PublishNote, Goto, rundirs, host
<1>13. ASSUME NEW p \in Papers, StartGroup(p) PROVE DirectoryInv'
  BY <1>13, StartKeeps
<1>14. ASSUME NEW p \in Papers, AnswerJob(p) PROVE DirectoryInv'
  <2>1. jobs[p] # None /\ p \in exists /\ phase = "dispatching"
    BY <1>14, PipelineRecordAssumption
    DEF PhaseInv, AnswerJob, AnswerProfile, AnswerNote, AnswerBadly, Stages
  <2>2. \A d \in Papers \ {p} : profile'[d] = profile[d] /\ draft'[d] = draft[d]
    BY <1>14 DEF TypeOK, AnswerJob, AnswerProfile, AnswerNote, AnswerBadly
  <2>3. /\ profile'[p] \in {profile[p], p, Partial, Invalid}
        /\ draft'[p] \in {draft[p], p, Partial, Invalid}
    BY <1>14, <2>1
    DEF TypeOK, PhaseInv, AnswerJob, AnswerProfile, AnswerNote, AnswerBadly, Output
  <2>4. UNCHANGED <<exists, boot, asked, phase>>
    BY <1>14 DEF AnswerJob, AnswerProfile, AnswerNote, AnswerBadly
  <2> QED
    BY <2>1, <2>2, <2>3, <2>4, PipelineAssumption DEF DirectoryInv, Stages
<1>15. ASSUME RunBatch PROVE DirectoryInv'
  BY <1>15 DEF PhaseInv, DirectoryInv, Active, RunBatch, rundirs
<1>16. ASSUME EndBatch \/ Waited \/ ChangeTarget PROVE DirectoryInv'
  BY <1>16 DEF DirectoryInv, Active, EndBatch, Waited, ChangeTarget, rundirs
<1>17. ASSUME NEW p \in Papers, Die(p) PROVE DirectoryInv'
  BY <1>17, DeathKeeps
<1>18. ASSUME NEW p \in Papers, StartSolo(p) PROVE DirectoryInv'
  BY <1>18 DEF DirectoryInv, StartSolo, rundirs
<1>19. ASSUME HostDies PROVE DirectoryInv'
  BY <1>19, CutDirectories DEF HostDies
<1>20. ASSUME BatchCannotScan \/ UNCHANGED vars PROVE DirectoryInv'
  BY <1>20 DEF DirectoryInv, Active, BatchCannotScan, vars, rundirs, host
<1> QED
  BY <1>1, <1>2, <1>3, <1>4, <1>5, <1>6, <1>7, <1>8, <1>9, <1>10, <1>11, <1>12, <1>13,
     <1>14, <1>15, <1>16, <1>17, <1>18, <1>19, <1>20 DEF Next, Progress, Scan

(***************************************************************************)
(* What is pending, and what is published                                  *)
(***************************************************************************)

(* A pending group has no process, and nothing else works in its directory *)
(* while the batch runs.                                                   *)
LEMMA PendingKept ==
    ASSUME IInv, [Next]_vars
    PROVE  PendingInv'
<1> USE DEF IInv
<1>1. ASSUME NEW p \in Papers, Refuse(p) PROVE PendingInv'
  BY <1>1 DEF TypeOK, PendingInv, Unfilled, Done, Output,
           Exit, Retry, EndGroup, EndSolo, ResultOf, Refuse, rundirs
<1>2. ASSUME NEW p \in Papers, Skip(p) PROVE PendingInv'
  BY <1>2 DEF TypeOK, PendingInv, Unfilled, Done, Output,
           Exit, Retry, EndGroup, EndSolo, ResultOf, Skip, rundirs
<1>3. ASSUME NEW p \in Papers, Record(p) PROVE PendingInv'
  BY <1>3 DEF TypeOK, PendingInv, Unfilled, Done, Output,
           Exit, Retry, EndGroup, EndSolo, ResultOf, Record, rundirs
<1>4. ASSUME NEW p \in Papers, Bootstrap(p) PROVE PendingInv'
  BY <1>4 DEF PendingInv, Unfilled, Done, Output, Bootstrap, Goto, host
<1>5. ASSUME NEW p \in Papers, AskProfile(p) PROVE PendingInv'
  <2> DEFINE d == process[p].dir
  <2>1. /\ d = p
        /\ phase = "running" => asked'[p].profiler = p /\ ~Done(p, "profiler")'
    BY <1>5, PipelineAssumption
    DEF TypeOK, Manifests, PhaseInv, ProcessInv, DirectoryInv, Active, Working, Stages,
        AskProfile, Loads, Filled, Done, Output
  <2>2. phase = "running" => Unfilled(p)' # {}
    BY <2>1, PipelineAssumption DEF Unfilled, Stages
  <2>3. \A q \in Papers \ {p} : Unfilled(q)' = Unfilled(q) /\ result'[q] = result[q]
    BY <1>5, <2>1 DEF TypeOK, Unfilled, Done, Output, Exit, Retry, EndGroup, EndSolo, ResultOf, AskProfile
  <2>4. phase' = "running" => phase = "running"
    BY <1>5 DEF Exit, Retry, EndGroup, EndSolo, ResultOf, AskProfile
  <2> QED
    BY <2>2, <2>3, <2>4 DEF PendingInv
<1>6. ASSUME NEW p \in Papers, AskNote(p) PROVE PendingInv'
  <2> DEFINE d == process[p].dir
  <2>1. /\ d = p
        /\ phase = "running" => asked'[p].note_generator = p /\ ~Done(p, "note_generator")'
    BY <1>6, PipelineAssumption
    DEF TypeOK, Manifests, PhaseInv, ProcessInv, DirectoryInv, Active, Working, Stages,
        AskNote, Loads, Filled, Done, Output
  <2>2. phase = "running" => Unfilled(p)' # {}
    BY <2>1, PipelineAssumption DEF Unfilled, Stages
  <2>3. \A q \in Papers \ {p} : Unfilled(q)' = Unfilled(q) /\ result'[q] = result[q]
    BY <1>6, <2>1 DEF TypeOK, Unfilled, Done, Output, Exit, Retry, EndGroup, EndSolo, ResultOf, AskNote
  <2>4. phase' = "running" => phase = "running"
    BY <1>6 DEF Exit, Retry, EndGroup, EndSolo, ResultOf, AskNote
  <2> QED
    BY <2>2, <2>3, <2>4 DEF PendingInv
<1>7. ASSUME NEW p \in Papers, LoadProfile(p) \/ LoadDraft(p) PROVE PendingInv'
  BY <1>7 DEF PendingInv, Unfilled, Done, Output, LoadProfile, LoadDraft, rundirs, host
<1>8. ASSUME NEW p \in Papers,
             QuarantineProfile(p) \/ QuarantineDraft(p) \/ SaveProfile(p) \/
             SaveDraft(p)
      PROVE  PendingInv'
  BY <1>8
  DEF TypeOK, PhaseInv, ProcessInv, Active, Working, PendingInv, Unfilled, Done, Output,
      Goto, MoveAside, QuarantineProfile, QuarantineDraft, SaveProfile, SaveDraft, host
<1>9. ASSUME NEW p \in Papers, PublishNote(p) PROVE PendingInv'
  BY <1>9 DEF PendingInv, Unfilled, Done, Output, PublishNote, Goto, rundirs, host
<1>10. ASSUME NEW p \in Papers, StartGroup(p) PROVE PendingInv'
  BY <1>10 DEF TypeOK, PendingInv, Unfilled, Done, Output, StartGroup, rundirs, host
<1>11. ASSUME NEW p \in Papers, AnswerJob(p) PROVE PendingInv'
  BY <1>11, PipelineRecordAssumption
  DEF PhaseInv, PendingInv, Stages, AnswerJob, AnswerProfile, AnswerNote, AnswerBadly
<1>12. ASSUME RunBatch PROVE PendingInv'
  BY <1>12 DEF PendingInv, RunBatch
<1>13. ASSUME EndBatch \/ Waited \/ ChangeTarget \/ HostDies PROVE PendingInv'
  BY <1>13 DEF PendingInv, EndBatch, Waited, ChangeTarget, HostDies
<1>14. ASSUME NEW p \in Papers, Die(p) PROVE PendingInv'
  <2>1. CASE phase = "running"
    <3>1. process[p].dir = p /\ result[p] = "todo"
      BY <1>14, <2>1 DEF PhaseInv, Active, Die
    <3>2. \A q \in Papers \ {p} : Unfilled(q)' = Unfilled(q) /\ result'[q] = result[q]
      <4>1. \A q \in Papers \ {p} :
              /\ profile'[q] = profile[q] /\ draft'[q] = draft[q]
              /\ \A stage \in Stages : asked'[q][stage] = asked[q][stage]
        BY <1>14, CutKeeps DEF Die
      <4>2. \A q \in Papers \ {p} : result'[q] = result[q]
        BY <1>14 DEF TypeOK, Exit, Retry, EndGroup, EndSolo, Die
      <4> QED
        BY <4>1, <4>2 DEF Unfilled, Done, Output
    <3>3. result'[p] # "pending"
      BY <1>14, <2>1, <3>1 DEF TypeOK, Exit, Retry, EndGroup, EndSolo, ResultOf, Die
    <3> QED
      BY <2>1, <3>2, <3>3 DEF PendingInv
  <2>2. CASE phase # "running"
    BY <1>14, <2>2 DEF PendingInv, Exit, Retry, EndGroup, EndSolo, ResultOf, Die
  <2> QED
    BY <2>1, <2>2
<1>15. ASSUME NEW p \in Papers, StartSolo(p) PROVE PendingInv'
  BY <1>15 DEF PendingInv, StartSolo
<1>16. ASSUME BatchCannotScan \/ UNCHANGED vars PROVE PendingInv'
  BY <1>16 DEF PendingInv, Unfilled, Done, Output, BatchCannotScan, vars, rundirs, host
<1> QED
  BY <1>1, <1>2, <1>3, <1>4, <1>5, <1>6, <1>7, <1>8, <1>9, <1>10, <1>11, <1>12, <1>13,
     <1>14, <1>15, <1>16 DEF Next, Progress, Scan


(* What a step does to the notes: one process writes, under its own name,  *)
(* what it has made of its own paper, in full or up to its death.          *)
LEMMA NotesWritten ==
    ASSUME IInv, [Next]_vars, note' # note
    PROVE  \E p \in Papers :
             /\ process[p].pc = "publishing" /\ vault
             /\ \A n \in Names : n # Filename[p] => note'[n] = note[n]
             /\ note'[Filename[p]] \in Notes /\ note'[Filename[p]].paper = p
             /\ note'[Filename[p]].profile = p /\ note'[Filename[p]].draft = p
             /\ note'[Filename[p]].kind # "whole" => fails < MaxFails
<1> USE DEF IInv
<1>1. ASSUME NEW p \in Papers, Scan(p) \/ StartGroup(p), ~PublishNote(p) PROVE FALSE
  BY <1>1
  DEF Scan, Refuse, Skip, Bootstrap, AskProfile, LoadProfile, QuarantineProfile, SaveProfile,
      AskNote, LoadDraft, QuarantineDraft, SaveDraft, Record, StartGroup
<1>2. ASSUME NEW p \in Papers, AnswerJob(p) \/ StartSolo(p) PROVE FALSE
  BY <1>2 DEF AnswerJob, AnswerProfile, AnswerNote, AnswerBadly, StartSolo
<1>3. ASSUME RunBatch \/ BatchCannotScan \/ EndBatch \/ Waited \/ ChangeTarget \/ UNCHANGED vars
      PROVE  FALSE
  BY <1>3 DEF RunBatch, BatchCannotScan, EndBatch, Waited, ChangeTarget, vars
<1>4. PICK p \in Papers : PublishNote(p) \/ (fails < MaxFails /\ CutWrite(p))
  BY <1>1, <1>2, <1>3 DEF Next, Progress, Die, HostDies
<1>5. process[p].pc = "publishing" /\ vault
  BY <1>4 DEF PublishNote, CutWrite
<1>6. process[p].profile = p /\ process[p].draft = p
  BY <1>5 DEF ProcessInv
<1>7. \A file \in {Written(p)} \cup CutShort(p) :
        file \in Notes /\ file.paper = p /\ file.profile = p /\ file.draft = p
  BY <1>6, NoteTypes
<1>8. Written(p).kind = "whole"
  BY DEF Written
<1>9. \E file \in {Written(p)} \cup CutShort(p) :
        /\ note' = [note EXCEPT ![Filename[p]] = file]
        /\ file = Written(p) \/ fails < MaxFails
  <2>1. CASE PublishNote(p)
    BY <1>5, <2>1 DEF PublishNote
  <2>2. CASE fails < MaxFails /\ CutWrite(p)
    BY <1>5, <2>2 DEF CutWrite, Cut, Proceeds, Stages
  <2> QED
    BY <1>4, <2>1, <2>2
<1>10. Filename[p] \in Names
  BY PipelineAssumption
<1> QED
  BY <1>5, <1>7, <1>8, <1>9, <1>10 DEF TypeOK

(* Every step keeps notes of one paper.                                    *)
LEMMA NotesKept ==
    ASSUME IInv, [Next]_vars
    PROVE  NoteOfItsPaper'
<1>1. CASE note' = note
  BY <1>1 DEF IInv, NoteOfItsPaper
<1>2. CASE note' # note
  BY <1>2, NotesWritten, PipelineRecordAssumption DEF IInv, NoteOfItsPaper
<1> QED
  BY <1>1, <1>2

(***************************************************************************)
(* The invariant and what follows                                          *)
(***************************************************************************)

LEMMA InitInvariant == Init => IInv
<1> SUFFICES ASSUME Init PROVE IInv
  OBVIOUS
<1> USE DEF Init
<1>1. TypeOK
  <2>1. NothingAsked \in Manifests
    BY DEF NothingAsked, Manifests, Stages
  <2> QED
    BY <2>1, ProcessTypes DEF TypeOK
<1>2. PhaseInv /\ ProcessInv /\ PendingInv
  BY DEF PhaseInv, ProcessInv, PendingInv, Active, Working, Idle
<1>3. DirectoryInv
  BY PipelineAssumption, SMTT(30) DEF DirectoryInv, NothingAsked, Stages
<1>4. NoteOfItsPaper
  BY PipelineRecordAssumption DEF NoteOfItsPaper
<1> QED
  BY <1>1, <1>2, <1>3, <1>4 DEF IInv

(* The invariant holds in every state.                                     *)
THEOREM PipelineInvariance == Spec => []IInv
<1>1. IInv /\ [Next]_vars => IInv'
  BY TypeKept, PhaseKept, ProcessKept, DirectoryKept, PendingKept, NotesKept DEF IInv
<1> QED
  BY InitInvariant, <1>1, PTL DEF Spec

(* Whatever directory a run was told to resume and whatever its sub-agents *)
(* wrote there: a note, in full or in part, was made of one paper.         *)
THEOREM NotesAreUnmixed == Spec => []NoteOfItsPaper
<1>1. IInv => NoteOfItsPaper
  BY DEF IInv
<1> QED
  BY <1>1, PipelineInvariance, PTL

(* A group reported as pending has a manifest for the parent to dispatch:  *)
(* what the backend does not load, the helper lists.                       *)
THEOREM PendingIsListed == Spec => []PendingListed
<1>1. ASSUME IInv PROVE PendingListed
  <2>1. ASSUME NEW d \in Papers, Unfilled(d) # {} PROVE Listed(d) \in Stages
    BY <2>1 DEF Listed, Unfilled
  <2> QED
    BY <1>1, <2>1, PipelineRecordAssumption DEF IInv, PendingInv, PendingListed
<1> QED
  BY <1>1, PipelineInvariance, PTL

(***************************************************************************)
(* Ledger and vault, when every paper has a name of its own                *)
(***************************************************************************)

OwnNames == \A p, q \in Papers : Filename[p] = Filename[q] => p = q

(* The file of a paper's name is written by its own process alone.         *)
LEMMA NoteStays ==
    ASSUME OwnNames, IInv, [Next]_vars, NEW p \in Papers, process[p].pc # "publishing"
    PROVE  note'[Filename[p]] = note[Filename[p]]
<1>1. CASE note' = note
  BY <1>1
<1>2. CASE note' # note
  BY <1>2, NotesWritten, PipelineAssumption DEF OwnNames
<1> QED
  BY <1>1, <1>2

(* What is in the vault is of its paper, in full or in part, from then on. *)
LEMMA PublishedStays ==
    ASSUME OwnNames, IInv, [Next]_vars, NEW p \in Papers, Published(p)
    PROVE  Published(p)'
<1>1. CASE note' = note
  BY <1>1 DEF Published, HasNote, HasTornNote
<1>2. CASE note' # note
  BY <1>2, NotesWritten, PipelineAssumption DEF OwnNames, Published, HasNote, HasTornNote
<1> QED
  BY <1>1, <1>2

(* Nothing takes a paper out of the ledger.                                *)
LEMMA LedgerStays ==
    ASSUME [Next]_vars
    PROVE  ledger \subseteq ledger'
<1>1. ASSUME NEW q \in Papers, Scan(q) PROVE ledger \subseteq ledger'
  BY <1>1
  DEF Scan, Refuse, Skip, Bootstrap, AskProfile, LoadProfile, QuarantineProfile, SaveProfile,
      AskNote, LoadDraft, QuarantineDraft, SaveDraft, PublishNote, Record
<1>2. ASSUME NEW q \in Papers, StartGroup(q) \/ AnswerJob(q) \/ StartSolo(q) \/ Die(q)
      PROVE  ledger' = ledger
  BY <1>2
  DEF StartGroup, AnswerJob, AnswerProfile, AnswerNote, AnswerBadly, StartSolo, Die
<1>3. ASSUME \/ RunBatch \/ BatchCannotScan \/ EndBatch \/ Waited \/ HostDies \/ ChangeTarget
             \/ UNCHANGED vars
      PROVE  ledger' = ledger
  BY <1>3 DEF RunBatch, BatchCannotScan, EndBatch, Waited, HostDies, ChangeTarget, vars
<1> QED
  BY <1>1, <1>2, <1>3 DEF Next, Progress

(* What a batch has seen to stays as it was, when nothing works on it.     *)
LEMMA SeenStays ==
    ASSUME OwnNames, IInv, [Next]_vars, NEW p \in Papers, ~Active(p), Seen(p)
    PROVE  Seen(p)'
<1>1. note'[Filename[p]] = note[Filename[p]]
  BY NoteStays DEF Active
<1>2. /\ HasNote(p)' <=> HasNote(p)
      /\ HasTornNote(p)' <=> HasTornNote(p)
      /\ p \in InVault' <=> p \in InVault
  BY <1>1 DEF HasNote, HasTornNote, InVault, IsNoteOf
<1> QED
  BY <1>2, LedgerStays DEF Seen

(* What the dedup index covers was published.                              *)
LEMMA CoveredWasPublished ==
    ASSUME CoverInv, NEW p \in Papers, Covered(p)
    PROVE  Published(p)
BY DEF CoverInv, Covered, InVault, IsNoteOf, Published, HasNote, HasTornNote

(* Who is added to the ledger was found by the index, or has just been     *)
(* published.                                                              *)
LEMMA LedgerGrows ==
    ASSUME IInv, CoverInv, [Next]_vars, NEW p \in Papers, p \in ledger', p \notin ledger
    PROVE  Published(p)
<1>1. ASSUME NEW q \in Papers, Skip(q) PROVE Published(p)
  BY <1>1, CoveredWasPublished DEF Skip
<1>2. ASSUME NEW q \in Papers, Record(q) PROVE Published(p)
  BY <1>2 DEF Record, ToRecord, CoverInv, Published
<1>3. ASSUME NEW q \in Papers, Scan(q), ~Skip(q), ~Record(q) PROVE FALSE
  BY <1>3
  DEF Scan, Refuse, Bootstrap, AskProfile, LoadProfile, QuarantineProfile, SaveProfile,
      AskNote, LoadDraft, QuarantineDraft, SaveDraft, PublishNote
<1>4. ASSUME NEW q \in Papers, StartGroup(q) \/ AnswerJob(q) \/ StartSolo(q) \/ Die(q)
      PROVE  FALSE
  BY <1>4
  DEF StartGroup, AnswerJob, AnswerProfile, AnswerNote, AnswerBadly, StartSolo, Die
<1>5. ASSUME \/ RunBatch \/ BatchCannotScan \/ EndBatch \/ Waited \/ HostDies \/ ChangeTarget
             \/ UNCHANGED vars
      PROVE  FALSE
  BY <1>5 DEF RunBatch, BatchCannotScan, EndBatch, Waited, HostDies, ChangeTarget, vars
<1> QED
  BY <1>1, <1>2, <1>3, <1>4, <1>5 DEF Next, Progress

(* The prefilter of a batch lists the notes that are in the vault.         *)
LEMMA IndexGrows ==
    ASSUME [Next]_vars, NEW p \in Papers, p \in index', p \notin index
    PROVE  Published(p)
<1>1. ASSUME NEW q \in Papers, NEW code, Exit(q, code) PROVE FALSE
  BY <1>1 DEF Exit, Retry, EndGroup, EndSolo
<1>2. ASSUME NEW q \in Papers, Scan(q) \/ Die(q) PROVE FALSE
  BY <1>1, <1>2
  DEF Scan, Refuse, Skip, Bootstrap, AskProfile, LoadProfile, QuarantineProfile, SaveProfile,
      AskNote, LoadDraft, QuarantineDraft, SaveDraft, PublishNote, Record, Die, MoveAside,
      Goto, host
<1>3. ASSUME NEW q \in Papers, StartGroup(q) \/ AnswerJob(q) \/ StartSolo(q) PROVE FALSE
  BY <1>3 DEF StartGroup, AnswerJob, AnswerProfile, AnswerNote, AnswerBadly, StartSolo, host
<1>4. ASSUME BatchCannotScan \/ EndBatch \/ Waited \/ HostDies \/ ChangeTarget \/ UNCHANGED vars
      PROVE  FALSE
  BY <1>4 DEF BatchCannotScan, EndBatch, Waited, HostDies, ChangeTarget, vars, host
<1>5. ASSUME RunBatch PROVE Published(p)
  BY <1>5 DEF RunBatch, InVault, IsNoteOf, Published, HasNote, HasTornNote
<1> QED
  BY <1>2, <1>3, <1>4, <1>5 DEF Next, Progress

(* A process that is about to record has published.                        *)
LEMMA RecordingHasNote ==
    ASSUME OwnNames, IInv, CoverInv, [Next]_vars, NEW p \in Papers,
           vault', process'[p].pc = "recording"
    PROVE  HasNote(p)'
<1> USE DEF IInv
<1>1. ASSUME process[p].pc = "recording", vault PROVE HasNote(p)'
  BY <1>1, NoteStays DEF CoverInv, HasNote
<1>2. ASSUME NEW q \in Papers, NEW code, Exit(q, code)
      PROVE  process[p].pc = "recording" /\ UNCHANGED vault
  <2>1. \/ Retry(q)
        \/ process' = [process EXCEPT ![q] = Idle] /\ UNCHANGED vault
    BY <1>2 DEF Exit, EndGroup, EndSolo
  <2>2. CASE Retry(q)
    BY <2>2, ZenonT(30) DEF TypeOK, Processes, Retry
  <2>3. CASE process' = [process EXCEPT ![q] = Idle] /\ UNCHANGED vault
    BY <2>3 DEF TypeOK, Idle
  <2> QED
    BY <2>1, <2>2, <2>3
<1>3. ASSUME NEW q \in Papers, PublishNote(q) PROVE HasNote(p)'
  <2>1. CASE q = p
    <3>1. Written(p) \in Notes /\ Written(p).paper = p /\ Written(p).kind = "whole"
      BY <1>3, <2>1, NoteTypes DEF PublishNote, ProcessInv, Written
    <3> QED
      BY <1>3, <2>1, <3>1, PipelineAssumption
      DEF PublishNote, TypeOK, HasNote, Goto, host
  <2>2. CASE q # p
    BY <1>1, <1>3, <2>2 DEF PublishNote, TypeOK, Goto, host
  <2> QED
    BY <2>1, <2>2
<1>4. ASSUME NEW q \in Papers,
             \/ Refuse(q) \/ Skip(q) \/ AskProfile(q) \/ AskNote(q) \/ Record(q) \/ Die(q)
      PROVE  process[p].pc = "recording" /\ UNCHANGED vault
  BY <1>2, <1>4 DEF Refuse, Skip, AskProfile, AskNote, Record, Die
<1>5. ASSUME NEW q \in Papers,
             \/ Bootstrap(q) \/ LoadProfile(q) \/ QuarantineProfile(q) \/ SaveProfile(q)
             \/ LoadDraft(q) \/ QuarantineDraft(q) \/ SaveDraft(q)
      PROVE  process[p].pc = "recording" /\ UNCHANGED vault
  <2>1. process'[q].pc # "recording"
    BY <1>5
    DEF TypeOK, Processes, Bootstrap, LoadProfile, QuarantineProfile, SaveProfile, LoadDraft,
        QuarantineDraft, SaveDraft, MoveAside, Goto
  <2>2. p # q => process'[p] = process[p]
    BY <1>5
    DEF TypeOK, Bootstrap, LoadProfile, QuarantineProfile, SaveProfile, LoadDraft,
        QuarantineDraft, SaveDraft, MoveAside, Goto
  <2>3. UNCHANGED vault
    BY <1>5
    DEF Bootstrap, LoadProfile, QuarantineProfile, SaveProfile, LoadDraft, QuarantineDraft,
        SaveDraft, MoveAside, Goto, host
  <2> QED
    BY <2>1, <2>2, <2>3
<1>6. ASSUME NEW q \in Papers, StartGroup(q) \/ AnswerJob(q) \/ StartSolo(q)
      PROVE  process[p].pc = "recording" /\ UNCHANGED vault
  BY <1>6, ZenonT(30)
  DEF TypeOK, StartGroup, AnswerJob, AnswerProfile, AnswerNote, AnswerBadly, StartSolo, Idle,
      host
<1>7. ASSUME RunBatch \/ BatchCannotScan \/ EndBatch \/ Waited \/ UNCHANGED vars
      PROVE  process[p].pc = "recording" /\ UNCHANGED vault
  BY <1>7 DEF RunBatch, BatchCannotScan, EndBatch, Waited, vars, host
<1>8. ASSUME HostDies PROVE FALSE
  <2>1. process'[p] = Idle
    BY <1>8 DEF HostDies
  <2> QED
    BY <2>1 DEF Idle
<1>9. ~ChangeTarget
  BY DEF ChangeTarget, PhaseInv, Active
<1> QED
  BY <1>1, <1>3, <1>4, <1>5, <1>6, <1>7, <1>8, <1>9 DEF Next, Progress, Scan

(* In a batch for the vault, what ends well was seen to.                   *)
LEMMA ResultWasSeen ==
    ASSUME OwnNames, IInv, CoverInv, [Next]_vars, NEW p \in Papers,
           vault', phase' = "running", result'[p] \in {"ok", "skip"}
    PROVE  Seen(p)'
<1> USE DEF IInv
<1>1. ASSUME result[p] \in {"ok", "skip"}, phase = "running", vault PROVE Seen(p)'
  BY <1>1, SeenStays DEF CoverInv, PhaseInv
<1>2. ASSUME NEW q \in Papers, NEW code \in {1, 200}, Exit(q, code), UNCHANGED vault
      PROVE  Seen(p)'
  <2>1. CASE phase = "running" /\ Retry(q)
    BY <1>1, <1>2, <2>1 DEF Retry
  <2>2. CASE phase = "running" /\ EndGroup(q, code)
    BY <1>1, <1>2, <2>2 DEF TypeOK, EndGroup, ResultOf
  <2> QED
    BY <1>2, <2>1, <2>2 DEF Exit, EndSolo
<1>3. ASSUME NEW q \in Papers, Skip(q) \/ Record(q) PROVE Seen(p)'
  <2>1. vault /\ phase = "running" /\ (q # p => result[p] = result'[p])
    BY <1>3 DEF TypeOK, Skip, Record, Exit, Retry, EndGroup, EndSolo
  <2>2. CASE q = p /\ Skip(p)
    <3>1. Published(p) /\ p \in ledger'
      BY <2>2, CoveredWasPublished DEF Skip
    <3>2. UNCHANGED note
      BY <2>2 DEF Skip
    <3> QED
      BY <3>1, <3>2 DEF Published, Seen, HasNote, HasTornNote
  <2>3. CASE q = p /\ Record(p)
    BY <2>1, <2>3 DEF CoverInv, Record, Seen, HasNote
  <2>4. CASE q # p
    BY <1>1, <2>1, <2>4
  <2> QED
    BY <1>3, <2>2, <2>3, <2>4
<1>4. ASSUME NEW q \in Papers, Refuse(q) \/ AskProfile(q) \/ AskNote(q) \/ Die(q)
      PROVE  Seen(p)'
  <2>1. UNCHANGED vault
    BY <1>4 DEF Refuse, AskProfile, AskNote, Die, Exit, Retry, EndGroup, EndSolo
  <2> QED
    BY <1>2, <1>4, <2>1 DEF Refuse, AskProfile, AskNote, Die
<1>5. ASSUME NEW q \in Papers,
             \/ Bootstrap(q) \/ LoadProfile(q) \/ QuarantineProfile(q) \/ SaveProfile(q)
             \/ LoadDraft(q) \/ QuarantineDraft(q) \/ SaveDraft(q) \/ PublishNote(q)
      PROVE  Seen(p)'
  BY <1>1, <1>5
  DEF Bootstrap, LoadProfile, QuarantineProfile, SaveProfile, LoadDraft, QuarantineDraft,
      SaveDraft, PublishNote, MoveAside, Goto, host
<1>6. ASSUME NEW q \in Papers, StartGroup(q) \/ AnswerJob(q) \/ StartSolo(q) PROVE Seen(p)'
  BY <1>1, <1>6
  DEF StartGroup, AnswerJob, AnswerProfile, AnswerNote, AnswerBadly, StartSolo, host
<1>7. ASSUME RunBatch PROVE Seen(p)'
  <2>1. Covered(p) /\ phase = "loop"
    BY <1>7 DEF RunBatch
  <2>2. Published(p) /\ p \in ledger \cup InVault
    BY <2>1, CoveredWasPublished DEF Covered
  <2> QED
    BY <2>1, <2>2, SeenStays DEF PhaseInv, Published, Seen
<1>8. ASSUME \/ BatchCannotScan \/ EndBatch \/ Waited \/ HostDies \/ ChangeTarget
             \/ UNCHANGED vars
      PROVE  Seen(p)'
  BY <1>1, <1>8 DEF BatchCannotScan, EndBatch, Waited, HostDies, ChangeTarget, vars, host
<1> QED
  BY <1>3, <1>4, <1>5, <1>6, <1>7, <1>8 DEF Next, Progress, Scan

(* A batch is done when every group of it has ended well.                  *)
LEMMA DoneKept ==
    ASSUME OwnNames, IInv, CoverInv, [Next]_vars, vault', phase' = "done", NEW p \in Papers
    PROVE  Seen(p)'
<1> USE DEF IInv
<1>1. ASSUME phase = "done", vault PROVE Seen(p)'
  BY <1>1, SeenStays DEF CoverInv, PhaseInv
<1>2. ASSUME EndBatch PROVE Seen(p)'
  <2>1. vault /\ phase = "running" /\ result[p] \in {"ok", "skip"}
    BY <1>2 DEF EndBatch
  <2> QED
    BY <2>1, SeenStays DEF CoverInv, PhaseInv
<1>3. ASSUME NEW q \in Papers, NEW code, Exit(q, code) PROVE FALSE
  BY <1>3 DEF Exit, Retry, EndGroup, EndSolo
<1>4. ASSUME NEW q \in Papers, Scan(q) \/ Die(q) PROVE phase = "done" /\ vault
  BY <1>3, <1>4
  DEF Scan, Refuse, Skip, Bootstrap, AskProfile, LoadProfile, QuarantineProfile, SaveProfile,
      AskNote, LoadDraft, QuarantineDraft, SaveDraft, PublishNote, Record, Die, MoveAside,
      Goto, host
<1>5. ASSUME NEW q \in Papers, StartGroup(q) \/ AnswerJob(q) \/ StartSolo(q)
      PROVE  phase = "done" /\ vault
  BY <1>5 DEF StartGroup, AnswerJob, AnswerProfile, AnswerNote, AnswerBadly, StartSolo, host
<1>6. ASSUME \/ RunBatch \/ BatchCannotScan \/ Waited \/ HostDies \/ ChangeTarget
             \/ UNCHANGED vars
      PROVE  phase = "done" /\ vault
  BY <1>6 DEF RunBatch, BatchCannotScan, Waited, HostDies, ChangeTarget, vars, host
<1> QED
  BY <1>1, <1>2, <1>4, <1>5, <1>6 DEF Next, Progress

(* Every step keeps CoverInv.                                              *)
LEMMA CoverKept ==
    ASSUME OwnNames, IInv, CoverInv, [Next]_vars
    PROVE  CoverInv'
<1>1. ledger' \cup index' \subseteq Papers
  BY TypeKept DEF TypeOK
<1>2. \A p \in ledger' : Published(p)'
  BY <1>1, LedgerGrows, PublishedStays DEF CoverInv
<1>3. \A p \in index' : Published(p)'
  BY <1>1, IndexGrows, PublishedStays DEF CoverInv
<1> QED
  BY <1>2, <1>3, RecordingHasNote, ResultWasSeen, DoneKept DEF CoverInv

(* Both invariants hold in every state, if every paper has its own note.   *)
THEOREM CoverInvariance ==
    ASSUME OwnNames
    PROVE  Spec => [](IInv /\ CoverInv)
<1>1. Init => CoverInv
  BY DEF Init, CoverInv, Idle
<1>2. IInv /\ CoverInv /\ [Next]_vars => CoverInv'
  BY CoverKept
<1> QED
  BY InitInvariant, <1>1, <1>2, PipelineInvariance, PTL DEF Spec

(* The ledger never blocks a paper whose note nobody has published: after  *)
(* canary runs, forced runs and runs by hand, and whatever died.           *)
THEOREM LedgerWasPublished ==
    ASSUME OwnNames
    PROVE  Spec => []RecordedWasPublished
<1>1. CoverInv => RecordedWasPublished
  BY DEF CoverInv, RecordedWasPublished, Published
<1> QED
  BY <1>1, CoverInvariance, PTL

(* Exit code 0 of a batch for the vault leaves no group without its note,  *)
(* but for a note that a death has cut and that still counts as one.       *)
THEOREM DoneMeansSeenTo ==
    ASSUME OwnNames
    PROVE  Spec => []DoneMissesOnlyTorn
<1>1. CoverInv => DoneMissesOnlyTorn
  BY DEF CoverInv, DoneMissesOnlyTorn, Seen
<1> QED
  BY <1>1, CoverInvariance, PTL

(***************************************************************************)
(* What the documents promise, when nothing dies                           *)
(***************************************************************************)

(* Every note is one that was written to its end.                          *)
NotesWhole == \A n \in Names : note[n] \in Notes => note[n].kind = "whole"

LEMMA WholeKept ==
    ASSUME MaxFails = 0, IInv, NotesWhole, [Next]_vars
    PROVE  NotesWhole'
<1>1. CASE note' = note
  BY <1>1 DEF NotesWhole
<1>2. CASE note' # note
  BY <1>2, NotesWritten DEF IInv, TypeOK, NotesWhole
<1> QED
  BY <1>1, <1>2

(* Without deaths the documents are right: whatever is in the ledger has   *)
(* its note in full, and so has every paper of a batch for the vault that  *)
(* ends with 0.                                                            *)
THEOREM PromisesWithoutDeaths ==
    ASSUME OwnNames, MaxFails = 0
    PROVE  Spec => [](RecordedHasNote /\ DoneHasNotes)
<1>1. Init => NotesWhole
  BY PipelineRecordAssumption DEF Init, NotesWhole
<1>2. IInv /\ NotesWhole /\ [Next]_vars => NotesWhole'
  BY WholeKept
<1>3. ASSUME NotesWhole, NEW p \in Papers PROVE ~HasTornNote(p)
  BY <1>3, PipelineAssumption DEF NotesWhole, HasTornNote
<1>4. ASSUME IInv, CoverInv, NotesWhole PROVE RecordedHasNote /\ DoneHasNotes
  BY <1>3, <1>4
  DEF IInv, TypeOK, CoverInv, Published, Seen, RecordedHasNote, DoneHasNotes
<1> QED
  BY <1>1, <1>2, <1>4, CoverInvariance, PTL DEF Spec

=============================================================================
