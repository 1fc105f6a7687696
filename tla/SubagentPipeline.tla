--------------------------- MODULE SubagentPipeline ---------------------------
(***************************************************************************)
(* The host protocol of the scanner's sub-agent backend: gemini_analyze_   *)
(* pdf.py with backends/subagent.py, list_pending_subagent_runs.py and the *)
(* batch command zotero_batch_scanner.py.                                  *)
(*                                                                         *)
(* The scanner calls no model.  It leaves a manifest in the run directory  *)
(* of the paper and exits with 200; the parent agent dispatches sub-agents *)
(* that write the outputs the manifests ask for, well or badly or not at   *)
(* all, and runs the command again.  A paper takes a profile, a note draft *)
(* that is asked for with the profile, and a last pass that publishes the  *)
(* note and records the paper in the ledger.                               *)
(*                                                                         *)
(* An operator whose comment begins with "Variant" is a plausible mistake  *)
(* in the operator that follows it; no action uses one.                    *)
(***************************************************************************)
EXTENDS Naturals

CONSTANTS
    Papers,    \* PDF groups; the default run directory is the paper's hash
    Names,     \* file names of notes
    Filename,  \* [p -> the name its draft recommends, or that of its PDF]
    Forced,    \* the batch command has --force
    Attempts,  \* max_retries of the batch command, three in the code
    MaxBad,    \* bound: answers of sub-agents that cannot be used
    MaxFails,  \* bound: scanner processes and hosts that die
    MaxSolo,   \* bound: runs of the single-paper command
    None, Partial, Invalid, Garbled

ASSUME PipelineAssumption ==
    /\ Filename \in [Papers -> Names] /\ Forced \in BOOLEAN
    /\ Attempts \in Nat \ {0} /\ MaxBad \in Nat /\ MaxFails \in Nat /\ MaxSolo \in Nat
    /\ {None, Partial, Invalid, Garbled} \cap Papers = {} /\ Garbled # None

VARIABLES
    (* the run directories, the vault and the ledger                       *)
    exists,   \* the run directories that exist
    boot,     \* [d -> 00-pipeline-bootstrap.json: the paper it names]
    profile,  \* [d -> 01-document-profile.json: the paper it is about]
    draft,    \* [d -> 02-note-draft.json: the paper it is about]
    asked,    \* [d -> the manifests, and which of them is the newer one]
    note,     \* [n -> the note of that name in the vault]
    ledger,   \* processed_history.txt
    (* one scanner process per paper                                       *)
    process,
    (* the batch command and the parent agent                              *)
    phase, vault, index, result, tries, jobs,
    (* what the bounds count                                               *)
    bad, fails, solos

rundirs == <<exists, boot, profile, draft, asked>>
host == <<phase, vault, index, result, tries, jobs>>
counts == <<bad, fails, solos>>
vars == <<rundirs, note, ledger, process, host, counts>>

Stages == {"profiler", "note_generator"}

NothingAsked == [profiler |-> None, note_generator |-> None, last |-> "profiler"]

Idle == [pc |-> "idle", dir |-> None, resume |-> FALSE, force |-> FALSE,
         profile |-> None, draft |-> None]

(***************************************************************************)
(* Is a stage done?  The backend and the helper each have the predicate.   *)
(***************************************************************************)

Output(d, stage) == IF stage = "profiler" THEN profile[d] ELSE draft[d]

(* _is_output_filled of the backend: JSON that parses.                     *)
Filled(d, stage) == Output(d, stage) \notin {None, Partial}

(* Variant: a file that is there counts.                                   *)
WrittenTo(d, stage) == Output(d, stage) # None

(* _is_output_filled of list_pending_subagent_runs.                        *)
Done(d, stage) == Output(d, stage) \notin {None, Partial}

(* discover_pending: of two unfilled manifests, the one written last.  One *)
(* that is no JSON is passed over.                                         *)
Unfilled(d) == {stage \in Stages : asked[d][stage] \in Papers /\ ~Done(d, stage)}

Listed(d) ==
    IF Unfilled(d) = {} THEN None
    ELSE IF asked[d].last \in Unfilled(d) THEN asked[d].last
    ELSE CHOOSE stage \in Unfilled(d) : TRUE

(* It reads every manifest there is, and one that is not UTF-8 is an error *)
(* nobody catches.                                                         *)
HelperFails == \E d \in Papers, stage \in Stages : asked[d][stage] = Garbled

(***************************************************************************)
(* How a scanner process goes on and ends                                  *)
(***************************************************************************)

(* Variant: a manifest that is pending counts as done.                     *)
OkOrFailed(code) == IF code = 1 THEN "failed" ELSE "ok"

ResultOf(code) ==
    CASE code = 0   -> "ok"
      [] code = 200 -> "pending"
      [] code = 1   -> "failed"

TriesLeft(p) == tries[p] < Attempts - 1

Goto(p, label) ==
    /\ process' = [process EXCEPT ![p].pc = label]
    /\ UNCHANGED host

(* The batch gives a failed group another attempt with the command line it *)
(* has built once.                                                         *)
Retry(p) ==
    /\ process' = [process EXCEPT ![p].pc = "started",
                                  ![p].profile = None, ![p].draft = None]
    /\ tries' = [tries EXCEPT ![p] = @ + 1]
    /\ UNCHANGED <<phase, vault, index, result, jobs>>

EndGroup(p, code) ==
    /\ process' = [process EXCEPT ![p] = Idle]
    /\ result' = [result EXCEPT ![p] = ResultOf(code)]
    /\ UNCHANGED <<phase, vault, index, tries, jobs>>

(* The parent dispatches the manifest that a single run has printed.       *)
EndSolo(p, code) ==
    /\ process' = [process EXCEPT ![p] = Idle]
    /\ phase' = IF code = 200 THEN "dispatching" ELSE "loop"
    /\ jobs' = IF code = 200 THEN [jobs EXCEPT ![process[p].dir] = process[p].pc] ELSE jobs
    /\ UNCHANGED <<vault, index, result, tries>>

Exit(p, code) ==
    \/ phase = "running" /\ code = 1 /\ TriesLeft(p) /\ Retry(p)
    \/ phase = "running" /\ ~(code = 1 /\ TriesLeft(p)) /\ EndGroup(p, code)
    \/ phase = "solo" /\ EndSolo(p, code)

(***************************************************************************)
(* gemini_analyze_pdf.main, up to the model calls                          *)
(***************************************************************************)

(* The directory says whose it is, by its bootstrap file or by its name.   *)
Owner(d) == IF boot[d] \in Papers THEN boot[d] ELSE d

Unresumable(d) == d \notin exists \/ boot[d] = Garbled

(* Variant: --resume takes any directory that exists.                      *)
Missing(p) == process[p].resume /\ Unresumable(process[p].dir)

(* The identity guard; a bootstrap file that is not UTF-8 ends the process *)
(* there too.                                                              *)
Refused(p) ==
    process[p].resume /\ (Unresumable(process[p].dir) \/ Owner(process[p].dir) # p)

(* A note as it was written, or what a death left of one: its frontmatter, *)
(* by which it is known, less than that, or bytes that are not UTF-8.      *)
Notes == [paper : Papers, kind : {"whole", "part", "blank", "garbled"},
          profile : Papers, draft : Papers]

IsNoteOf(file, p) == file \in Notes /\ file.paper = p /\ file.kind \in {"whole", "part"}

(* What stands for no file is none of the files and no stage.              *)
ASSUME PipelineRecordAssumption == None \notin Notes \cup Stages

InVault == {p \in Papers : IsNoteOf(note[Filename[p]], p)}

(* The scan of the vault reads every note, and catches no decoding error.  *)
ScanFails == vault /\ \E n \in Names : note[n] \in Notes /\ note[n].kind = "garbled"

(* A process of the batch is handed the index; one alone scans the vault.  *)
Admitted(p) == ~Refused(p) /\ ~(phase = "solo" /\ ScanFails)

Refuse(p) ==
    /\ process[p].pc = "started" /\ ~Admitted(p)
    /\ Exit(p, 1)
    /\ UNCHANGED <<rundirs, note, ledger, counts>>

(* The dedup index: the ledger, and with a target in the vault the notes   *)
(* that are there, as the batch command found them when it started.        *)
Covered(p) ==
    p \in ledger \/ (vault /\ p \in IF phase = "running" THEN index ELSE InVault)

Skip(p) ==
    /\ process[p].pc = "started" /\ Admitted(p)
    /\ Covered(p) /\ ~process[p].force
    /\ ledger' = ledger \cup {p}
    /\ Exit(p, 0)
    /\ UNCHANGED <<rundirs, note, counts>>

Proceeds(p) ==
    process[p].pc = "started" /\ Admitted(p) /\ (~Covered(p) \/ process[p].force)

Bootstrap(p) ==
    /\ Proceeds(p)
    /\ exists' = exists \cup {process[p].dir}
    /\ boot' = [boot EXCEPT ![process[p].dir] = p]
    /\ Goto(p, "profiler")
    /\ UNCHANGED <<profile, draft, asked, note, ledger, counts>>

(***************************************************************************)
(* call_model and what the pipeline does with its payload                  *)
(***************************************************************************)

Loads(p, stage) == process[p].resume /\ Filled(process[p].dir, stage)

(* No output to load: the manifest is written and the process exits 200.   *)
AskProfile(p) ==
    LET d == process[p].dir IN
    /\ process[p].pc = "profiler" /\ ~Loads(p, "profiler")
    /\ asked' = [asked EXCEPT ![d].profiler = p, ![d].last = "profiler"]
    /\ Exit(p, 200)
    /\ UNCHANGED <<exists, boot, profile, draft, note, ledger, counts>>

LoadProfile(p) ==
    LET d == process[p].dir IN
    /\ process[p].pc = "profiler" /\ Loads(p, "profiler") /\ profile[d] \in Papers
    /\ process' = [process EXCEPT ![p].pc = "profiled", ![p].profile = profile[d]]
    /\ UNCHANGED <<rundirs, note, ledger, host, counts>>

(* Variant: the output is left where it is and the error goes out.         *)
LeaveInPlace(p, output) == Exit(p, 1) /\ UNCHANGED output

(* quarantine_invalid_output: moved aside, and the next step asks again.   *)
MoveAside(p, output) ==
    /\ output' = [output EXCEPT ![process[p].dir] = None]
    /\ Goto(p, process[p].pc)

QuarantineProfile(p) ==
    /\ process[p].pc = "profiler" /\ Loads(p, "profiler")
    /\ profile[process[p].dir] = Invalid
    /\ MoveAside(p, profile)
    /\ UNCHANGED <<exists, boot, draft, asked, note, ledger, counts>>

(* The artifact is written again from memory.                              *)
SaveProfile(p) ==
    /\ process[p].pc = "profiled"
    /\ profile' = [profile EXCEPT ![process[p].dir] = process[p].profile]
    /\ Goto(p, "note_generator")
    /\ UNCHANGED <<exists, boot, draft, asked, note, ledger, counts>>

(* The prompt of this manifest carries the profile; a draft is told from    *)
(* another one by its paper only.                                          *)
AskNote(p) ==
    LET d == process[p].dir IN
    /\ process[p].pc = "note_generator" /\ ~Loads(p, "note_generator")
    /\ asked' = [asked EXCEPT ![d].note_generator = p,
                              ![d].last = "note_generator"]
    /\ Exit(p, 200)
    /\ UNCHANGED <<exists, boot, profile, draft, note, ledger, counts>>

LoadDraft(p) ==
    LET d == process[p].dir IN
    /\ process[p].pc = "note_generator" /\ Loads(p, "note_generator") /\ draft[d] \in Papers
    /\ process' = [process EXCEPT ![p].pc = "drafted", ![p].draft = draft[d]]
    /\ UNCHANGED <<rundirs, note, ledger, host, counts>>

QuarantineDraft(p) ==
    /\ process[p].pc = "note_generator" /\ Loads(p, "note_generator")
    /\ draft[process[p].dir] = Invalid
    /\ MoveAside(p, draft)
    /\ UNCHANGED <<exists, boot, profile, asked, note, ledger, counts>>

SaveDraft(p) ==
    /\ process[p].pc = "drafted"
    /\ draft' = [draft EXCEPT ![process[p].dir] = process[p].draft]
    /\ Goto(p, "publishing")
    /\ UNCHANGED <<exists, boot, profile, asked, note, ledger, counts>>

Written(p) == [paper |-> p, kind |-> "whole",
               profile |-> process[p].profile, draft |-> process[p].draft]

(* A note of the paper is written over, and so is whatever else has the    *)
(* name.  A canary note is written elsewhere.                              *)
PublishNote(p) ==
    /\ process[p].pc = "publishing"
    /\ note' = IF vault THEN [note EXCEPT ![Filename[p]] = Written(p)] ELSE note
    /\ Goto(p, "recording")
    /\ UNCHANGED <<rundirs, ledger, counts>>

(* Variant: a canary run is recorded too.                                  *)
AnyTarget(p) == {p}

(* Only a note in the vault makes a paper a processed one.                 *)
ToRecord(p) == IF vault THEN {p} ELSE {}

Record(p) ==
    /\ process[p].pc = "recording"
    /\ ledger' = ledger \cup ToRecord(p)
    /\ Exit(p, 0)
    /\ UNCHANGED <<rundirs, note, counts>>

(***************************************************************************)
(* The process dies, or the host with everything it runs.  No file of the  *)
(* run directory and no note is written atomically, so the file that was   *)
(* being written may be left in part.  An output in part is not filled, and*)
(* a bootstrap file or manifest that is no JSON is as good as none; but the *)
(* readers of these two and of the notes fail at one that was cut inside a *)
(* character, which all of them may hold.                                  *)
(***************************************************************************)

Cut(file, there, values) == \E value \in values : file' = [file EXCEPT ![there] = value]

CutShort(p) == {[Written(p) EXCEPT !.kind = kind] : kind \in {"part", "blank", "garbled"}}

CutWrite(p) ==
    LET d == process[p].dir
        stage == process[p].pc
    IN
    \/ UNCHANGED <<rundirs, note>>
    \/ /\ Proceeds(p)
       /\ exists' = exists \cup {d}
       /\ Cut(boot, d, {None, Garbled})
       /\ UNCHANGED <<profile, draft, asked, note>>
    \/ /\ stage = "profiled"
       /\ Cut(profile, d, {Partial})
       /\ UNCHANGED <<exists, boot, draft, asked, note>>
    \/ /\ stage = "drafted"
       /\ Cut(draft, d, {Partial})
       /\ UNCHANGED <<exists, boot, profile, asked, note>>
    \/ /\ stage \in Stages /\ ~Loads(p, stage)
       /\ \E value \in {None, Garbled} : asked' = [asked EXCEPT ![d][stage] = value]
       /\ UNCHANGED <<exists, boot, profile, draft, note>>
    \/ /\ stage = "publishing" /\ vault
       /\ Cut(note, Filename[p], CutShort(p))
       /\ UNCHANGED rundirs

Die(p) ==
    /\ process[p].pc # "idle" /\ fails < MaxFails
    /\ fails' = fails + 1
    /\ Exit(p, 1)
    /\ CutWrite(p)
    /\ UNCHANGED <<ledger, bad, solos>>

HostDies ==
    /\ phase \in {"running", "solo", "dispatching"} /\ fails < MaxFails
    /\ fails' = fails + 1
    /\ process' = [p \in Papers |-> Idle]
    /\ jobs' = [d \in Papers |-> None]
    /\ result' = [p \in Papers |-> "skip"]
    /\ tries' = [p \in Papers |-> 0]
    /\ phase' = "loop"
    /\ index' = {}
    /\ \E p \in Papers : CutWrite(p)
    /\ UNCHANGED <<ledger, vault, bad, solos>>

(***************************************************************************)
(* The batch command                                                       *)
(***************************************************************************)

(* The prefilter: groups that ledger or vault cover are not processed.     *)
RunBatch ==
    /\ phase = "loop" /\ ~ScanFails
    /\ phase' = "running"
    /\ index' = IF vault THEN InVault ELSE {}
    /\ result' = [p \in Papers |-> IF ~Forced /\ Covered(p) THEN "skip" ELSE "todo"]
    /\ tries' = [p \in Papers |-> 0]
    /\ UNCHANGED <<rundirs, note, ledger, process, vault, jobs, counts>>

(* The command ends with 1 before it has looked at any group.              *)
BatchCannotScan ==
    /\ phase = "loop" /\ ScanFails
    /\ UNCHANGED vars

(* build_analyze_command: --force clears the run directory, and otherwise  *)
(* a run directory that is there is resumed.                               *)
StartGroup(p) ==
    /\ phase = "running" /\ result[p] = "todo" /\ process[p].pc = "idle"
    /\ process' = [process EXCEPT ![p] =
                     [Idle EXCEPT !.pc = "started", !.dir = p, !.force = Forced,
                                  !.resume = ~Forced /\ p \in exists]]
    /\ IF Forced
         THEN /\ exists' = exists \ {p}
              /\ boot' = [boot EXCEPT ![p] = None]
              /\ profile' = [profile EXCEPT ![p] = None]
              /\ draft' = [draft EXCEPT ![p] = None]
              /\ asked' = [asked EXCEPT ![p] = NothingAsked]
         ELSE UNCHANGED rundirs
    /\ UNCHANGED <<note, ledger, host, counts>>

(* The exit code is 1 with a failed group, 200 with a pending one, else 0; *)
(* the summary of a batch with pending groups shows what the helper finds  *)
(* in their run directories, and falls with the helper.                    *)
EndBatch ==
    /\ phase = "running" /\ \A p \in Papers : result[p] # "todo"
    /\ phase' = CASE \A p \in Papers : result[p] \in {"ok", "skip"} -> "done"
                  [] HelperFails \/ \E p \in Papers : result[p] = "failed" -> "loop"
                  [] OTHER -> "dispatching"
    /\ jobs' = IF phase' = "dispatching"
                 THEN [d \in Papers |-> IF result[d] = "pending" THEN Listed(d) ELSE None]
                 ELSE jobs
    /\ UNCHANGED <<rundirs, note, ledger, process, vault, index, result, tries, counts>>

(***************************************************************************)
(* The parent agent and its sub-agents                                     *)
(***************************************************************************)

AnswerProfile(d) ==
    /\ jobs[d] = "profiler"
    /\ profile' = [profile EXCEPT ![d] = asked[d].profiler]
    /\ jobs' = [jobs EXCEPT ![d] = None]
    /\ UNCHANGED <<exists, boot, draft, asked, note, ledger, process, phase, vault, index,
                   result, tries, counts>>

AnswerNote(d) ==
    /\ jobs[d] = "note_generator"
    /\ draft' = [draft EXCEPT ![d] = asked[d].note_generator]
    /\ jobs' = [jobs EXCEPT ![d] = None]
    /\ UNCHANGED <<exists, boot, profile, asked, note, ledger, process, phase, vault, index,
                   result, tries, counts>>

(* Nothing, a file in part, or JSON that the schema does not accept.       *)
AnswerBadly(d) ==
    /\ jobs[d] # None /\ bad < MaxBad
    /\ bad' = bad + 1
    /\ \E value \in {Output(d, jobs[d]), Partial, Invalid} :
         /\ profile' = IF jobs[d] = "profiler" THEN [profile EXCEPT ![d] = value] ELSE profile
         /\ draft' = IF jobs[d] = "note_generator" THEN [draft EXCEPT ![d] = value] ELSE draft
    /\ jobs' = [jobs EXCEPT ![d] = None]
    /\ UNCHANGED <<exists, boot, asked, note, ledger, process, phase, vault, index, result,
                   tries, fails,
                   solos>>

Waited ==
    /\ phase = "dispatching" /\ \A d \in Papers : jobs[d] = None
    /\ phase' = "loop"
    /\ UNCHANGED <<rundirs, note, ledger, process, vault, index, result, tries, jobs, counts>>

(* The command of a manifest, or one the parent has put together.          *)
StartSolo(p) ==
    /\ phase = "loop" /\ solos < MaxSolo
    /\ solos' = solos + 1
    /\ phase' = "solo"
    /\ \E d \in Papers, resume, force \in BOOLEAN :
         /\ resume \/ d = p
         /\ process' = [process EXCEPT ![p] =
                          [Idle EXCEPT !.pc = "started", !.dir = d, !.resume = resume,
                                       !.force = force]]
    /\ UNCHANGED <<rundirs, note, ledger, vault, index, result, tries, jobs, bad, fails>>

(* A batch of another target, once the last is done.                       *)
ChangeTarget ==
    /\ phase = "done"
    /\ phase' = "loop"
    /\ vault' = ~vault
    /\ UNCHANGED <<rundirs, note, ledger, process, index, result, tries, jobs, counts>>

Init ==
    /\ exists = {} /\ ledger = {} /\ boot = [d \in Papers |-> None]
    /\ profile = [d \in Papers |-> None] /\ draft = [d \in Papers |-> None]
    /\ asked = [d \in Papers |-> NothingAsked]
    /\ note = [n \in Names |-> None]
    /\ process = [p \in Papers |-> Idle]
    /\ phase = "loop" /\ vault \in BOOLEAN /\ index = {}
    /\ result = [p \in Papers |-> "skip"] /\ tries = [p \in Papers |-> 0]
    /\ jobs = [d \in Papers |-> None]
    /\ bad = 0 /\ fails = 0 /\ solos = 0

Scan(p) ==
    \/ Refuse(p) \/ Skip(p) \/ Bootstrap(p)
    \/ AskProfile(p) \/ LoadProfile(p) \/ QuarantineProfile(p) \/ SaveProfile(p)
    \/ AskNote(p) \/ LoadDraft(p) \/ QuarantineDraft(p) \/ SaveDraft(p)
    \/ PublishNote(p) \/ Record(p)

AnswerJob(d) == AnswerProfile(d) \/ AnswerNote(d) \/ AnswerBadly(d)

Progress ==
    \/ \E p \in Papers : Scan(p) \/ StartGroup(p) \/ AnswerJob(p)
    \/ RunBatch \/ EndBatch \/ Waited

Next ==
    \/ Progress
    \/ \E p \in Papers : Die(p) \/ StartSolo(p)
    \/ HostDies \/ BatchCannotScan \/ ChangeTarget

Spec == Init /\ [][Next]_vars

(* Processes run, sub-agents end and the parent keeps to its contract; that *)
(* nothing dies and that anyone runs a single paper is not assumed.         *)
FairSpec == Spec /\ WF_vars(Progress)

(***************************************************************************)
(* Properties                                                              *)
(***************************************************************************)

(* A note never mixes papers, whatever directory a run was told to resume:  *)
(* profile and draft were both made of the paper it is filed under (the     *)
(* identity guard of main).                                                 *)
NoteOfItsPaper ==
    \A n \in Names : note[n] \in Notes =>
        note[n].profile = note[n].paper /\ note[n].draft = note[n].paper

(* The note of a paper, and what a death has left of one.                  *)
HasNote(p) == note[Filename[p]] \in Notes /\ note[Filename[p]].paper = p
              /\ note[Filename[p]].kind = "whole"

HasTornNote(p) == note[Filename[p]] \in Notes /\ note[Filename[p]].paper = p
                  /\ note[Filename[p]].kind # "whole"

(* The documented promise: "The note is published atomically. Only then is *)
(* the generation ledger updated." (README.md:313).  A death in the middle *)
(* of the write refutes it: the scanner knows the paper by what is left of *)
(* its frontmatter and records it.                                         *)
RecordedHasNote == \A p \in ledger : HasNote(p)

(* What the code does keep: the ledger never blocks a paper whose note was *)
(* not published, after canary runs, forced runs and runs by hand.  Under  *)
(* the name of a recorded paper is its note, or what a death in the middle *)
(* of publishing that very note left there.                                *)
RecordedWasPublished == \A p \in ledger : HasNote(p) \/ HasTornNote(p)

(* A group that the batch reports as pending has a manifest that the helper *)
(* lists, so the two predicates for a filled output agree and the parent    *)
(* has something to dispatch, unless the helper fails at the manifest of    *)
(* whatever directory (HelperFails).                                        *)
PendingListed ==
    \A p \in Papers : phase = "running" /\ result[p] = "pending" => Listed(p) # None

(* The documented end of a run: "exit 0 + note + ledger" (README.md:334).   *)
DoneHasNotes == phase = "done" /\ vault => \A p \in Papers : HasNote(p)

(* What a batch for the vault that exits with 0 has seen to, deaths         *)
(* included: every group has its note, but for a note that a death cut      *)
(* after its frontmatter, or whose paper the ledger had.  A death that left *)
(* less of a note not yet recorded is made good before the batch is done.   *)
DoneMissesOnlyTorn ==
    phase = "done" /\ vault =>
        \A p \in Papers : \/ HasNote(p)
                          \/ HasTornNote(p) /\ (p \in ledger \cup InVault)

(* A file the scanner cannot decode.                                        *)
Undecodable ==
    \/ HelperFails
    \/ \E d \in Papers : boot[d] = Garbled
    \/ \E n \in Names : note[n] \in Notes /\ note[n].kind = "garbled"

(* A parent that dispatches what is pending and runs the same command again *)
(* comes to exit code 0, after outputs that cannot be used and processes    *)
(* that die as well.  This is what the summary of a batch says ("Repeat     *)
(* until pending count reaches 0", zotero_batch_scanner.py:782).            *)
BatchEnds == phase = "running" ~> phase = "done"

(* It is so of every history in which no undecodable file stays for good;   *)
(* one that the next pass writes again or clears does no harm.              *)
BatchEndsUnlessUndecodable == []<>(~Undecodable) => BatchEnds

=============================================================================
