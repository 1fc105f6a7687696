------------------------------ MODULE DedupLedger ------------------------------
(***************************************************************************)
(* The ledger of processed papers and everything that writes it: the dedup *)
(* index of the scanner's workers (dedup_index.py over _hashing.py) and    *)
(* the maintenance commands a user runs beside them, verify_and_clean.py   *)
(* --clean, migrate_combined_hash_to_stable.py --write and backfill_hash.py*)
(* --write.                                                                *)
(*                                                                         *)
(* A paper is a group of PDFs, and its hash the sequence of the digests of *)
(* the files: in the order of the digests (stable), of the paths (legacy), *)
(* or of the note's frontmatter (what the migration takes for legacy).     *)
(*                                                                         *)
(* An operator whose comment begins with "Variant" is a plausible mistake  *)
(* in the operator that follows it; no action uses one.                    *)
(***************************************************************************)
EXTENDS Naturals, Sequences, FiniteSets, SequencesExt

CONSTANTS
    Papers,
    Group,       \* [p -> the paths of its PDFs, as its note lists them]
    InZotero,    \* papers whose PDFs have a parent item, by which a note is known too
    FirstDigest, \* [path -> the digest of the file there]
    MaxChanges,  \* bound: what users do to PDFs, notes and ledger
    MaxFails,    \* bound: processes that die
    MaxRuns,     \* bound: scanner processes
    MaxCommands, \* bound: maintenance commands
    NoNote, Blank, Garbled

Paths == DOMAIN FirstDigest

ASSUME LedgerAssumption ==
    /\ FirstDigest \in [Paths -> Nat \ {0}] /\ Paths \subseteq Nat
    /\ Group \in [Papers -> Seq(Paths)]
    /\ \A p \in Papers : Group[p] # <<>> /\ IsInjective(Group[p])
    /\ \A p, q \in Papers : p # q => ToSet(Group[p]) \cap ToSet(Group[q]) = {}
    /\ InZotero \subseteq Papers
    /\ MaxChanges \in Nat /\ MaxFails \in Nat /\ MaxRuns \in Nat /\ MaxCommands \in Nat

VARIABLES
    digest,   \* [path -> the digest of the file]
    away,     \* paths whose file is elsewhere for the time being
    note,     \* [p -> the frontmatter of its note in the vault]
    ledger,   \* the lines of processed_history.txt
    torn,     \* the hash on a last line that has lost its newline
    backups,  \* the lines of the ledgers that were copied before a rewrite
    named,    \* those of the last ledger copied to the directory of --backup-dir
    worker,   \* the scanner processes
    tool,     \* the maintenance command that runs
    (* what the properties and the bounds are about                        *)
    processed,  \* papers that were covered, left alone by the user since
    recorded,   \* lines that workers have appended
    raced,      \* those appended between the backup and the rewrite
    cut,        \* a command died with the ledger truncated
    overwritten,\* lines of a backup that the next one was written over
    changes, fails, runs, commands

files == <<digest, away, note>>
lines == <<ledger, torn, backups, named>>
ghosts == <<processed, recorded, raced, cut, overwritten>>
counts == <<changes, fails, runs, commands>>
vars == <<files, lines, worker, tool, ghosts, counts>>

NoHash == <<>>

(***************************************************************************)
(* _hashing: the digests of a group, in one order or another               *)
(***************************************************************************)

Contents(p) == [i \in DOMAIN Group[p] |-> digest[Group[p][i]]]

Present(p) == ToSet(Group[p]) \cap away = {}

(* Where the k-th of the numbers of s is, by size; equal ones by place.     *)
Place(s, k) ==
    CHOOSE i \in DOMAIN s :
        Cardinality({j \in DOMAIN s : s[j] < s[i] \/ (s[j] = s[i] /\ j < i)}) = k - 1

Stable(c) == [k \in DOMAIN c |-> c[Place(c, k)]]

Legacy(p, c) == [k \in DOMAIN c |-> c[Place(Group[p], k)]]

(***************************************************************************)
(* DedupIndex                                                              *)
(***************************************************************************)

(* A note that a death has cut short has all of its frontmatter (a record) *)
(* or not, and is UTF-8 or not.                                            *)
Notes == [hash : Seq(Nat), legacy : Seq(Nat), key : BOOLEAN, decodes : BOOLEAN]

ASSUME LedgerRecordAssumption ==
    {NoNote, Blank, Garbled} \cap Notes = {} /\ NoNote \notin {Blank, Garbled}

CutShort(n) == {Blank, Garbled, [n EXCEPT !.decodes = FALSE]}

HasFrontmatter(n) == n \notin {NoNote, Blank, Garbled}
Readable(n) == HasFrontmatter(n) /\ n.decodes

(* _scan_vault: the hashes and the key a note is known by.  It falls at a  *)
(* note that cannot be decoded.                                            *)
HashesOf(n) == IF Readable(n) THEN {n.hash, n.legacy} \ {NoHash} ELSE {}
KeyOf(n) == Readable(n) /\ n.key

ScanFails == \E p \in Papers : note[p] \notin {NoNote, Blank} /\ ~Readable(note[p])

(* lookup with the hashes c gives, in an index that is built now: a note of *)
(* either hash, a note of the same parent item, or a line of the ledger.    *)
Hits(p, c) ==
    \/ \E q \in Papers : HashesOf(note[q]) \cap {Stable(c), Legacy(p, c)} # {}
    \/ p \in InZotero /\ KeyOf(note[p])
    \/ ledger \cap {Stable(c), Legacy(p, c)} # {}

(* append, under the lock: the newline of the last line is repaired first.  *)
Appended(line, h) == ledger \cup {h}

(***************************************************************************)
(* A scanner process per paper                                             *)
(***************************************************************************)

Idle == [pc |-> "idle", contents |-> <<>>, known |-> FALSE]

Written(p, c) ==
    [hash |-> Stable(c), legacy |-> IF Legacy(p, c) # Stable(c) THEN Legacy(p, c) ELSE NoHash,
     key |-> p \in InZotero, decodes |-> TRUE]

(* A command holds a note that it will write back, of PDFs that are gone.    *)
Outdated(p) == tool.plan[p].listed \notin {NoHash, Contents(p)}

(* The index is built and asked once; with --force its answer is ignored.   *)
StartRun(p) ==
    /\ worker[p].pc = "idle" /\ Present(p) /\ ~ScanFails /\ runs < MaxRuns
    /\ runs' = runs + 1
    /\ \E force \in BOOLEAN :
         worker' = [worker EXCEPT ![p] =
            [pc |-> IF Hits(p, Contents(p)) /\ ~force THEN "record" ELSE "write",
             contents |-> Contents(p), known |-> Stable(Contents(p)) \in ledger]]
    /\ UNCHANGED <<files, lines, tool, ghosts, changes, fails, commands>>

PublishNote(p) ==
    /\ worker[p].pc = "write"
    /\ note' = [note EXCEPT ![p] = Written(p, worker[p].contents)]
    /\ worker' = [worker EXCEPT ![p].pc = "record"]
    /\ processed' = IF worker[p].contents = Contents(p) /\ ~Outdated(p)
                    THEN processed \cup {p} ELSE processed
    /\ UNCHANGED <<digest, away, lines, tool, recorded, raced, cut, overwritten, counts>>

(* The copy in memory says whether there is anything to append.            *)
Record(p) ==
    LET h == Stable(worker[p].contents) IN
    /\ worker[p].pc = "record"
    /\ IF worker[p].known
         THEN UNCHANGED <<ledger, torn, recorded, raced>>
         ELSE /\ ledger' = Appended(torn, h)
              /\ torn' = NoHash
              /\ recorded' = recorded \cup {h}
              /\ raced' = IF tool.pc \in {"saved", "truncated"} THEN raced \cup {h}
                          ELSE raced \ {h}
    /\ worker' = [worker EXCEPT ![p] = Idle]
    /\ UNCHANGED <<files, backups, named, tool, processed, cut, overwritten, counts>>

(* A note that was being written is left as it was or cut short.  (One that *)
(* lacks only an end that nobody misses is as good as a published one.)    *)
WorkerDies(p) ==
    /\ worker[p].pc # "idle" /\ fails < MaxFails
    /\ fails' = fails + 1
    /\ \/ UNCHANGED note
       \/ /\ worker[p].pc = "write"
          /\ \E file \in CutShort(Written(p, worker[p].contents)) :
                note' = [note EXCEPT ![p] = file]
    /\ worker' = [worker EXCEPT ![p] = Idle]
    /\ UNCHANGED <<digest, away, lines, tool, ghosts, changes, runs, commands>>

(***************************************************************************)
(* The maintenance commands; a user runs one at a time                     *)
(***************************************************************************)

NoPlan == [was |-> NoNote, stable |-> NoHash, listed |-> NoHash]

Rest == [cmd |-> "none", pc |-> "rest", lines |-> {}, plan |-> [p \in Papers |-> NoPlan],
         todo |-> {}]

StartCommand ==
    /\ tool = Rest /\ commands < MaxCommands
    /\ commands' = commands + 1
    /\ UNCHANGED <<changes, fails, runs>>

(* verify_and_clean.py --clean *)

(* Variant: the hash of the old rule makes no line a valid one.            *)
NotedStable(p) == {Stable(Contents(p))}

(* What the note of a paper vouches for, by the new rule and the old one.   *)
Noted(p) == {Stable(Contents(p)), Legacy(p, Contents(p))}

(* iter_note_files, extract_pdf_paths_from_note                            *)
Verifiable == {p \in Papers : Readable(note[p]) /\ Present(p)}

CleanRead ==
    /\ StartCommand
    /\ tool' = [Rest EXCEPT !.cmd = "clean", !.pc = "read", !.lines = ledger]
    /\ UNCHANGED <<files, lines, worker, ghosts>>

(* Valid lines stay; nothing is done when all of them are valid.           *)
CleanScan ==
    LET noted == UNION {Noted(p) : p \in Verifiable} IN
    /\ tool.cmd = "clean" /\ tool.pc = "read"
    /\ tool' = IF tool.lines \subseteq noted THEN Rest
               ELSE [tool EXCEPT !.pc = "scanned", !.lines = @ \cap noted]
    /\ UNCHANGED <<files, lines, worker, ghosts, counts>>

(* migrate_combined_hash_to_stable.py --write *)

(* The command has hash functions of its own, without the order of paths.   *)
StableAgain(p) == Stable(Contents(p))
Listed(p) == Contents(p)

(* analyze_note: groups of several PDFs that are all there.  Bytes that do *)
(* not decode are left out.                                                *)
Planned(p) ==
    IF ~HasFrontmatter(note[p]) \/ Len(Group[p]) <= 1 \/ ~Present(p) THEN NoPlan
    ELSE [was |-> note[p], stable |-> StableAgain(p), listed |-> Listed(p)]

(* upsert_combined_hash, on the text that was read                         *)
Upserted(plan) == [plan.was EXCEPT !.hash = plan.stable, !.decodes = TRUE]

Changed(plan) == plan # NoPlan /\ plan.was.hash # plan.stable

(* Variant: a note that is stable already gives no alias.                   *)
AliasesOfChanged(plan) ==
    IF Changed(plan) THEN {plan.was.hash, plan.listed, plan.stable} \ {NoHash} ELSE {}

Aliases(plan) ==
    IF plan = NoPlan THEN {} ELSE {plan.was.hash, plan.listed, plan.stable} \ {NoHash}

(* normalize_history_lines: an alias of two notes is the later one's.       *)
Normalised(history, plan) ==
    LET known == UNION {Aliases(plan[p]) : p \in Papers}
        stableOf(h) == {plan[p].stable : p \in {q \in Papers : h \in Aliases(plan[q])}}
    IN  (history \ known)
        \cup {CHOOSE s \in stableOf(h) : TRUE : h \in history \cap known}
        \cup {plan[p].stable : p \in {q \in Papers : plan[q] # NoPlan}}

MigratePlan ==
    /\ StartCommand
    /\ LET plan == [p \in Papers |-> Planned(p)] IN
         tool' = [Rest EXCEPT !.cmd = "migrate", !.pc = "planned", !.plan = plan,
                              !.todo = {p \in Papers : Changed(plan[p])}]
    /\ UNCHANGED <<files, lines, worker, ghosts>>

MigrateHistory ==
    /\ tool.cmd = "migrate" /\ tool.pc = "planned"
    /\ tool' = [tool EXCEPT !.pc = "notes", !.lines = Normalised(ledger, tool.plan)]
    /\ UNCHANGED <<files, lines, worker, ghosts, counts>>

(* The note as it was read, with its new hash; copying one that is gone     *)
(* raises.  (The copies of notes are read by nothing.)                      *)
MigrateNote(p) ==
    /\ tool.cmd = "migrate" /\ tool.pc = "notes" /\ p \in tool.todo
    /\ IF note[p] = NoNote
         THEN tool' = Rest /\ UNCHANGED note
         ELSE /\ note' = [note EXCEPT ![p] = Upserted(tool.plan[p])]
              /\ tool' = [tool EXCEPT !.todo = @ \ {p}]
    /\ UNCHANGED <<digest, away, lines, worker, ghosts, counts>>

(* Both commands read the ledger once more, for the backup, and write it    *)
(* in place from what they know.                                           *)

ReadyToSave ==
    \/ tool.cmd = "clean" /\ tool.pc = "scanned"
    \/ tool.cmd = "migrate" /\ tool.pc = "notes" /\ tool.todo = {}

(* Variant: the backup is what was read at the start.                      *)
LinesRead == tool.lines

LinesToSave == ledger

(* Into a file of its own, or, in a migration with --backup-dir, over the  *)
(* copy that an earlier one has put there.                                 *)
SaveLedger ==
    /\ ReadyToSave
    /\ \/ /\ backups' = backups \cup LinesToSave
          /\ UNCHANGED <<named, overwritten>>
       \/ /\ tool.cmd = "migrate"
          /\ named' = LinesToSave
          /\ overwritten' = overwritten \cup (named \ LinesToSave)
          /\ UNCHANGED backups
    /\ tool' = [tool EXCEPT !.pc = "saved"]
    /\ UNCHANGED <<files, ledger, torn, worker, processed, recorded, raced, cut, counts>>

Truncate ==
    /\ tool.pc = "saved"
    /\ ledger' = {} /\ torn' = NoHash
    /\ tool' = [tool EXCEPT !.pc = "truncated"]
    /\ UNCHANGED <<files, backups, named, worker, ghosts, counts>>

(* The lines are written from the start of the file, over as many of those  *)
(* that were appended in the meantime: every line has the same length.      *)
LeftOver(written) ==
    {rest \in SUBSET ledger :
        Cardinality(rest) = IF Cardinality(ledger) > Cardinality(written)
                            THEN Cardinality(ledger) - Cardinality(written) ELSE 0}

Rewrite ==
    /\ tool.pc = "truncated"
    /\ \E rest \in LeftOver(tool.lines) :
         /\ ledger' = tool.lines \cup rest
         /\ torn' = IF torn \in rest THEN torn ELSE NoHash
    /\ tool' = IF tool.cmd = "clean" THEN Rest ELSE [tool EXCEPT !.pc = "written"]
    /\ UNCHANGED <<files, backups, named, worker, ghosts, counts>>

Report ==
    /\ tool.pc = "written"
    /\ tool' = Rest
    /\ UNCHANGED <<files, lines, worker, ghosts, counts>>

(* backfill_hash.py --write *)

(* already_has_hash, extract_pdf_paths                                     *)
Unstamped(n) == Readable(n) /\ n.hash = NoHash

(* insert_hash_into_frontmatter, on the text that was read                 *)
Stamped(n, h) == [n EXCEPT !.hash = h]

(* A note without hash whose PDFs are there is read, and hashed, ...        *)
BackfillRead(p) ==
    /\ StartCommand
    /\ Unstamped(note[p]) /\ Present(p)
    /\ tool' = [Rest EXCEPT !.cmd = "backfill", !.pc = "notes", !.todo = {p},
                            !.plan[p] = [was |-> note[p], stable |-> Stable(Contents(p)),
                                         listed |-> Contents(p)]]
    /\ UNCHANGED <<files, lines, worker, ghosts>>

(* ... and written with the hash of what is at its paths.                   *)
BackfillWrite(p) ==
    /\ tool.cmd = "backfill" /\ p \in tool.todo
    /\ note' = [note EXCEPT ![p] = Stamped(tool.plan[p].was, tool.plan[p].stable)]
    /\ tool' = Rest
    /\ UNCHANGED <<digest, away, lines, worker, ghosts, counts>>

(* What a command writes to a note                                         *)
Rewritten(p) ==
    IF tool.cmd = "migrate" THEN Upserted(tool.plan[p])
    ELSE Stamped(tool.plan[p].was, tool.plan[p].stable)

(* A command dies anywhere: a note or a copy of the ledger that it was     *)
(* writing is cut short, and a ledger that it has truncated stays so.      *)
ToolDies ==
    /\ tool # Rest /\ fails < MaxFails
    /\ fails' = fails + 1
    /\ tool' = Rest
    /\ cut' = (cut \/ tool.pc = "truncated")
    /\ \/ UNCHANGED note
       \/ /\ tool.pc = "notes"
          /\ \E p \in tool.todo : \E file \in CutShort(Rewritten(p)) :
                note' = [note EXCEPT ![p] = file]
    /\ \/ UNCHANGED <<named, overwritten>>
       \/ /\ tool.cmd = "migrate" /\ ReadyToSave
          /\ named' = {} /\ overwritten' = overwritten \cup named
    /\ UNCHANGED <<digest, away, ledger, torn, backups, worker, processed, recorded, raced,
                   changes, runs, commands>>

(***************************************************************************)
(* The user                                                                *)
(***************************************************************************)

OwnersOf(path) == {p \in Papers : path \in ToSet(Group[p])}

Meddle(touched) ==
    /\ changes < MaxChanges
    /\ changes' = changes + 1
    /\ processed' = processed \ touched
    /\ UNCHANGED <<backups, named, worker, tool, recorded, raced, cut, overwritten, fails,
                   runs, commands>>

MovePdf(path) ==
    /\ Meddle(OwnersOf(path))
    /\ away' = IF path \in away THEN away \ {path} ELSE away \cup {path}
    /\ UNCHANGED <<digest, note, ledger, torn>>

(* No file comes back once another has its place.                          *)
ReplacePdf(path) ==
    /\ Meddle(OwnersOf(path))
    /\ digest' = [digest EXCEPT ![path] = @ + 100]
    /\ UNCHANGED <<away, note, ledger, torn>>

DeleteNote(p) ==
    /\ note[p] # NoNote
    /\ Meddle({p})
    /\ note' = [note EXCEPT ![p] = NoNote]
    /\ UNCHANGED <<digest, away, ledger, torn>>

(* An editor that saves the ledger without the last newline.                *)
EditLedger ==
    /\ Meddle({})
    /\ torn' \in ledger
    /\ UNCHANGED <<files, ledger>>

(***************************************************************************)
(* The specification                                                       *)
(***************************************************************************)

Covered(p) == Hits(p, Contents(p))

(* Notes of the time before the stable hash, or before any hash.            *)
OldNotes(p) ==
    {NoNote} \cup {[hash |-> h, legacy |-> NoHash, key |-> p \in InZotero, decodes |-> TRUE] :
                      h \in {NoHash, Contents(p), Stable(Contents(p))}}

Init ==
    /\ digest = FirstDigest /\ away = {}
    /\ note \in {n \in [Papers -> UNION {OldNotes(p) : p \in Papers}] :
                     \A p \in Papers : n[p] \in OldNotes(p)}
    /\ ledger \in SUBSET UNION {{Contents(p), Legacy(p, Contents(p))} : p \in Papers}
    /\ torn = NoHash /\ backups = {} /\ named = {}
    /\ worker = [p \in Papers |-> Idle]
    /\ tool = Rest
    /\ processed = {p \in Papers : note[p] # NoNote /\ Covered(p)}
    /\ recorded = {} /\ raced = {} /\ cut = FALSE /\ overwritten = {}
    /\ changes = 0 /\ fails = 0 /\ runs = 0 /\ commands = 0

Next ==
    \/ \E p \in Papers :
          \/ StartRun(p) \/ PublishNote(p) \/ Record(p) \/ WorkerDies(p)
          \/ MigrateNote(p) \/ BackfillRead(p) \/ BackfillWrite(p) \/ DeleteNote(p)
    \/ CleanRead \/ CleanScan \/ MigratePlan \/ MigrateHistory
    \/ SaveLedger \/ Truncate \/ Rewrite \/ Report \/ ToolDies
    \/ \E path \in Paths : MovePdf(path) \/ ReplacePdf(path)
    \/ EditLedger

Spec == Init /\ [][Next]_vars

(***************************************************************************)
(* Properties                                                              *)
(***************************************************************************)

(* What a death has left of a note: no frontmatter, or bytes that are not  *)
(* UTF-8.                                                                  *)
TornNote(p) == note[p] # NoNote /\ ~Readable(note[p])

(* A paper that was covered once, and whose note and PDFs the user has left *)
(* alone (before a command read them as well), is not paid for again:       *)
(* an index that is built now finds it by its note or its line, whatever    *)
(* workers and commands do at the same time, but for three deaths.  Notes   *)
(* are written in place (gemini_analyze_pdf.py:1198, migrate:318,           *)
(* backfill_hash.py:171): one that is cut short covers nothing, and no      *)
(* longer vouches for its line either.  And while the ledger is truncated,  *)
(* or once a command has died then, the line may have to come from the      *)
(* backup, if it was not one that a migration has written over.             *)
StaysCovered ==
    \A p \in processed :
        \/ Covered(p)
        \/ TornNote(p)
        \/ /\ cut \/ tool.pc = "truncated"
           /\ (backups \cup named \cup overwritten)
                \cap {Stable(Contents(p)), Legacy(p, Contents(p))} # {}

(* What a worker has recorded leaves the ledger for a backup only: neither a *)
(* hand-edited last line nor a rewrite from an older reading loses it.  The *)
(* exceptions are the append that falls between the backup and the end of a *)
(* rewrite, which does not ask for the lock of append, and the lines of the *)
(* backup that a second migration with the same --backup-dir writes over    *)
(* (migrate_combined_hash_to_stable.py:322): what the first has taken from  *)
(* the ledger, all of it when it died with the ledger truncated, is then in *)
(* neither.                                                                 *)
LinesKept == recorded \subseteq ledger \cup backups \cup named \cup raced \cup overwritten

(* A migration that comes to its end leaves every group it has planned, its *)
(* note and PDFs left alone, with the stable hash in its note (unless a     *)
(* worker has died over it) and in the ledger, and the hashes it went by    *)
(* before in the ledger only as far as workers have recorded them; also     *)
(* when an earlier migration has died half-way.                             *)
MigrationSettles ==
    tool.cmd = "migrate" /\ tool.pc = "written" =>
        \A p \in processed :
            LET plan == tool.plan[p] IN
            plan # NoPlan /\ plan.stable = Stable(Contents(p)) =>
                /\ TornNote(p) \/ note[p].hash = plan.stable
                /\ plan.stable \in ledger
                /\ {plan.was.hash, plan.listed} \cap ledger \subseteq {plan.stable} \cup recorded

================================================================================
