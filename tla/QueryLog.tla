------------------------------- MODULE QueryLog -------------------------------
(***************************************************************************)
(* The query-log writer of service/query_server.py: Markdown logs below    *)
(* QUERY_LOG_ROOT and the registry file that maps the idempotency key of a *)
(* research session to its log.                                            *)
(*                                                                         *)
(* Flask serves every request on a thread of its own; one lock covers each *)
(* transaction.  The two files of a write_query_log are replaced one after *)
(* the other, so that a failed request or a dead server leaves a log the   *)
(* registry does not know; the client retries with the same key.  The user *)
(* may move, rename and delete logs meanwhile: they lie in his vault.      *)
(*                                                                         *)
(* An operator whose comment begins with "Variant" is a plausible mistake  *)
(* in the operator that follows it; no action uses one.                    *)
(***************************************************************************)
EXTENDS Naturals, FiniteSets

CONSTANTS
    Threads,   \* request threads of the server
    Keys,      \* idempotency keys
    Names,     \* paths the server derives from created_at, workflow, query
               \*   and short_id: distinct keys may derive one path
    Shelf,     \* paths the user moves logs to
    Texts,     \* what a log_id reads
    IdOf,      \* [Names -> the log_id a request with that path carries]
    Actions,   \* follow-up actions to append
    MaxCalls, MaxEdits,  \* bounds: requests made; edits by the user and damage
    None, Garbled

Paths == Names \cup Shelf

(* A log_id is a JSON string or a JSON number.                             *)
Ids == [text : Texts, number : BOOLEAN]

ASSUME QueryLogAssumption ==
    /\ Names \cap Shelf = {} /\ None \notin Names \cup Shelf \cup Threads \cup Keys
    /\ IdOf \in [Names -> Ids]
    /\ MaxCalls \in Nat /\ MaxEdits \in Nat

(* str(): a JSON number becomes the text of its digits.                    *)
AsText(id) == [text |-> id.text, number |-> FALSE]

WriteCalls == [op : {"write"}, key : Keys, path : Names]
AppendCalls == [op : {"append"}, path : Paths, id : Ids, action : Actions]
Calls == WriteCalls \cup AppendCalls

Logs == [key : Keys, id : Ids, actions : SUBSET Actions]
Entries == [path : Paths, id : Ids]
Answers == [kind : {"created", "deduplicated"}, path : Paths, id : Ids]
               \cup [kind : {"appended", "refused", "failed"}]

ASSUME QueryLogRecordAssumption ==
    /\ None \notin Calls \cup Logs \cup Entries \cup Answers
    /\ Garbled \notin [Keys -> Entries \cup {None}]

VARIABLES
    logs,      \* [path -> the frontmatter and the actions of a log, or None]
    registry,  \* _registry.json: [key -> entry or None], or Garbled
    lock,      \* the thread inside _QUERY_LOG_WRITE_LOCK
    pc, call,  \* control point and request of a thread
    known,     \* the registry as the thread has read it
    entry,     \* the entry it is about to save
    draft,     \* the log an append has read
    answer,    \* the answer of a thread
    (* what an observer counts and remembers *)
    calls, edits,
    touched    \* keys whose log the user has moved or deleted

server == <<lock, pc, call, known, entry, draft, answer>>
vars == <<logs, registry, server, calls, edits, touched>>

(* Variant: a registry that does not exist is read as null.                *)
NoRegistry == None

NoEntries == [k \in Keys |-> None]

(***************************************************************************)
(* Reading                                                                 *)
(***************************************************************************)

(* load_query_log_registry accepts string fields only.                     *)
Readable(reg) ==
    reg # Garbled /\ \A k \in Keys : reg[k] # None => ~reg[k].id.number

(* The entry is believed when its file exists; the file is not opened.     *)
Hit(reg, k) == reg[k] # None /\ logs[reg[k].path] # None

(* Variant: the log is looked for by the log_id of the request.            *)
LogsOfById(k, id) == {p \in Paths : logs[p] # None /\ logs[p].id = id}

(* recover_query_log_registry_entry looks at every file below the root.    *)
LogsOf(k, id) == {p \in Paths : logs[p] # None /\ logs[p].key = k}

(***************************************************************************)
(* Requests                                                                *)
(***************************************************************************)

(* Variant: the transaction does not take the lock.                        *)
EnterUnlocked(t) == UNCHANGED lock

Enter(t) == lock = None /\ lock' = t

(* Variant: an error return forgets the lock.                              *)
LeaveHolding(t) == UNCHANGED lock

Leave(t) == lock' = IF lock = t THEN None ELSE lock

Goto(t, label) == pc' = [pc EXCEPT ![t] = label]

Answer(t, a) ==
    /\ Goto(t, "answered")
    /\ answer' = [answer EXCEPT ![t] = a]

Call(t) ==
    /\ pc[t] = "idle" /\ calls < MaxCalls
    /\ \E c \in Calls : call' = [call EXCEPT ![t] = c]
    /\ calls' = calls + 1
    /\ Goto(t, "called")
    /\ UNCHANGED <<logs, registry, lock, known, entry, draft, answer, edits, touched>>

(* The client has read the answer, or has stopped to wait for it.          *)
Deliver(t) ==
    /\ pc[t] = "answered"
    /\ Goto(t, "idle")
    /\ call' = [call EXCEPT ![t] = None]
    /\ answer' = [answer EXCEPT ![t] = None]
    /\ known' = [known EXCEPT ![t] = NoEntries]
    /\ entry' = [entry EXCEPT ![t] = None]
    /\ draft' = [draft EXCEPT ![t] = None]
    /\ UNCHANGED <<logs, registry, lock, calls, edits, touched>>

(***************************************************************************)
(* write_query_log                                                         *)
(***************************************************************************)

(* A hit is answered, an unreadable registry refuses every write, and any  *)
(* other key goes on with the registry read here.                          *)
Lookup(t) ==
    /\ pc[t] = "called" /\ call[t].op = "write"
    /\ Enter(t)
    /\ IF ~Readable(registry)
         THEN Goto(t, "failing") /\ UNCHANGED <<known, entry>>
       ELSE IF Hit(registry, call[t].key)
         THEN /\ Goto(t, "hit")
              /\ entry' = [entry EXCEPT ![t] = registry[call[t].key]]
              /\ UNCHANGED known
         ELSE /\ Goto(t, "scanning")
              /\ known' = [known EXCEPT ![t] = registry]
              /\ UNCHANGED entry
    /\ UNCHANGED <<logs, registry, call, draft, answer, calls, edits, touched>>

AnswerHit(t) ==
    /\ pc[t] = "hit"
    /\ Answer(t, [kind |-> "deduplicated", path |-> entry[t].path, id |-> entry[t].id])
    /\ Leave(t)
    /\ UNCHANGED <<logs, registry, call, known, entry, draft, calls, edits, touched>>

(* One log with the key is recovered, two are refused.                     *)
Scan(t) ==
    /\ pc[t] = "scanning"
    /\ LET found == LogsOf(call[t].key, IdOf[call[t].path]) IN
         \/ /\ found = {}
            /\ Goto(t, "naming") /\ UNCHANGED entry
         \/ \E p \in found :
              /\ found = {p}
              /\ entry' = [entry EXCEPT ![t] = [path |-> p, id |-> AsText(logs[p].id)]]
              /\ Goto(t, "recovering")
         \/ /\ Cardinality(found) > 1
            /\ Goto(t, "failing") /\ UNCHANGED entry
    /\ UNCHANGED <<logs, registry, lock, call, known, draft, answer, calls, edits, touched>>

(* Variant: the filename is taken without a look at the directory.         *)
NameFreeAlways(path) == TRUE

NameFree(path) == logs[path] = None

(* 409: "A different query log already owns this filename".                *)
Name(t) ==
    /\ pc[t] = "naming"
    /\ Goto(t, IF NameFree(call[t].path) THEN "writing" ELSE "refusing")
    /\ UNCHANGED <<logs, registry, lock, call, known, entry, draft, answer, calls, edits,
                   touched>>

WriteLog(t) ==
    /\ pc[t] = "writing"
    /\ LET path == call[t].path IN
         /\ logs' = [logs EXCEPT ![path] =
                [key |-> call[t].key, id |-> IdOf[path], actions |-> {}]]
         /\ entry' = [entry EXCEPT ![t] = [path |-> path, id |-> IdOf[path]]]
    /\ Goto(t, "saving")
    /\ UNCHANGED <<registry, lock, call, known, draft, answer, calls, edits, touched>>

(* Variant: the entry alone is written, without the others.                *)
WithEntryOnly(reg, k, e) == [NoEntries EXCEPT ![k] = e]

WithEntry(reg, k, e) == [reg EXCEPT ![k] = e]

(* The whole registry is replaced by the one read, with the new entry.     *)
SaveRegistry(t) ==
    /\ pc[t] \in {"saving", "recovering"}
    /\ registry' = WithEntry(known[t], call[t].key, entry[t])
    /\ Answer(t, [kind |-> IF pc[t] = "saving" THEN "created" ELSE "deduplicated",
                  path |-> entry[t].path, id |-> entry[t].id])
    /\ Leave(t)
    /\ UNCHANGED <<logs, call, known, entry, draft, calls, edits, touched>>

(***************************************************************************)
(* append_query_log_action                                                 *)
(***************************************************************************)

(* 404 without the file, 400 when it carries another log_id.               *)
ReadLog(t) ==
    /\ pc[t] = "called" /\ call[t].op = "append"
    /\ Enter(t)
    /\ LET log == logs[call[t].path] IN
         IF log # None /\ log.id = call[t].id
           THEN /\ draft' = [draft EXCEPT ![t] = log]
                /\ Goto(t, "appending")
           ELSE Goto(t, "refusing") /\ UNCHANGED draft
    /\ UNCHANGED <<logs, registry, call, known, entry, answer, calls, edits, touched>>

Append(t) ==
    /\ pc[t] = "appending"
    /\ logs' = [logs EXCEPT ![call[t].path] =
           [draft[t] EXCEPT !.actions = @ \cup {call[t].action}]]
    /\ Answer(t, [kind |-> "appended"])
    /\ Leave(t)
    /\ UNCHANGED <<registry, call, known, entry, draft, calls, edits, touched>>

(***************************************************************************)
(* Failures                                                                *)
(***************************************************************************)

InLock == {"hit", "scanning", "naming", "writing", "saving", "recovering", "appending",
           "failing", "refusing"}

(* Error answers: 400, 404 and 409 refuse, and every exception on the way, *)
(* before or after the step it interrupts, is a 500.                       *)
Fail(t) ==
    /\ pc[t] \in InLock
    /\ Answer(t, [kind |-> IF pc[t] = "refusing" THEN "refused" ELSE "failed"])
    /\ Leave(t)
    /\ UNCHANGED <<logs, registry, call, known, entry, draft, calls, edits, touched>>

(* The server dies and is started again.                                   *)
Restart ==
    /\ \E t \in Threads : pc[t] # "idle"
    /\ lock' = None
    /\ pc' = [t \in Threads |-> "idle"]
    /\ call' = [t \in Threads |-> None]
    /\ known' = [t \in Threads |-> NoEntries]
    /\ entry' = [t \in Threads |-> None]
    /\ draft' = [t \in Threads |-> None]
    /\ answer' = [t \in Threads |-> None]
    /\ UNCHANGED <<logs, registry, calls, edits, touched>>

(***************************************************************************)
(* The user                                                                *)
(***************************************************************************)

Move(p, q) ==
    /\ edits < MaxEdits
    /\ logs[p] # None /\ logs[q] = None
    /\ logs' = [logs EXCEPT ![p] = None, ![q] = logs[p]]
    /\ touched' = touched \cup {logs[p].key}
    /\ edits' = edits + 1
    /\ UNCHANGED <<registry, server, calls>>

Delete(p) ==
    /\ edits < MaxEdits
    /\ logs[p] # None
    /\ logs' = [logs EXCEPT ![p] = None]
    /\ touched' = touched \cup {logs[p].key}
    /\ edits' = edits + 1
    /\ UNCHANGED <<registry, server, calls>>

(* The registry file is deleted or damaged.                                *)
LoseRegistry ==
    /\ edits < MaxEdits
    /\ registry' \in {NoEntries, Garbled}
    /\ edits' = edits + 1
    /\ UNCHANGED <<logs, server, calls, touched>>

(***************************************************************************)
(* The specification                                                       *)
(***************************************************************************)

Init ==
    /\ logs = [p \in Paths |-> None]
    /\ registry = NoEntries
    /\ lock = None
    /\ pc = [t \in Threads |-> "idle"]
    /\ call = [t \in Threads |-> None]
    /\ known = [t \in Threads |-> NoEntries]
    /\ entry = [t \in Threads |-> None]
    /\ draft = [t \in Threads |-> None]
    /\ answer = [t \in Threads |-> None]
    /\ calls = 0 /\ edits = 0 /\ touched = {}

Serve(t) ==
    \/ Lookup(t) \/ AnswerHit(t) \/ Scan(t) \/ Name(t) \/ WriteLog(t)
    \/ SaveRegistry(t) \/ ReadLog(t) \/ Append(t) \/ Fail(t)

User ==
    \/ \E p \in Paths : Delete(p) \/ \E q \in Shelf : Move(p, q)
    \/ LoseRegistry

Next ==
    \/ \E t \in Threads : Call(t) \/ Serve(t) \/ Deliver(t)
    \/ Restart
    \/ User

Spec == Init /\ [][Next]_vars

(* A thread that can go on does, and never waits for the network.          *)
FairSpec == Spec /\ \A t \in Threads : WF_vars(Serve(t))

(***************************************************************************)
(* Properties                                                              *)
(***************************************************************************)

(* Every variable stays in its domain.                                     *)
TypeOK ==
    /\ logs \in [Paths -> Logs \cup {None}]
    /\ registry \in [Keys -> Entries \cup {None}] \cup {Garbled}
    /\ lock \in Threads \cup {None}
    /\ pc \in [Threads -> {"idle", "called", "answered"} \cup InLock]
    /\ call \in [Threads -> Calls \cup {None}]
    /\ known \in [Threads -> [Keys -> Entries \cup {None}]]
    /\ entry \in [Threads -> Entries \cup {None}]
    /\ draft \in [Threads -> Logs \cup {None}]
    /\ answer \in [Threads -> Answers \cup {None}]
    /\ calls \in 0 .. MaxCalls /\ edits \in 0 .. MaxEdits
    /\ touched \subseteq Keys

(* skills/search-literature/SKILL.md:506: the idempotency key keeps a      *)
(* retry from making a second log.  A log is created only when no log of   *)
(* that key exists, wherever the user has moved it, whether or not the     *)
(* registry knows it.                                                      *)
OneLogPerKey ==
    [][\A t \in Threads : pc[t] = "writing" /\ pc'[t] = "saving" =>
         \A p \in Paths : logs[p] # None => logs[p].key # call[t].key]_vars

(* No request overwrites the log of another session or loses an action     *)
(* that was appended, by whatever requests run at the same time, as long   *)
(* as the user leaves that log alone.                                      *)
NothingLost ==
    [][\A p \in Paths :
         logs[p] # None /\ logs'[p] # None /\ logs[p].key \notin touched =>
         /\ logs'[p].key = logs[p].key
         /\ logs[p].actions \subseteq logs'[p].actions]_vars

(* A save of the registry keeps every entry that is in it, unless the file *)
(* was lost or damaged while the request ran.                              *)
RegistryGrows ==
    [][registry # Garbled /\ edits' = edits =>
         /\ registry' # Garbled
         /\ \A k \in Keys : registry[k] # None => registry'[k] # None]_vars

(* An answer to write_query_log names the log of that session, as long as  *)
(* the user leaves that log alone.                                         *)
AnswerTrue ==
    \A t \in Threads :
        /\ answer[t] # None /\ answer[t].kind \in {"created", "deduplicated"}
        /\ call[t].key \notin touched
        => LET log == logs[answer[t].path] IN
             log # None /\ log.key = call[t].key /\ AsText(log.id) = AsText(answer[t].id)

(* Every request is answered: no failure keeps the lock.                   *)
AllAnswered == \A t \in Threads : pc[t] = "called" ~> pc[t] \in {"answered", "idle"}

=============================================================================
