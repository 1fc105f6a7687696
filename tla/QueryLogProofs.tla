--------------------------- MODULE QueryLogProofs ---------------------------
(***************************************************************************)
(* What QueryLog keeps, proved for any number of threads, sessions, paths  *)
(* and requests, and for any edits of the user.  The argument: a thread    *)
(* between entering and leaving the lock is alone among the threads, so    *)
(* what it has read of the two files can only be changed by the user, who  *)
(* never makes a log, and never moves one to a path the server derives.    *)
(***************************************************************************)
EXTENDS QueryLog, TLAPS

(* A thread is in its transaction exactly when it holds the lock.          *)
LockInv == \A t \in Threads : pc[t] \in InLock <=> lock = t

(* A thread works on a request of the kind its control point belongs to.   *)
CallInv ==
    \A t \in Threads :
        /\ pc[t] # "idle" => call[t] \in Calls
        /\ pc[t] \in InLock \ {"appending", "refusing"} => call[t] \in WriteCalls
        /\ pc[t] = "appending" => call[t] \in AppendCalls

(* A log about to be written is the first of its session, on a free path.  *)
FreshInv ==
    \A t \in Threads :
        /\ pc[t] \in {"naming", "writing"} =>
             \A p \in Paths : logs[p] # None => logs[p].key # call[t].key
        /\ pc[t] = "writing" => logs[call[t].path] = None

(* The log an entry names, as long as the user leaves it alone.            *)
Faithful(k, e) ==
    k \notin touched =>
        /\ logs[e.path] # None /\ logs[e.path].key = k
        /\ AsText(logs[e.path].id) = AsText(e.id)

(* Every entry, saved, read or about to be saved, names the session's log. *)
EntryInv ==
    /\ registry # Garbled =>
         \A k \in Keys : registry[k] # None => Faithful(k, registry[k])
    /\ \A t \in Threads, k \in Keys : known[t][k] # None => Faithful(k, known[t][k])
    /\ \A t \in Threads : pc[t] \in {"hit", "saving", "recovering"} =>
         entry[t] \in Entries /\ Faithful(call[t].key, entry[t])
    /\ \A t \in Threads :
         answer[t] # None /\ answer[t].kind \in {"created", "deduplicated"} =>
            pc[t] = "answered" /\ Faithful(call[t].key, answer[t])

(* The log an append rewrites is still the one it has read.                *)
DraftInv ==
    \A t \in Threads : pc[t] = "appending" =>
        /\ draft[t] \in Logs
        /\ LET log == logs[call[t].path] IN
             log # None /\ log.key \notin touched => log = draft[t]

(* The registry has not grown since a writer read it.                      *)
KnownInv ==
    \A t \in Threads :
        pc[t] \in {"scanning", "naming", "writing", "saving", "recovering"} =>
            registry \in {known[t], NoEntries, Garbled}

IInv ==
    /\ TypeOK /\ LockInv /\ CallInv /\ FreshInv /\ EntryInv /\ DraftInv /\ KnownInv

USE DEF Goto, Paths, InLock

(* A record of one kind of request is no record of the other kind.         *)
LEMMA CallKinds ==
    /\ \A c \in WriteCalls : c.op = "write" /\ c.key \in Keys /\ c.path \in Names
    /\ \A c \in AppendCalls : c.op = "append" /\ c.path \in Paths
    /\ \A c \in Calls : c.op = "write" => c \in WriteCalls
    /\ \A c \in Calls : c.op = "append" => c \in AppendCalls
    /\ None \notin Calls
BY QueryLogRecordAssumption DEF WriteCalls, AppendCalls, Calls

(* The initial state satisfies the invariant.                              *)
LEMMA InitInvariant == Init => IInv
<1> SUFFICES ASSUME Init PROVE IInv
  OBVIOUS
<1> USE DEF Init
<1>1. TypeOK
  BY QueryLogAssumption DEF TypeOK, NoEntries
<1>2. LockInv /\ CallInv /\ FreshInv /\ DraftInv /\ KnownInv
  BY QueryLogAssumption DEF LockInv, CallInv, FreshInv, DraftInv, KnownInv
<1>3. EntryInv
  BY DEF EntryInv, NoEntries
<1> QED
  BY <1>1, <1>2, <1>3 DEF IInv

(* A new request finds the files as they are.                              *)
LEMMA CallKeeps ==
    ASSUME IInv, NEW t \in Threads, Call(t)
    PROVE  IInv'
<1>1. TypeOK'
  BY QueryLogAssumption DEF IInv, TypeOK, Call
<1>2. LockInv'
  BY DEF IInv, LockInv, Call
<1>3. CallInv'
  BY DEF IInv, TypeOK, CallInv, Call
<1>4. FreshInv'
  BY DEF IInv, FreshInv, Call
<1>5. EntryInv'
  BY DEF IInv, EntryInv, Faithful, Call
<1>6. DraftInv'
  BY DEF IInv, DraftInv, Call
<1>7. KnownInv'
  BY DEF IInv, KnownInv, Call
<1> QED
  BY <1>1, <1>2, <1>3, <1>4, <1>5, <1>6, <1>7 DEF IInv

(* A thread that is done forgets what it has read.                         *)
LEMMA DeliverKeeps ==
    ASSUME IInv, NEW t \in Threads, Deliver(t)
    PROVE  IInv'
<1>1. TypeOK'
  BY DEF IInv, TypeOK, NoEntries, Deliver
<1>2. LockInv'
  BY DEF IInv, LockInv, Deliver
<1>3. CallInv'
  BY DEF IInv, TypeOK, CallInv, Deliver
<1>4. FreshInv'
  BY DEF IInv, FreshInv, Deliver
<1>5. EntryInv'
  BY DEF IInv, TypeOK, EntryInv, Faithful, Deliver, NoEntries
<1>6. DraftInv'
  BY DEF IInv, DraftInv, Deliver
<1>7. KnownInv'
  BY DEF IInv, KnownInv, Deliver
<1> QED
  BY <1>1, <1>2, <1>3, <1>4, <1>5, <1>6, <1>7 DEF IInv

(* A reader of the registry takes the entries it may believe.              *)
LEMMA LookupKeeps ==
    ASSUME IInv, NEW t \in Threads, Lookup(t)
    PROVE  IInv'
<1>a. /\ UNCHANGED <<logs, registry, call, draft, answer, calls, edits, touched>>
      /\ lock' = t /\ pc[t] = "called" /\ call[t] \in WriteCalls /\ call[t].key \in Keys
  BY CallKinds DEF IInv, CallInv, Lookup, Enter
<1>b. \/ pc' = [pc EXCEPT ![t] = "failing"] /\ UNCHANGED <<known, entry>>
      \/ /\ pc' = [pc EXCEPT ![t] = "hit"] /\ UNCHANGED known
         /\ registry # Garbled /\ registry[call[t].key] # None
         /\ entry' = [entry EXCEPT ![t] = registry[call[t].key]]
      \/ /\ pc' = [pc EXCEPT ![t] = "scanning"] /\ UNCHANGED entry
         /\ registry # Garbled /\ known' = [known EXCEPT ![t] = registry]
  BY DEF Lookup, Hit, Readable
<1>1. TypeOK'
  <2>1. pc' \in [Threads -> {"idle", "called", "answered"} \cup InLock]
    BY <1>b DEF IInv, TypeOK
  <2>2. /\ known' \in [Threads -> [Keys -> Entries \cup {None}]]
        /\ entry' \in [Threads -> Entries \cup {None}]
    BY <1>a, <1>b, ZenonT(30) DEF IInv, TypeOK
  <2> QED
    BY <1>a, <2>1, <2>2 DEF IInv, TypeOK
<1>2. LockInv'
  BY QueryLogAssumption DEF IInv, TypeOK, LockInv, Lookup, Enter
<1>3. CallInv'
  BY CallKinds DEF IInv, TypeOK, CallInv, Lookup
<1>4. FreshInv'
  BY DEF IInv, TypeOK, FreshInv, Lookup
<1>5. EntryInv'
  <2>1. \A s \in Threads, k \in Keys : known'[s][k] # None =>
           \/ known'[s][k] = known[s][k]
           \/ registry # Garbled /\ known'[s][k] = registry[k]
    BY <1>b DEF IInv, TypeOK
  <2>2. \A s \in Threads : pc'[s] \in {"hit", "saving", "recovering"} =>
           \/ pc'[s] = pc[s] /\ entry'[s] = entry[s]
           \/ /\ s = t /\ registry # Garbled /\ registry[call[s].key] # None
              /\ entry'[s] = registry[call[s].key]
    BY <1>b DEF IInv, TypeOK
  <2>3. \A s \in Threads : pc'[s] # pc[s] => pc[s] = "called"
    BY <1>a, <1>b DEF IInv, TypeOK
  <2>4. \A s \in Threads : pc'[s] \in {"hit", "saving", "recovering"} =>
           entry'[s] \in Entries /\ Faithful(call[s].key, entry'[s])
    BY <1>a, <2>2 DEF IInv, TypeOK, EntryInv
  <2>5. \A k, e : Faithful(k, e) <=> Faithful(k, e)'
    BY <1>a DEF Faithful
  <2> QED
    BY <1>a, <2>1, <2>3, <2>4, <2>5 DEF IInv, EntryInv
<1>6. DraftInv'
  BY DEF IInv, TypeOK, DraftInv, Lookup
<1>7. KnownInv'
  BY DEF IInv, TypeOK, KnownInv, Lookup
<1> QED
  BY <1>1, <1>2, <1>3, <1>4, <1>5, <1>6, <1>7 DEF IInv

(* A hit is answered with the entry read.                                  *)
LEMMA AnswerHitKeeps ==
    ASSUME IInv, NEW t \in Threads, AnswerHit(t)
    PROVE  IInv'
<1>1. TypeOK'
  BY DEF IInv, TypeOK, Answers, Entries, EntryInv, AnswerHit, Answer, Leave
<1>2. LockInv'
  BY QueryLogAssumption DEF IInv, TypeOK, LockInv, AnswerHit, Answer, Leave
<1>3. CallInv'
  BY DEF IInv, CallInv, AnswerHit, Answer
<1>4. FreshInv'
  BY DEF IInv, FreshInv, AnswerHit, Answer
<1>5. EntryInv'
  BY DEF IInv, TypeOK, EntryInv, Faithful, AnswerHit, Answer
<1>6. DraftInv'
  BY DEF IInv, DraftInv, AnswerHit, Answer
<1>7. KnownInv'
  BY DEF IInv, KnownInv, AnswerHit, Answer
<1> QED
  BY <1>1, <1>2, <1>3, <1>4, <1>5, <1>6, <1>7 DEF IInv

(* A scan that finds no log leaves the session without one.                *)
LEMMA ScanKeeps ==
    ASSUME IInv, NEW t \in Threads, Scan(t)
    PROVE  IInv'
<1>a. /\ UNCHANGED <<logs, registry, lock, call, known, draft, answer, calls, edits, touched>>
      /\ pc[t] = "scanning" /\ call[t] \in WriteCalls /\ call[t].key \in Keys
  BY CallKinds DEF IInv, CallInv, Scan
<1>b. \/ pc' = [pc EXCEPT ![t] = "failing"] /\ UNCHANGED entry
      \/ /\ pc' = [pc EXCEPT ![t] = "naming"] /\ UNCHANGED entry
         /\ \A p \in Paths : logs[p] # None => logs[p].key # call[t].key
      \/ /\ pc' = [pc EXCEPT ![t] = "recovering"]
         /\ \E p \in Paths :
              /\ logs[p] # None /\ logs[p].key = call[t].key
              /\ entry' = [entry EXCEPT ![t] = [path |-> p, id |-> AsText(logs[p].id)]]
  BY DEF Scan, LogsOf
<1>c. \A p \in Paths : logs[p] # None => [path |-> p, id |-> AsText(logs[p].id)] \in Entries
  BY DEF IInv, TypeOK, Entries, Logs, Ids, AsText
<1>1. TypeOK'
  <2>1. pc' \in [Threads -> {"idle", "called", "answered"} \cup InLock]
    BY <1>b DEF IInv, TypeOK
  <2>2. entry' \in [Threads -> Entries \cup {None}]
    BY <1>b, <1>c DEF IInv, TypeOK
  <2> QED
    BY <1>a, <2>1, <2>2 DEF IInv, TypeOK
<1>2. LockInv'
  BY DEF IInv, TypeOK, LockInv, Scan, LogsOf
<1>3. CallInv'
  BY DEF IInv, TypeOK, CallInv, Scan, LogsOf
<1>4. FreshInv'
  BY DEF IInv, TypeOK, FreshInv, Scan, LogsOf
<1>5. EntryInv'
  <2>1. \A k, e : Faithful(k, e) <=> Faithful(k, e)'
    BY <1>a DEF Faithful
  <2>2. \A p \in Paths : logs[p] # None /\ logs[p].key = call[t].key =>
           Faithful(call[t].key, [path |-> p, id |-> AsText(logs[p].id)])
    BY DEF Faithful, AsText
  <2>3. \A s \in Threads : pc'[s] \in {"hit", "saving", "recovering"} =>
           entry'[s] \in Entries /\ Faithful(call[s].key, entry'[s])
    <3>1. ASSUME NEW s \in Threads, s # t, pc'[s] \in {"hit", "saving", "recovering"}
          PROVE  entry'[s] = entry[s] /\ pc'[s] = pc[s]
      BY <1>b, <3>1 DEF IInv, TypeOK
    <3>2. ASSUME pc'[t] \in {"hit", "saving", "recovering"}
          PROVE  entry'[t] \in Entries /\ Faithful(call[t].key, entry'[t])
      BY <1>b, <1>c, <2>2, <3>2 DEF IInv, TypeOK
    <3> QED
      BY <3>1, <3>2 DEF IInv, EntryInv
  <2>4. \A s \in Threads : pc'[s] # pc[s] => pc[s] = "scanning"
    BY <1>a, <1>b DEF IInv, TypeOK
  <2> QED
    BY <1>a, <2>1, <2>3, <2>4 DEF IInv, EntryInv
<1>6. DraftInv'
  BY DEF IInv, TypeOK, DraftInv, Scan, LogsOf
<1>7. KnownInv'
  BY DEF IInv, TypeOK, KnownInv, Scan, LogsOf
<1> QED
  BY <1>1, <1>2, <1>3, <1>4, <1>5, <1>6, <1>7 DEF IInv

(* A free filename is free until the log is written.                       *)
LEMMA NameKeeps ==
    ASSUME IInv, NEW t \in Threads, Name(t)
    PROVE  IInv'
<1>1. TypeOK'
  BY DEF IInv, TypeOK, Name, NameFree
<1>2. LockInv'
  BY DEF IInv, LockInv, Name, NameFree
<1>3. CallInv'
  BY DEF IInv, CallInv, Name, NameFree
<1>4. FreshInv'
  BY DEF IInv, FreshInv, Name, NameFree
<1>5. EntryInv'
  BY DEF IInv, EntryInv, Faithful, Name, NameFree
<1>6. DraftInv'
  BY DEF IInv, DraftInv, Name, NameFree
<1>7. KnownInv'
  BY DEF IInv, KnownInv, Name, NameFree
<1> QED
  BY <1>1, <1>2, <1>3, <1>4, <1>5, <1>6, <1>7 DEF IInv

(* The new log takes a path that no other entry names.                     *)
LEMMA WriteLogKeeps ==
    ASSUME IInv, NEW t \in Threads, WriteLog(t)
    PROVE  IInv'
<1>1. TypeOK'
  BY CallKinds, QueryLogAssumption DEF IInv, TypeOK, Entries, Logs, CallInv, WriteLog
<1>2. LockInv'
  BY DEF IInv, LockInv, WriteLog
<1>3. CallInv'
  BY DEF IInv, CallInv, WriteLog
<1>4. FreshInv'
  BY DEF IInv, TypeOK, LockInv, FreshInv, WriteLog
<1> DEFINE path == call[t].path
           log == [key |-> call[t].key, id |-> IdOf[path], actions |-> {}]
           saved == [path |-> path, id |-> IdOf[path]]
<1>5. EntryInv'
  <2>1. /\ path \in Names /\ logs[path] = None
        /\ logs' = [logs EXCEPT ![path] = log]
        /\ entry' = [entry EXCEPT ![t] = saved]
    BY CallKinds DEF IInv, CallInv, FreshInv, WriteLog
  <2>2. log \in Logs /\ saved \in Entries
    BY <2>1, CallKinds, QueryLogAssumption DEF IInv, CallInv, WriteLog, Logs, Entries
  <2>3. ASSUME NEW k, NEW e, e.path \in Paths, Faithful(k, e)
        PROVE  Faithful(k, e)'
    BY <2>1, <2>3 DEF IInv, Faithful, WriteLog
  <2>4. entry'[t] = saved /\ logs'[path] = log
    BY <2>1 DEF IInv, TypeOK
  <2>5. entry'[t] \in Entries /\ Faithful(call[t].key, entry[t])'
    <3>1. log # None /\ log.key = call[t].key /\ AsText(log.id) = AsText(saved.id)
      BY <2>2, QueryLogRecordAssumption
    <3>2. saved.path = path /\ UNCHANGED call
      BY DEF WriteLog
    <3> QED
      BY <2>2, <2>4, <3>1, <3>2 DEF Faithful
  <2>6. \A k \in Keys : registry # Garbled /\ registry[k] # None => registry[k].path \in Paths
    BY DEF IInv, TypeOK, Entries
  <2>7. \A s \in Threads, k \in Keys : known[s][k] # None => known[s][k].path \in Paths
    BY DEF IInv, TypeOK, Entries
  <2>8. \A s \in Threads :
           answer[s] # None /\ answer[s].kind \in {"created", "deduplicated"}
             => answer[s].path \in Paths
    BY DEF IInv, TypeOK, Answers
  <2>9. \A s \in Threads \ {t} :
           pc'[s] \notin {"hit", "saving", "recovering"} /\ pc'[s] = pc[s]
    BY DEF IInv, LockInv, WriteLog
  <2> QED
    BY <2>3, <2>5, <2>6, <2>7, <2>8, <2>9 DEF IInv, EntryInv, WriteLog
<1>6. DraftInv'
  BY DEF IInv, LockInv, DraftInv, WriteLog
<1>7. KnownInv'
  BY DEF IInv, KnownInv, WriteLog
<1> QED
  BY <1>1, <1>2, <1>3, <1>4, <1>5, <1>6, <1>7 DEF IInv

(* The entries saved are those read and the new one.                       *)
LEMMA SaveRegistryKeeps ==
    ASSUME IInv, NEW t \in Threads, SaveRegistry(t)
    PROVE  IInv'
<1>1. TypeOK'
  BY DEF IInv, TypeOK, Answers, Entries, EntryInv, SaveRegistry, Answer, Leave,
     WithEntry
<1>2. LockInv'
  BY QueryLogAssumption DEF IInv, TypeOK, LockInv, SaveRegistry, Answer, Leave,
     WithEntry
<1>3. CallInv'
  BY DEF IInv, CallInv, SaveRegistry, Answer, WithEntry
<1>4. FreshInv'
  BY DEF IInv, FreshInv, SaveRegistry, Answer, WithEntry
<1>5. EntryInv'
  BY DEF IInv, TypeOK, EntryInv, Faithful, SaveRegistry, Answer, WithEntry
<1>6. DraftInv'
  BY DEF IInv, DraftInv, SaveRegistry, Answer, WithEntry
<1>7. KnownInv'
  BY DEF IInv, TypeOK, LockInv, KnownInv, SaveRegistry, Answer, WithEntry
<1> QED
  BY <1>1, <1>2, <1>3, <1>4, <1>5, <1>6, <1>7 DEF IInv

(* An append reads the log it is going to rewrite.                         *)
LEMMA ReadLogKeeps ==
    ASSUME IInv, NEW t \in Threads, ReadLog(t)
    PROVE  IInv'
<1>a. /\ UNCHANGED <<logs, registry, call, known, entry, answer, calls, edits, touched>>
      /\ lock' = t /\ pc[t] = "called" /\ call[t] \in AppendCalls /\ call[t].path \in Paths
  BY CallKinds DEF IInv, CallInv, ReadLog, Enter
<1>b. \/ pc' = [pc EXCEPT ![t] = "refusing"] /\ UNCHANGED draft
      \/ /\ pc' = [pc EXCEPT ![t] = "appending"]
         /\ draft' = [draft EXCEPT ![t] = logs[call[t].path]]
  BY DEF ReadLog
<1>1. TypeOK'
  <2>1. pc' \in [Threads -> {"idle", "called", "answered"} \cup InLock]
    BY <1>b DEF IInv, TypeOK
  <2>2. draft' \in [Threads -> Logs \cup {None}]
    BY <1>a, <1>b DEF IInv, TypeOK
  <2> QED
    BY <1>a, <2>1, <2>2 DEF IInv, TypeOK
<1>2. LockInv'
  BY QueryLogAssumption DEF IInv, TypeOK, LockInv, ReadLog, Enter
<1>3. CallInv'
  BY CallKinds DEF IInv, TypeOK, CallInv, ReadLog
<1>4. FreshInv'
  BY DEF IInv, TypeOK, FreshInv, ReadLog
<1>5. EntryInv'
  BY DEF IInv, TypeOK, EntryInv, Faithful, ReadLog
<1>6. DraftInv'
  BY CallKinds DEF IInv, TypeOK, CallInv, DraftInv, ReadLog
<1>7. KnownInv'
  BY DEF IInv, TypeOK, KnownInv, ReadLog
<1> QED
  BY <1>1, <1>2, <1>3, <1>4, <1>5, <1>6, <1>7 DEF IInv

(* An append rewrites the log it has read.                                 *)
LEMMA AppendKeeps ==
    ASSUME IInv, NEW t \in Threads, Append(t)
    PROVE  IInv'
<1> DEFINE path == call[t].path
           log == [draft[t] EXCEPT !.actions = @ \cup {call[t].action}]
<1>a. path \in Paths /\ log \in Logs /\ log # None /\ log.key = draft[t].key
      /\ log.id = draft[t].id /\ logs' = [logs EXCEPT ![path] = log]
  <2>1. draft[t] \in Logs /\ call[t] \in AppendCalls
    BY DEF IInv, CallInv, DraftInv, Append
  <2> QED
    BY <2>1, QueryLogRecordAssumption DEF Logs, AppendCalls, Append
<1>b. [kind |-> "appended"] \in Answers
  BY DEF Answers
<1>1. TypeOK'
  BY <1>a, <1>b DEF IInv, TypeOK, Append, Answer, Leave
<1>2. LockInv'
  BY QueryLogAssumption DEF IInv, TypeOK, LockInv, Append, Answer, Leave
<1>3. CallInv'
  BY DEF IInv, CallInv, Append, Answer
<1>4. FreshInv'
  BY DEF IInv, LockInv, FreshInv, Append, Answer
<1>5. EntryInv'
  <2>1. ASSUME NEW k, NEW e, e.path \in Paths, Faithful(k, e)
        PROVE  Faithful(k, e)'
    <3>1. logs[path] # None /\ logs[path].key \notin touched => logs[path] = draft[t]
      BY DEF IInv, DraftInv, Append
    <3> QED
      BY <1>a, <2>1, <3>1 DEF IInv, Faithful, Append
  <2>2. \A k \in Keys : registry # Garbled /\ registry[k] # None => registry[k].path \in Paths
    BY DEF IInv, TypeOK, Entries
  <2>3. \A s \in Threads, k \in Keys : known[s][k] # None => known[s][k].path \in Paths
    BY DEF IInv, TypeOK, Entries
  <2>4. \A s \in Threads :
           answer[s] # None /\ answer[s].kind \in {"created", "deduplicated"}
             => answer[s].path \in Paths
    BY DEF IInv, TypeOK, Answers
  <2>5. \A s \in Threads : pc'[s] \notin {"hit", "saving", "recovering"}
    BY DEF IInv, LockInv, Append, Answer
  <2>6. answer' = [answer EXCEPT ![t] = [kind |-> "appended"]]
    BY DEF Append, Answer
  <2>7. \A s \in Threads :
           answer'[s] # None /\ answer'[s].kind \in {"created", "deduplicated"} =>
              s # t /\ answer'[s] = answer[s] /\ pc'[s] = pc[s]
    BY <2>6 DEF IInv, TypeOK, Append, Answer
  <2>8. UNCHANGED <<registry, known, call>>
    BY DEF Append
  <2> QED
    BY <2>1, <2>2, <2>3, <2>4, <2>5, <2>7, <2>8 DEF IInv, EntryInv
<1>6. DraftInv'
  BY DEF IInv, TypeOK, LockInv, DraftInv, Append, Answer
<1>7. KnownInv'
  BY DEF IInv, KnownInv, Append, Answer
<1> QED
  BY <1>1, <1>2, <1>3, <1>4, <1>5, <1>6, <1>7 DEF IInv

(* A failure changes no file.                                              *)
LEMMA FailKeeps ==
    ASSUME IInv, NEW t \in Threads, Fail(t)
    PROVE  IInv'
<1>1. TypeOK'
  BY DEF IInv, TypeOK, Answers, Fail, Answer, Leave
<1>2. LockInv'
  BY QueryLogAssumption DEF IInv, TypeOK, LockInv, Fail, Answer, Leave
<1>3. CallInv'
  BY DEF IInv, CallInv, Fail, Answer
<1>4. FreshInv'
  BY DEF IInv, FreshInv, Fail, Answer
<1>5. EntryInv'
  BY DEF IInv, EntryInv, Faithful, Fail, Answer
<1>6. DraftInv'
  BY DEF IInv, DraftInv, Fail, Answer
<1>7. KnownInv'
  BY DEF IInv, KnownInv, Fail, Answer
<1> QED
  BY <1>1, <1>2, <1>3, <1>4, <1>5, <1>6, <1>7 DEF IInv

(* A restart changes no file.                                              *)
LEMMA RestartKeeps ==
    ASSUME IInv, Restart
    PROVE  IInv'
<1>1. TypeOK'
  BY DEF IInv, TypeOK, NoEntries, Restart
<1>2. LockInv'
  BY QueryLogAssumption DEF IInv, LockInv, Restart
<1>3. CallInv'
  BY DEF IInv, CallInv, Restart
<1>4. FreshInv'
  BY DEF IInv, FreshInv, Restart
<1>5. EntryInv'
  BY DEF IInv, EntryInv, Faithful, Restart, NoEntries
<1>6. DraftInv'
  BY DEF IInv, DraftInv, Restart
<1>7. KnownInv'
  BY DEF IInv, KnownInv, Restart
<1> QED
  BY <1>1, <1>2, <1>3, <1>4, <1>5, <1>6, <1>7 DEF IInv

(* A moved log leaves the paths of the server free.                        *)
LEMMA MoveKeeps ==
    ASSUME IInv, NEW p \in Paths, NEW q \in Shelf, Move(p, q)
    PROVE  IInv'
<1>1. TypeOK'
  <2>1. logs[p] \in Logs
    BY DEF IInv, TypeOK, Move
  <2>2. logs' \in [Paths -> Logs \cup {None}] /\ touched' \subseteq Keys
    BY <2>1 DEF IInv, TypeOK, Logs, Move
  <2>3. edits' \in 0 .. MaxEdits
    BY QueryLogAssumption DEF IInv, TypeOK, Move
  <2> QED
    BY <2>2, <2>3 DEF IInv, TypeOK, Move, server
<1>2. LockInv'
  BY DEF IInv, LockInv, Move, server
<1>3. CallInv'
  BY DEF IInv, CallInv, Move, server
<1>4. FreshInv'
  <2>1. \A r \in Paths : logs'[r] # None =>
           \E o \in Paths : logs[o] # None /\ logs'[r].key = logs[o].key
    BY DEF IInv, TypeOK, Move
  <2>2. \A r \in Names : logs[r] = None => logs'[r] = None
    BY QueryLogAssumption DEF IInv, TypeOK, Move
  <2>3. UNCHANGED <<pc, call>>
    BY DEF Move, server
  <2>4. \A s \in Threads : pc[s] = "writing" => call[s].path \in Names
    BY CallKinds DEF IInv, CallInv
  <2> QED
    BY <2>1, <2>2, <2>3, <2>4 DEF IInv, FreshInv
<1>5. EntryInv'
  <2>1. ASSUME NEW k, NEW e, e.path \in Paths, Faithful(k, e)
        PROVE  Faithful(k, e)'
    BY <2>1 DEF IInv, TypeOK, Faithful, Move
  <2>2. \A k \in Keys : registry # Garbled /\ registry[k] # None => registry[k].path \in Paths
    BY DEF IInv, TypeOK, Entries
  <2>3. \A s \in Threads, k \in Keys : known[s][k] # None => known[s][k].path \in Paths
    BY DEF IInv, TypeOK, Entries
  <2>4. \A s \in Threads : /\ entry[s] \in Entries => entry[s].path \in Paths
                           /\ answer[s] # None /\ answer[s].kind \in {"created", "deduplicated"}
                                => answer[s].path \in Paths
    BY DEF IInv, TypeOK, Entries, Answers
  <2> QED
    BY <2>1, <2>2, <2>3, <2>4 DEF IInv, EntryInv, Move, server
<1>6. DraftInv'
  BY CallKinds DEF IInv, TypeOK, CallInv, DraftInv, Move, server
<1>7. KnownInv'
  BY DEF IInv, KnownInv, Move, server
<1> QED
  BY <1>1, <1>2, <1>3, <1>4, <1>5, <1>6, <1>7 DEF IInv

(* A deleted log is the only one whose entries fail.                       *)
LEMMA DeleteKeeps ==
    ASSUME IInv, NEW p \in Paths, Delete(p)
    PROVE  IInv'
<1>1. TypeOK'
  BY QueryLogAssumption DEF IInv, TypeOK, Logs, Delete, server
<1>2. LockInv'
  BY DEF IInv, LockInv, Delete, server
<1>3. CallInv'
  BY DEF IInv, CallInv, Delete, server
<1>4. FreshInv'
  BY DEF IInv, FreshInv, Delete, server
<1>5. EntryInv'
  <2>1. ASSUME NEW k, NEW e, e.path \in Paths, Faithful(k, e)
        PROVE  Faithful(k, e)'
    BY <2>1 DEF IInv, Faithful, Delete
  <2>2. \A k \in Keys : registry # Garbled /\ registry[k] # None => registry[k].path \in Paths
    BY DEF IInv, TypeOK, Entries
  <2>3. \A s \in Threads, k \in Keys : known[s][k] # None => known[s][k].path \in Paths
    BY DEF IInv, TypeOK, Entries
  <2>4. \A s \in Threads : /\ entry[s] \in Entries => entry[s].path \in Paths
                           /\ answer[s] # None /\ answer[s].kind \in {"created", "deduplicated"}
                                => answer[s].path \in Paths
    BY DEF IInv, TypeOK, Entries, Answers
  <2> QED
    BY <2>1, <2>2, <2>3, <2>4 DEF IInv, EntryInv, Delete, server
<1>6. DraftInv'
  BY DEF IInv, DraftInv, Delete, server
<1>7. KnownInv'
  BY DEF IInv, KnownInv, Delete, server
<1> QED
  BY <1>1, <1>2, <1>3, <1>4, <1>5, <1>6, <1>7 DEF IInv

(* A lost registry has no wrong entries.                                   *)
LEMMA LoseRegistryKeeps ==
    ASSUME IInv, LoseRegistry
    PROVE  IInv'
<1>1. TypeOK'
  BY QueryLogAssumption DEF IInv, TypeOK, NoEntries, LoseRegistry, server
<1>2. LockInv'
  BY DEF IInv, LockInv, LoseRegistry, server
<1>3. CallInv'
  BY DEF IInv, CallInv, LoseRegistry, server
<1>4. FreshInv'
  BY DEF IInv, FreshInv, LoseRegistry, server
<1>5. EntryInv'
  BY DEF IInv, EntryInv, Faithful, LoseRegistry, NoEntries, server
<1>6. DraftInv'
  BY DEF IInv, DraftInv, LoseRegistry, server
<1>7. KnownInv'
  BY DEF IInv, KnownInv, LoseRegistry
<1> QED
  BY <1>1, <1>2, <1>3, <1>4, <1>5, <1>6, <1>7 DEF IInv

(* No step breaks the invariant.                                           *)
LEMMA NextKeeps == IInv /\ [Next]_vars => IInv'
<1> SUFFICES ASSUME IInv, [Next]_vars PROVE IInv'
  OBVIOUS
<1>1. ASSUME NEW t \in Threads, Call(t) \/ Serve(t) \/ Deliver(t) PROVE IInv'
  BY <1>1, CallKeeps, DeliverKeeps, LookupKeeps, AnswerHitKeeps, ScanKeeps, NameKeeps,
     WriteLogKeeps, SaveRegistryKeeps, ReadLogKeeps, AppendKeeps, FailKeeps DEF Serve
<1>2. CASE User
  BY <1>2, MoveKeeps, DeleteKeeps, LoseRegistryKeeps DEF User
<1>3. CASE UNCHANGED vars
  <2>1. TypeOK' /\ LockInv' /\ CallInv' /\ FreshInv'
    BY <1>3 DEF IInv, vars, server, TypeOK, LockInv, CallInv, FreshInv
  <2>2. EntryInv' /\ DraftInv' /\ KnownInv'
    BY <1>3 DEF IInv, vars, server, EntryInv, Faithful, DraftInv, KnownInv
  <2> QED
    BY <2>1, <2>2 DEF IInv
<1> QED
  BY <1>1, <1>2, <1>3, RestartKeeps DEF Next

(* The invariant holds in every state.                                     *)
THEOREM LogInvariance == Spec => []IInv
BY InitInvariant, NextKeeps, PTL DEF Spec

(* Every variable stays in its domain.                                     *)
THEOREM LogTypeCorrect == Spec => []TypeOK
<1>1. IInv => TypeOK
  BY DEF IInv
<1> QED
  BY <1>1, LogInvariance, PTL

(* write_query_log answers with the log of the session it was asked for.   *)
THEOREM AnswersAreTrue == Spec => []AnswerTrue
<1>1. IInv => AnswerTrue
  BY DEF IInv, EntryInv, Faithful, AnswerTrue
<1> QED
  BY <1>1, LogInvariance, PTL

(* However often a session is retried, around whatever failure, its log is *)
(* created once.                                                           *)
THEOREM OneLogEach == Spec => OneLogPerKey
<1>1. IInv /\ [Next]_vars =>
        [\A t \in Threads : pc[t] = "writing" /\ pc'[t] = "saving" =>
            \A p \in Paths : logs[p] # None => logs[p].key # call[t].key]_vars
  BY DEF IInv, FreshInv
<1> QED
  BY <1>1, LogInvariance, PTL DEF Spec, OneLogPerKey

(* No interleaving of requests loses a log or an action appended to one.   *)
THEOREM NoLostUpdate == Spec => NothingLost
<1> DEFINE Kept(p) ==
      logs[p] # None /\ logs'[p] # None /\ logs[p].key \notin touched =>
         /\ logs'[p].key = logs[p].key
         /\ logs[p].actions \subseteq logs'[p].actions
<1>1. ASSUME IInv, [Next]_vars, NEW p \in Paths PROVE Kept(p)
  <2>1. ASSUME NEW t \in Threads, WriteLog(t) PROVE Kept(p)
    BY <1>1, <2>1 DEF IInv, FreshInv, WriteLog
  <2>2. ASSUME NEW t \in Threads, Append(t) PROVE Kept(p)
    BY <1>1, <2>2 DEF IInv, DraftInv, Append
  <2>3. ASSUME UNCHANGED logs PROVE Kept(p)
    BY <2>3
  <2>4. CASE User
    BY <1>1, <2>3, <2>4 DEF IInv, TypeOK, User, Move, Delete, LoseRegistry
  <2>5. ASSUME NEW t \in Threads, Call(t) \/ Serve(t) \/ Deliver(t) PROVE Kept(p)
    BY <2>1, <2>2, <2>3, <2>5
    DEF Serve, Call, Deliver, Lookup, AnswerHit, Scan, Name, SaveRegistry, ReadLog, Fail
  <2>6. Restart \/ UNCHANGED vars => UNCHANGED logs
    BY DEF Restart, vars
  <2> HIDE DEF Kept
  <2> QED
    BY <1>1, <2>3, <2>4, <2>5, <2>6 DEF Next
<1>2. IInv /\ [Next]_vars => [\A p \in Paths : Kept(p)]_vars
  BY <1>1
<1> QED
  BY <1>2, LogInvariance, PTL DEF Spec, NothingLost

(* The registry file is replaced as a whole, and loses no entry by it.     *)
THEOREM NoLostEntry == Spec => RegistryGrows
<1> DEFINE Grows == registry # Garbled /\ edits' = edits =>
                        /\ registry' # Garbled
                        /\ \A k \in Keys : registry[k] # None => registry'[k] # None
<1>1. ASSUME IInv, [Next]_vars PROVE Grows
  <2>1. ASSUME NEW t \in Threads, SaveRegistry(t) PROVE Grows
    <3>1. registry' = [known[t] EXCEPT ![call[t].key] = entry[t]]
      BY <2>1 DEF SaveRegistry, WithEntry
    <3>2. entry[t] \in Entries /\ call[t].key \in Keys
      BY <1>1, <2>1, CallKinds DEF IInv, EntryInv, CallInv, SaveRegistry
    <3>3. known[t] \in [Keys -> Entries \cup {None}]
      BY <1>1 DEF IInv, TypeOK
    <3>4. registry' \in [Keys -> Entries \cup {None}]
      BY <3>1, <3>2, <3>3
    <3>5. registry \in {known[t], NoEntries, Garbled}
      BY <1>1, <2>1 DEF IInv, KnownInv, SaveRegistry
    <3> QED
      BY <3>1, <3>2, <3>3, <3>4, <3>5, QueryLogRecordAssumption DEF NoEntries
  <2>2. ASSUME UNCHANGED registry PROVE Grows
    BY <2>2
  <2>3. CASE User
    BY <1>1, <2>2, <2>3 DEF IInv, TypeOK, User, Move, Delete, LoseRegistry
  <2> QED
    BY <1>1, <2>1, <2>2, <2>3
    DEF Next, vars, Serve, Call, Deliver, Lookup, AnswerHit, Scan, Name, WriteLog, ReadLog,
        Append, Fail, Restart
<1> QED
  BY <1>1, LogInvariance, PTL DEF Spec, RegistryGrows

=============================================================================
