---------------------------- MODULE SessionStore ----------------------------
(***************************************************************************)
(* SessionManager over DataManager: conversations served from a map in     *)
(* memory and written through, statement by statement, to SQLite.          *)
(*                                                                         *)
(* Each object has a mutex of its own and neither holds it while it calls  *)
(* the other.  A region of SessionManager under its mutex makes no call    *)
(* and is one action.  A DataManager call is one action too, except the    *)
(* two that do more than one thing under the mutex: insertMessage (two     *)
(* statements) and getSession (a second, nested lock).  dmHolder is the    *)
(* thread inside one of those.                                             *)
(*                                                                         *)
(* A thread is a caller of SessionManager; pc is the region it enters      *)
(* next.  The process may die between any two actions; the new one loads   *)
(* everything from the database before its first call.                     *)
(***************************************************************************)
EXTENDS Naturals, Sequences, FiniteSets, SequencesExt, MessageOrder

CONSTANTS
    Thread, Sid, Mid,         \* callers; ids of sessions and of messages (UUIDs)
    NoThread, NoSid, NoMsg,   \* "none" of each kind
    SerialClients,            \* callers use each session from one place at a time
    WritesMayFail,            \* SQLite may refuse to change anything (disk full, read-only)
    MaxTime,                  \* bound: seconds the clock may advance
    MaxRestarts               \* bound: how often the process may die

ASSUME NoThreadAssumption == NoThread \notin Thread
ASSUME NoSidAssumption == NoSid \notin Sid
ASSUME BoundAssumption == MaxTime \in Nat /\ MaxRestarts \in Nat
ASSUME ModeAssumption == SerialClients \in BOOLEAN /\ WritesMayFail \in BOOLEAN

Time == 0..MaxTime

Message == [id : Mid, ts : Time]

\* NoMsg also stands for a session that is not there, see Log.
ASSUME NoMsgAssumption == NoMsg \notin Message \cup Seq(Message)

VARIABLES
    cached,      \* SessionManager::sessions_: the ids in the map
    messages,    \* Session::messages of the Session object made for an id
    updatedAt,   \* Session::updated_at of that object
    rows,        \* table sessions: the ids that have a row
    updateTime,  \* table sessions: update_time of that row
    table,       \* table messages: the rows of each session, by rowid
    dmHolder,    \* the thread that keeps DataManager::mutex_ over two actions
    pc, sid, msg,\* each thread's next region and its two arguments
    clock,       \* system_clock in seconds, assumed not to be set back
    restarts,
    life,        \* history: how far each session id has come
    home,        \* history: the session each message was addressed to
    acked,       \* history: messages for which addMessage returned true
    failed       \* history: messages whose INSERT SQLite refused

memory == <<cached, messages, updatedAt>>
disk   == <<rows, updateTime, table>>
calls  == <<pc, sid, msg>>
time   == <<clock, restarts>>
past   == <<life, home, acked, failed>>
vars   == <<memory, disk, dmHolder, calls, time, past>>

Step == {"idle", "create_row", "get_row", "get_nested",
         "add", "add_stamp", "add_insert", "add_update",
         "del_msgs", "del_row", "clear_rows"}

TypeOK ==
    /\ cached \in SUBSET Sid
    /\ messages \in [Sid -> Seq(Message)]
    /\ updatedAt \in [Sid -> Time]
    /\ rows \in SUBSET Sid
    /\ updateTime \in [Sid -> Time]
    /\ table \in [Sid -> Seq(Message)]
    /\ dmHolder \in Thread \cup {NoThread}
    /\ pc \in [Thread -> Step]
    /\ sid \in [Thread -> Sid \cup {NoSid}]
    /\ msg \in [Thread -> Message \cup {NoMsg}]
    /\ clock \in Time
    /\ restarts \in 0..MaxRestarts
    /\ life \in [Sid -> {"unborn", "live", "erased", "gone"}]
    /\ home \in [Mid -> Sid \cup {NoSid}]
    /\ acked \in SUBSET Message
    /\ failed \in SUBSET Message

Init ==
    /\ cached = {} /\ rows = {}
    /\ messages = [s \in Sid |-> <<>>]
    /\ table = [s \in Sid |-> <<>>]
    /\ updatedAt = [s \in Sid |-> 0]
    /\ updateTime = [s \in Sid |-> 0]
    /\ dmHolder = NoThread
    /\ pc = [t \in Thread |-> "idle"]
    /\ sid = [t \in Thread |-> NoSid]
    /\ msg = [t \in Thread |-> NoMsg]
    /\ clock = 0 /\ restarts = 0
    /\ life = [s \in Sid |-> "unborn"]
    /\ home = [m \in Mid |-> NoSid]
    /\ acked = {} /\ failed = {}

-----------------------------------------------------------------------------
(* The caller's side of a call. *)

Call(t, step, s, m) ==
    /\ pc' = [pc EXCEPT ![t] = step]
    /\ sid' = [sid EXCEPT ![t] = s]
    /\ msg' = [msg EXCEPT ![t] = m]

Return(t) == Call(t, "idle", NoSid, NoMsg)

Goto(t, step) == pc' = [pc EXCEPT ![t] = step] /\ UNCHANGED <<sid, msg>>

\* The discipline of a caller like cli_demo.cc, one request at a time on a
\* session; the gRPC server has no such rule and serves requests in parallel.
MayUse(s) ==
    SerialClients => \A u \in Thread : sid[u] # s /\ pc[u] # "clear_rows"

MayUseAll == SerialClients => \A u \in Thread : pc[u] = "idle"

-----------------------------------------------------------------------------
(* createSession *)

\* The id is a fresh UUID; the map entry comes first ...
Create(t, s) ==
    /\ pc[t] = "idle"
    /\ life[s] = "unborn"
    /\ MayUse(s)
    /\ cached' = cached \cup {s}
    /\ messages' = [messages EXCEPT ![s] = <<>>]
    /\ updatedAt' = [updatedAt EXCEPT ![s] = clock]
    /\ life' = [life EXCEPT ![s] = "live"]
    /\ Call(t, "create_row", s, NoMsg)
    /\ UNCHANGED <<disk, dmHolder, time, home, acked, failed>>

\* ... and the row afterwards, whatever became of the map entry meanwhile.
\* insertSession reads updated_at from the object when it binds it.
CreateRow(t) ==
    /\ pc[t] = "create_row"
    /\ dmHolder = NoThread
    /\ \/ /\ rows' = rows \cup {sid[t]}
          /\ updateTime' = [updateTime EXCEPT ![sid[t]] = updatedAt[sid[t]]]
       \/ WritesMayFail /\ UNCHANGED <<rows, updateTime>>
    /\ Return(t)
    /\ UNCHANGED <<memory, table, dmHolder, time, past>>

-----------------------------------------------------------------------------
(* getSession.  An id found in the map is returned at once and changes     *)
(* nothing; only the search of the database takes steps.                   *)

GetMiss(t, s) ==
    /\ pc[t] = "idle"
    /\ life[s] # "unborn"
    /\ MayUse(s)
    /\ s \notin cached
    /\ Call(t, "get_row", s, NoMsg)
    /\ UNCHANGED <<memory, disk, dmHolder, time, past>>

\* No row: getSession returns null.
GetNoRow(t) ==
    /\ pc[t] = "get_row"
    /\ dmHolder = NoThread
    /\ sid[t] \notin rows
    /\ Return(t)
    /\ UNCHANGED <<memory, disk, dmHolder, time, past>>

\* Mutant: the nested lock is repaired, and the session found in the database
\* is put back into the map without asking whether it was deleted meanwhile.
GetRowReinstalls(t) ==
    /\ pc[t] = "get_row"
    /\ dmHolder = NoThread
    /\ sid[t] \in rows
    /\ cached' = cached \cup {sid[t]}
    /\ messages' = [messages EXCEPT ![sid[t]] = LoadOrder(table[sid[t]])]
    /\ Return(t)
    /\ UNCHANGED <<updatedAt, disk, dmHolder, time, past>>

\* A row: DataManager::getSession, still holding mutex_, calls
\* getMessageBySessionId, which locks the same std::mutex.  Relocking is
\* undefined; with the pthread mutex of the build's standard library the
\* thread waits for itself, so no action leads out of "get_nested".
GetRow(t) ==
    /\ pc[t] = "get_row"
    /\ dmHolder = NoThread
    /\ sid[t] \in rows
    /\ dmHolder' = t
    /\ Goto(t, "get_nested")
    /\ UNCHANGED <<memory, disk, time, past>>

-----------------------------------------------------------------------------
(* addMessage *)

\* The caller builds the Message, with its timestamp, before the call.
Compose(t, s, m) ==
    /\ pc[t] = "idle"
    /\ life[s] # "unborn"
    /\ home[m] = NoSid
    /\ MayUse(s)
    /\ home' = [home EXCEPT ![m] = s]
    /\ Call(t, "add", s, [id |-> m, ts |-> clock])
    /\ UNCHANGED <<memory, disk, dmHolder, time, life, acked, failed>>

AddUnknown(t) ==
    /\ pc[t] = "add"
    /\ sid[t] \notin cached
    /\ Return(t)
    /\ UNCHANGED <<memory, disk, dmHolder, time, past>>

\* Mutant: memory keeps only the newest message.
AddPushKeepsNewest(t) ==
    /\ pc[t] = "add"
    /\ sid[t] \in cached
    /\ messages' = [messages EXCEPT ![sid[t]] = <<msg[t]>>]
    /\ Goto(t, "add_stamp")
    /\ UNCHANGED <<cached, updatedAt, disk, dmHolder, time, past>>

AddPush(t) ==
    /\ pc[t] = "add"
    /\ sid[t] \in cached
    /\ messages' = [messages EXCEPT ![sid[t]] = Append(@, msg[t])]
    /\ Goto(t, "add_stamp")
    /\ UNCHANGED <<cached, updatedAt, disk, dmHolder, time, past>>

\* updateSessionTimestamp looks the session up again and takes the timestamp
\* of whatever message is last by now.
AddStamp(t) ==
    /\ pc[t] = "add_stamp"
    /\ updatedAt' = IF sid[t] \in cached
                    THEN [updatedAt EXCEPT ![sid[t]] = Last(messages[sid[t]]).ts]
                    ELSE updatedAt
    /\ Goto(t, "add_insert")
    /\ UNCHANGED <<cached, messages, disk, dmHolder, time, past>>

\* insertMessage, first statement.  Nobody looks whether the session is still
\* there: the foreign key is declared but SQLite is never told to enforce it.
AddInsert(t) ==
    /\ pc[t] = "add_insert"
    /\ dmHolder = NoThread
    /\ table' = [table EXCEPT ![sid[t]] = Append(@, msg[t])]
    /\ dmHolder' = t
    /\ Goto(t, "add_update")
    /\ UNCHANGED <<memory, rows, updateTime, time, past>>

\* A refused INSERT ends insertMessage; addMessage still returns true.
AddInsertFails(t) ==
    /\ WritesMayFail
    /\ pc[t] = "add_insert"
    /\ dmHolder = NoThread
    /\ failed' = failed \cup {msg[t]}
    /\ acked' = acked \cup {msg[t]}
    /\ Return(t)
    /\ UNCHANGED <<memory, disk, dmHolder, time, life, home>>

\* Mutant: only the INSERT is left of insertMessage.
AddUpdateNothing(t) ==
    /\ pc[t] = "add_update"
    /\ dmHolder' = NoThread
    /\ acked' = acked \cup {msg[t]}
    /\ Return(t)
    /\ UNCHANGED <<memory, disk, time, life, home, failed>>

\* Mutant: insertMessage returns without unlocking.
AddUpdateKeepsLock(t) ==
    /\ pc[t] = "add_update"
    /\ acked' = acked \cup {msg[t]}
    /\ Return(t)
    /\ UNCHANGED <<memory, disk, dmHolder, time, life, home, failed>>

\* insertMessage, second statement: an UPDATE that may match no row.
AddUpdate(t) ==
    /\ pc[t] = "add_update"
    /\ \/ /\ sid[t] \in rows
          /\ updateTime' = [updateTime EXCEPT ![sid[t]] = msg[t].ts]
       \/ /\ sid[t] \notin rows \/ WritesMayFail
          /\ UNCHANGED updateTime
    /\ dmHolder' = NoThread
    /\ acked' = acked \cup {msg[t]}
    /\ Return(t)
    /\ UNCHANGED <<memory, rows, table, time, life, home, failed>>

-----------------------------------------------------------------------------
(* deleteSession and clearAllSession *)

\* An id that is not in the map is refused, even if it has a row.
Erase(t, s) ==
    /\ pc[t] = "idle"
    /\ s \in cached
    /\ MayUse(s)
    /\ cached' = cached \ {s}
    /\ life' = [life EXCEPT ![s] = "erased"]
    /\ Call(t, "del_msgs", s, NoMsg)
    /\ UNCHANGED <<messages, updatedAt, disk, dmHolder, time, home, acked, failed>>

\* Mutant: deletion relies on ON DELETE CASCADE.
DeleteMessagesByCascade(t) ==
    /\ pc[t] = "del_msgs"
    /\ dmHolder = NoThread
    /\ Goto(t, "del_row")
    /\ UNCHANGED <<memory, disk, dmHolder, time, past>>

DeleteMessages(t) ==
    /\ pc[t] = "del_msgs"
    /\ dmHolder = NoThread
    /\ \/ table' = [table EXCEPT ![sid[t]] = <<>>]
       \/ WritesMayFail /\ UNCHANGED table
    /\ Goto(t, "del_row")
    /\ UNCHANGED <<memory, rows, updateTime, dmHolder, time, past>>

DeleteRow(t) ==
    /\ pc[t] = "del_row"
    /\ dmHolder = NoThread
    /\ \/ rows' = rows \ {sid[t]}
       \/ WritesMayFail /\ UNCHANGED rows
    /\ life' = [life EXCEPT ![sid[t]] = "gone"]
    /\ Return(t)
    /\ UNCHANGED <<memory, updateTime, table, dmHolder, time, home, acked, failed>>

EraseAll(t) ==
    /\ pc[t] = "idle"
    /\ MayUseAll
    /\ cached' = {}
    /\ life' = [s \in Sid |-> IF s \in cached THEN "erased" ELSE life[s]]
    /\ Call(t, "clear_rows", NoSid, NoMsg)
    /\ UNCHANGED <<messages, updatedAt, disk, dmHolder, time, home, acked, failed>>

\* Mutant: clearAllSessions deletes all messages too, those of a session
\* created since the map was cleared among them.
ClearRowsAndMessages(t) ==
    /\ pc[t] = "clear_rows"
    /\ dmHolder = NoThread
    /\ rows' = {}
    /\ table' = [s \in Sid |-> <<>>]
    /\ Return(t)
    /\ UNCHANGED <<memory, updateTime, dmHolder, time, past>>

\* Only the sessions go: nothing deletes their messages.
ClearRows(t) ==
    /\ pc[t] = "clear_rows"
    /\ dmHolder = NoThread
    /\ \/ rows' = {}
       \/ WritesMayFail /\ UNCHANGED rows
    /\ Return(t)
    /\ UNCHANGED <<memory, updateTime, table, dmHolder, time, past>>

-----------------------------------------------------------------------------
(* The surroundings *)

Tick ==
    /\ clock < MaxTime
    /\ clock' = clock + 1
    /\ UNCHANGED <<memory, disk, dmHolder, calls, restarts, past>>

\* The process dies with all its threads and memory; the constructor of the
\* new SessionManager loads every row and its messages.
Restart ==
    /\ restarts < MaxRestarts
    /\ restarts' = restarts + 1
    /\ cached' = rows
    /\ messages' = [s \in Sid |-> IF s \in rows THEN LoadOrder(table[s]) ELSE <<>>]
    /\ updatedAt' = [s \in Sid |-> IF s \in rows THEN updateTime[s] ELSE 0]
    /\ dmHolder' = NoThread
    /\ pc' = [t \in Thread |-> "idle"]
    /\ sid' = [t \in Thread |-> NoSid]
    /\ msg' = [t \in Thread |-> NoMsg]
    /\ UNCHANGED <<disk, clock, past>>

\* What a thread does inside a call once it has started it.
Proceed(t) ==
    \/ CreateRow(t)
    \/ GetNoRow(t) \/ GetRow(t)
    \/ AddUnknown(t) \/ AddPush(t) \/ AddStamp(t)
    \/ AddInsert(t) \/ AddInsertFails(t) \/ AddUpdate(t)
    \/ DeleteMessages(t) \/ DeleteRow(t) \/ ClearRows(t)

Next ==
    \/ \E t \in Thread : Proceed(t) \/ EraseAll(t)
    \/ \E t \in Thread, s \in Sid :
          Create(t, s) \/ GetMiss(t, s) \/ Erase(t, s)
    \/ \E t \in Thread, s \in Sid, m \in Mid : Compose(t, s, m)
    \/ Tick
    \/ Restart

Spec == Init /\ [][Next]_vars

\* A thread inside a call keeps running; nobody is obliged to start one.
FairSpec == Spec /\ \A t \in Thread : WF_vars(Proceed(t))

-----------------------------------------------------------------------------
(* Properties *)

\* The message is in the memory of session s and on its way to the database.
BeingWritten(s, r) ==
    \E t \in Thread :
        pc[t] \in {"add_stamp", "add_insert"} /\ sid[t] = s /\ msg[t] = r

\* No caller is inside a call about session s.
Quiet(s) == \A t \in Thread : sid[t] # s /\ pc[t] # "clear_rows"

\* The conversation a session serves lacks nothing that is on disk, however
\* its callers, deletions and restarts interleave: addMessage pushes into the
\* map before it inserts, and getSession never installs a second object.
DurableIsServed ==
    \A s \in cached : ToSet(table[s]) \subseteq ToSet(messages[s])

\* A message that is served but is not on disk is being written at this
\* moment by the addMessage that pushed it, or SQLite refused it.
UnsavedIsBeingWritten ==
    \A s \in cached : \A r \in ToSet(messages[s]) \ ToSet(table[s]) :
        r \in failed \/ BeingWritten(s, r)

\* Together: the served and the stored conversation differ only by what is
\* being written at this moment or was refused.  (SessionManager.cc:79-96)
MemoryAgreesWithDisk == DurableIsServed /\ UnsavedIsBeingWritten

\* A message whose addMessage has returned true is on disk, through any crash,
\* unless SQLite refused it or its session was being deleted or cleared.
AckedSurvives ==
    \A r \in acked \ failed :
        life[home[r.id]] = "live" => r \in ToSet(table[home[r.id]])

\* While the process lives, an id that has left the map never returns to it:
\* no late getSession brings a deleted session back.
EraseIsFinal ==
    [][restarts' = restarts =>
          \A s \in Sid : life[s] # "unborn" /\ s \notin cached => s \notin cached']_vars

\* With one caller per session and a willing SQLite, a session whose
\* deleteSession has returned has left no row and no message behind.
DeleteIsDurable ==
    \A s \in Sid : life[s] = "gone" => s \notin rows /\ table[s] = <<>>

\* With one caller per session and a willing SQLite, a restart between calls
\* changes nothing: same messages, in the same order, with the same time of
\* last update, which is what getSessionList sorts by.
RestartShowsTheSame ==
    \A s \in cached : Quiet(s) =>
        /\ s \in rows
        /\ LoadOrder(table[s]) = messages[s]
        /\ updateTime[s] = updatedAt[s]

\* The rule deleteSession's comment states: no thread locks
\* DataManager::mutex_ while it holds it.
NoSelfDeadlock == \A t \in Thread : pc[t] # "get_nested"

\* Once a getSession hangs, the database stays as it is for as long as the
\* process lives, whatever the other threads go on to do in memory.
HungStoreIsFrozen ==
    [][(\E t \in Thread : pc[t] = "get_nested") => UNCHANGED disk]_vars

\* Every call returns.
CallsReturn == \A t \in Thread : pc[t] # "idle" ~> pc[t] = "idle"

\* What the store promises under one caller per session: see ConversationLog.
Log == INSTANCE ConversationLog WITH
    Absent  <- NoMsg,
    visible <- [s \in Sid |-> IF s \in cached THEN messages[s] ELSE NoMsg],
    durable <- [s \in Sid |-> IF s \in rows THEN LoadOrder(table[s]) ELSE NoMsg]

\* Each session behaves as the abstract log.
IsConversationLog == Log!Spec
=============================================================================
