--------------------------- MODULE SessionReaders ---------------------------
(***************************************************************************)
(* SessionManager's two reads that combine the map with the database,      *)
(* beside the writers of SessionStore.                                     *)
(*                                                                         *)
(* getSessionList reads the rows first, lets go of DataManager::mutex_,    *)
(* and then merges them with the map under its own; getSessionHistory      *)
(* looks into the map first, unlocks, and then asks the database.  What    *)
(* each finds in its second half may no longer go with the first.          *)
(*                                                                         *)
(* Readers change nothing a writer or another reader looks at, so one of   *)
(* them stands for all.                                                    *)
(***************************************************************************)
EXTENDS SessionStore

VARIABLES
    reading,   \* the region the reader enters next, or what it returns from
    subject,   \* getSessionHistory: the session asked for
    snapshot,  \* getSessionList: the rows getAllSessions returned, with their times
    answer,    \* what the call returns: ids, or messages
    steady,    \* history: ids in the map at every moment of the call
    glimpsed,  \* history: ids in the map or on disk at some moment of the call
    owed       \* history: messages of subject acknowledged before the call began

reader == <<reading, subject, snapshot, answer, steady, glimpsed, owed>>

ReaderInit ==
    /\ Init
    /\ reading = "idle" /\ subject = NoSid
    /\ snapshot = {} /\ answer = <<>>
    /\ steady = {} /\ glimpsed = {} /\ owed = {}

\* A row of getSessionList's vector temp.
Item(s, at, from) == [id |-> s, at |-> at, from |-> from]

\* The id columns of every way to sort the rows by time, newest first:
\* std::sort leaves the order of equal times open.
NewestFirst(items) ==
    {[i \in DOMAIN q |-> q[i].id] :
        q \in {p \in SetToSeqs(items) : \A i, j \in DOMAIN p : i < j => p[i].at >= p[j].at}}

-----------------------------------------------------------------------------
(* getSessionList *)

\* DataManager::getAllSessions.
ListRows ==
    /\ reading = "idle"
    /\ dmHolder = NoThread
    /\ snapshot' = {Item(s, updateTime[s], "row") : s \in rows}
    /\ reading' = "list_merge"
    /\ steady' = cached
    /\ glimpsed' = cached \cup rows
    /\ UNCHANGED <<vars, subject, answer, owed>>

\* Mutant: rows are merged without asking whether the map has their id.
ListMergeTwice ==
    /\ reading = "list_merge"
    /\ \E ids \in NewestFirst({Item(s, updatedAt[s], "map") : s \in cached} \cup snapshot) :
          answer' = ids
    /\ reading' = "listed"
    /\ snapshot' = {}
    /\ UNCHANGED <<vars, subject, steady, glimpsed, owed>>

ListMerge ==
    /\ reading = "list_merge"
    /\ \E ids \in NewestFirst({Item(s, updatedAt[s], "map") : s \in cached}
                               \cup {r \in snapshot : r.id \notin cached}) :
          answer' = ids
    /\ reading' = "listed"
    /\ snapshot' = {}
    /\ UNCHANGED <<vars, subject, steady, glimpsed, owed>>

-----------------------------------------------------------------------------
(* getSessionHistory *)

HistoryFromMap(s) ==
    /\ reading = "idle"
    /\ s \in cached
    /\ subject' = s
    /\ answer' = messages[s]
    /\ owed' = {r \in acked \ failed : home[r.id] = s}
    /\ reading' = "told"
    /\ UNCHANGED <<vars, snapshot, steady, glimpsed>>

HistoryMiss(s) ==
    /\ reading = "idle"
    /\ s \notin cached
    /\ life[s] # "unborn"
    /\ subject' = s
    /\ owed' = {r \in acked \ failed : home[r.id] = s}
    /\ reading' = "history_rows"
    /\ UNCHANGED <<vars, snapshot, answer, steady, glimpsed>>

\* Mutant: the lines commented out after the search of the map are back; a
\* session that is not in the map has no history.
HistoryRowsNone ==
    /\ reading = "history_rows"
    /\ dmHolder = NoThread
    /\ answer' = <<>>
    /\ reading' = "told"
    /\ UNCHANGED <<vars, subject, snapshot, steady, glimpsed, owed>>

\* The rows of the session, whether or not the session itself has a row.
HistoryRows ==
    /\ reading = "history_rows"
    /\ dmHolder = NoThread
    /\ answer' = LoadOrder(table[subject])
    /\ reading' = "told"
    /\ UNCHANGED <<vars, subject, snapshot, steady, glimpsed, owed>>

-----------------------------------------------------------------------------

NoReader ==
    /\ reading' = "idle" /\ subject' = NoSid
    /\ snapshot' = {} /\ answer' = <<>>
    /\ steady' = {} /\ glimpsed' = {} /\ owed' = {}

\* The caller has its answer.
ReadReturn ==
    /\ reading \in {"listed", "told"}
    /\ NoReader
    /\ UNCHANGED vars

\* A step of a writer, of the clock, or the end of the process, which takes the
\* reader with it.
Others ==
    /\ Next
    /\ IF restarts' # restarts
       THEN NoReader
       ELSE /\ steady' = IF reading = "list_merge" THEN steady \cap cached' ELSE steady
            /\ glimpsed' = IF reading = "list_merge"
                           THEN glimpsed \cup cached' \cup rows' ELSE glimpsed
            /\ UNCHANGED <<reading, subject, snapshot, answer, owed>>

ReaderNext ==
    \/ Others
    \/ ListRows \/ ListMerge \/ HistoryRows \/ ReadReturn
    \/ \E s \in Sid : HistoryFromMap(s) \/ HistoryMiss(s)

ReaderSpec == ReaderInit /\ [][ReaderNext]_<<vars, reader>>

\* While nobody reads, this is SessionStore, with the fairness of its FairSpec: a
\* thread inside a call keeps running.
UnreadSpec ==
    /\ ReaderInit
    /\ [][Others]_<<vars, reader>>
    /\ \A t \in Thread : WF_vars(Proceed(t))

-----------------------------------------------------------------------------
(* Properties *)

\* However sessions are created, deleted and cleared between getSessionList's
\* two halves, its answer names no session twice, misses none that was there
\* all the while, and names none that was nowhere while it ran.
ListFitsTheCall ==
    reading = "listed" =>
        /\ \A i, j \in DOMAIN answer : answer[i] = answer[j] => i = j
        /\ steady \subseteq ToSet(answer)
        /\ ToSet(answer) \subseteq glimpsed

\* A history holds every message acknowledged before it was asked for, unless
\* the session was being deleted or cleared or SQLite had refused the message,
\* even if the session itself has been lost from the map and the table.
HistoryHoldsTheAcked ==
    reading = "told" /\ life[subject] = "live" => owed \subseteq ToSet(answer)
=============================================================================
