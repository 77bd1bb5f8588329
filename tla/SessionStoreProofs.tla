------------------------- MODULE SessionStoreProofs -------------------------
(***************************************************************************)
(* Proofs about the session store, for any number of callers, sessions and *)
(* messages and any bound on time and restarts.                            *)
(*                                                                         *)
(* First MessageOrder: what a load returns.  Then SessionStore with        *)
(* callers of any kind, with or without failing writes.                    *)
(*                                                                         *)
(* Then callers with the CLI's discipline and a willing SQLite: to them    *)
(* the store is a log per session (ConversationLog), what they delete is   *)
(* gone, and a restart shows the same.  The argument: a session that       *)
(* nobody is using is the same in memory and on disk (Settled), and the    *)
(* one caller that uses it knows at each of its steps by how much they     *)
(* differ (Steps).  Then reloading is the identity, for rows were inserted *)
(* in the order of their times.                                            *)
(*                                                                         *)
(* Last the readers beside any writers: getSessionList and                 *)
(* getSessionHistory, whose two halves look at two different moments.      *)
(***************************************************************************)
EXTENDS SessionReaders, SequenceTheorems, FunctionTheorems, FiniteSetTheorems, TLAPS

-----------------------------------------------------------------------------
(* MessageOrder: LoadOrder returns every row of the table exactly once, and a table that
   was filled in time order as it stands. *)

\* The rows no later than row j, row j among them, are rows of the table.
LEMMA RankType ==
  ASSUME NEW R, NEW q \in Seq(R), NEW j \in DOMAIN q,
         \A r \in R : r.ts \in Nat
  PROVE  Rank(q, j) \in DOMAIN q
<1> DEFINE Below == {i \in DOMAIN q : ComesBefore(q, i, j)}
<1>1. DOMAIN q = 1..Len(q) /\ Len(q) \in Nat
  BY LenProperties
<1>2. IsFiniteSet(DOMAIN q) /\ Cardinality(DOMAIN q) = Len(q)
  <2>1. 1 \in Int /\ Len(q) \in Int /\ Len(q) >= 1
    BY <1>1
  <2>2. IsFiniteSet(1..Len(q)) /\ Cardinality(1..Len(q)) = Len(q) - 1 + 1
    BY <2>1, FS_Interval
  <2> QED
    BY <1>1, <2>2
<1>3. IsFiniteSet(Below) /\ Cardinality(Below) <= Len(q) /\ Cardinality(Below) \in Nat
  BY <1>2, FS_Subset, FS_CardinalityType
<1>4. j \in Below
  BY <1>1 DEF ComesBefore
<1>5. Cardinality(Below) # 0
  BY <1>3, <1>4, FS_EmptySet
<1> QED
  BY <1>1, <1>3, <1>5 DEF Rank

\* No two rows have the same place: of two rows, everything that comes before
\* the earlier one, and the later one itself, comes before the later one.
LEMMA RankInjective ==
  ASSUME NEW R, NEW q \in Seq(R), NEW i \in DOMAIN q, NEW j \in DOMAIN q,
         \A r \in R : r.ts \in Nat,
         Rank(q, i) = Rank(q, j)
  PROVE  i = j
<1> DEFINE Below(k) == {h \in DOMAIN q : ComesBefore(q, h, k)}
<1>1. DOMAIN q = 1..Len(q) /\ Len(q) \in Nat
  BY LenProperties
<1>2. \A h \in DOMAIN q : q[h].ts \in Nat
  BY <1>1, ElementOfSeq
<1>3. \A k \in DOMAIN q : IsFiniteSet(Below(k))
  <2>1. 1 \in Int /\ Len(q) \in Int
    BY <1>1
  <2>2. IsFiniteSet(DOMAIN q)
    BY <1>1, <2>1, FS_Interval
  <2> QED
    BY <2>2, FS_Subset
<1>4. ASSUME NEW k \in DOMAIN q, NEW l \in DOMAIN q,
             ComesBefore(q, k, l), Cardinality(Below(k)) = Cardinality(Below(l))
      PROVE  k = l
  <2>1. Below(k) \subseteq Below(l)
    BY <1>1, <1>2, <1>4 DEF ComesBefore
  <2>2. Below(k) = Below(l)
    BY <1>3, <1>4, <2>1, FS_Subset
  <2>3. l \in Below(k)
    BY <1>1, <2>2 DEF ComesBefore
  <2> QED
    BY <1>1, <1>2, <1>4, <2>3 DEF ComesBefore
<1>5. ComesBefore(q, i, j) \/ ComesBefore(q, j, i)
  BY <1>1, <1>2 DEF ComesBefore
<1> QED
  BY <1>4, <1>5 DEF Rank

\* Every place is taken.
LEMMA RankSurjective ==
  ASSUME NEW R, NEW q \in Seq(R), NEW k \in DOMAIN q,
         \A r \in R : r.ts \in Nat
  PROVE  \E j \in DOMAIN q : Rank(q, j) = k
<1> DEFINE f == [j \in DOMAIN q |-> Rank(q, j)]
<1>1. IsFiniteSet(DOMAIN q)
  BY LenProperties, FS_Interval
<1>2. f \in [DOMAIN q -> DOMAIN q]
  BY RankType
<1>3. \A i, j \in DOMAIN q : f[i] = f[j] => i = j
  BY RankInjective
<1>4. f \in Injection(DOMAIN q, DOMAIN q)
  BY <1>2, <1>3 DEF Injection, IsInjective
<1>5. f \in Surjection(DOMAIN q, DOMAIN q)
  BY <1>1, <1>4, FS_Injection
<1> QED
  BY <1>5 DEF Surjection

\* The rows a session is loaded from are the rows it is loaded with: the
\* SELECT of getMessageBySessionId neither loses nor invents a message.
THEOREM LoadOrderKeepsRows ==
  ASSUME NEW R, NEW q \in Seq(R), \A r \in R : r.ts \in Nat
  PROVE  /\ LoadOrder(q) \in Seq(R)
         /\ Len(LoadOrder(q)) = Len(q)
         /\ ToSet(LoadOrder(q)) = ToSet(q)
<1> DEFINE at(k) == CHOOSE j \in DOMAIN q : Rank(q, j) = k
<1>1. DOMAIN q = 1..Len(q) /\ Len(q) \in Nat /\ q \in [1..Len(q) -> R]
  BY LenProperties
<1>2. \A k \in DOMAIN q : at(k) \in DOMAIN q /\ Rank(q, at(k)) = k
  BY RankSurjective
<1>3. LoadOrder(q) = [k \in 1..Len(q) |-> q[at(k)]]
  BY <1>1 DEF LoadOrder
<1>4. LoadOrder(q) \in [1..Len(q) -> R]
  BY <1>1, <1>2, <1>3
<1>5. LoadOrder(q) \in Seq(R) /\ Len(LoadOrder(q)) = Len(q)
  <2>1. LoadOrder(q) \in Seq(R)
    BY <1>1, <1>4, SeqDef
  <2> QED
    BY <2>1, <1>1, <1>4, LenProperties
<1>6. ToSet(LoadOrder(q)) \subseteq ToSet(q)
  BY <1>1, <1>2, <1>3 DEF ToSet
<1>7. ASSUME NEW j \in DOMAIN q PROVE q[j] \in ToSet(LoadOrder(q))
  <2>1. Rank(q, j) \in DOMAIN q
    BY RankType
  <2>2. at(Rank(q, j)) = j
    BY <1>2, <2>1, RankInjective
  <2> QED
    BY <1>1, <1>3, <2>1, <2>2 DEF ToSet
<1>8. ToSet(q) \subseteq ToSet(LoadOrder(q))
  BY <1>7 DEF ToSet
<1> QED
  BY <1>5, <1>6, <1>8

\* Messages written in the order of their timestamps come back in the order
\* in which they were written: equal timestamps do not disturb it.
THEOREM LoadOrderInTimeOrder ==
  ASSUME NEW R, NEW q \in Seq(R), \A r \in R : r.ts \in Nat,
         InTimeOrder(q)
  PROVE  LoadOrder(q) = q
<1>1. DOMAIN q = 1..Len(q) /\ Len(q) \in Nat /\ q \in [1..Len(q) -> R]
  BY LenProperties
<1>2. ASSUME NEW j \in DOMAIN q PROVE Rank(q, j) = j
  <2>1. {i \in DOMAIN q : ComesBefore(q, i, j)} = 1..j
    <3>1. \A i \in DOMAIN q : q[i].ts \in Nat
      BY <1>1
    <3>2. \A i \in DOMAIN q : ComesBefore(q, i, j) <=> i <= j
      BY <1>1, <3>1 DEF InTimeOrder, ComesBefore
    <3> QED
      BY <1>1, <3>2
  <2>2. 1 \in Int /\ j \in Int /\ j >= 1
    BY <1>1
  <2>3. Cardinality(1..j) = j
    BY <2>2, FS_Interval
  <2> QED
    BY <2>1, <2>3 DEF Rank
<1>3. \A k \in DOMAIN q : (CHOOSE j \in DOMAIN q : Rank(q, j) = k) = k
  BY <1>2
<1> QED
  BY <1>1, <1>3 DEF LoadOrder

-----------------------------------------------------------------------------
(* The inductive invariant *)

AddSteps == {"add", "add_stamp", "add_insert", "add_update"}

\* A call in progress is about a session that was created at some time, and
\* an addMessage carries the message addressed to that session.
Calling ==
    \A t \in Thread :
        /\ pc[t] \notin {"idle", "clear_rows"} =>
              sid[t] \in Sid /\ life[sid[t]] # "unborn"
        /\ pc[t] \in AddSteps =>
              msg[t] \in Message /\ home[msg[t].id] = sid[t]

\* The mutex is held exactly by the thread inside a two-step DataManager call.
Holding ==
    \A t \in Thread : dmHolder = t <=> pc[t] \in {"add_update", "get_nested"}

\* An id not yet generated is nowhere in memory or on disk.
Unborn ==
    \A s \in Sid : life[s] = "unborn" =>
        s \notin cached /\ s \notin rows /\ table[s] = <<>>

\* A message is in memory from its push on, and on disk from its INSERT until
\* insertMessage gives up the mutex.
Pushed ==
    \A t \in Thread :
        /\ pc[t] \in {"add_stamp", "add_insert"} /\ sid[t] \in cached =>
              msg[t] \in ToSet(messages[sid[t]])
        /\ pc[t] = "add_update" => msg[t] \in ToSet(table[sid[t]])

\* A session whose rows are being deleted is out of the map for good.
Deleting ==
    \A t \in Thread : pc[t] \in {"del_msgs", "del_row"} =>
        sid[t] \notin cached /\ life[sid[t]] \in {"erased", "gone"}

\* An acknowledged message was addressed to a session that had been created.
Addressed ==
    \A r \in acked : home[r.id] \in Sid /\ life[home[r.id]] # "unborn"

IInv ==
    /\ TypeOK /\ Calling /\ Holding /\ Unborn /\ Pushed /\ Deleting /\ Addressed
    /\ DurableIsServed /\ UnsavedIsBeingWritten /\ AckedSurvives

-----------------------------------------------------------------------------
(* Sequences as sets of their elements *)

\* Appending adds one element.
LEMMA ToSetAppend ==
  ASSUME NEW R, NEW q \in Seq(R), NEW e \in R
  PROVE  Append(q, e) \in Seq(R) /\ ToSet(Append(q, e)) = ToSet(q) \cup {e}
<1>1. /\ Append(q, e) \in Seq(R)
      /\ DOMAIN Append(q, e) = 1..(Len(q) + 1)
      /\ DOMAIN q = 1..Len(q) /\ Len(q) \in Nat
      /\ \A i \in 1..Len(q) : Append(q, e)[i] = q[i]
      /\ Append(q, e)[Len(q) + 1] = e
  BY AppendProperties, LenProperties
<1> QED
  BY <1>1 DEF ToSet

\* The empty sequence has none.
LEMMA ToSetEmpty == ToSet(<<>>) = {}
  BY DEF ToSet

\* What stands last in a sequence over a set is in the set.
LEMMA LastType ==
  ASSUME NEW R, NEW q \in Seq(R), NEW e \in ToSet(q)
  PROVE  Last(q) \in R
<1>1. DOMAIN q = 1..Len(q) /\ Len(q) \in Nat /\ q \in [1..Len(q) -> R]
  BY LenProperties
<1>2. Len(q) \in 1..Len(q)
  BY <1>1 DEF ToSet
<1> QED
  BY <1>1, <1>2 DEF Last

\* Timestamps of messages are natural numbers.
LEMMA MessageType ==
  /\ 0 \in Time
  /\ Time \subseteq Nat
  /\ \A r \in Message : r.ts \in Time /\ r.ts \in Nat
  BY BoundAssumption DEF Time, Message

\* A reload returns the messages of the table, all of them and no others.
LEMMA Reload ==
  ASSUME NEW q \in Seq(Message)
  PROVE  LoadOrder(q) \in Seq(Message) /\ ToSet(LoadOrder(q)) = ToSet(q)
  BY LoadOrderKeepsRows, MessageType

-----------------------------------------------------------------------------
(* Each part of the invariant is preserved by every action *)

\* Types.  AddStamp relies on Pushed: there is a last message to read.
LEMMA TypeStep ==
  ASSUME IInv, Next
  PROVE  TypeOK'
<1> USE DEF IInv, Call, Return, Goto, memory, disk, calls, time, past,
           TypeOK, Calling, Pushed, Step, AddSteps
<1>1. ASSUME NEW t \in Thread, CreateRow(t)
      PROVE  TypeOK'
  <2>1. sid[t] \in Sid /\ updatedAt[sid[t]] \in Time
    BY <1>1 DEF CreateRow
  <2>2. rows' \in SUBSET Sid /\ updateTime' \in [Sid -> Time]
    BY <1>1, <2>1 DEF CreateRow
  <2> QED
    BY <1>1, <2>2 DEF CreateRow
<1>2. ASSUME NEW t \in Thread, GetNoRow(t)
      PROVE  TypeOK'
  BY <1>2 DEF GetNoRow
<1>3. ASSUME NEW t \in Thread, GetRow(t)
      PROVE  TypeOK'
  BY <1>3 DEF GetRow
<1>4. ASSUME NEW t \in Thread, AddUnknown(t)
      PROVE  TypeOK'
  BY <1>4 DEF AddUnknown
<1>5. ASSUME NEW t \in Thread, AddPush(t)
      PROVE  TypeOK'
  <2>1. sid[t] \in Sid /\ msg[t] \in Message /\ messages[sid[t]] \in Seq(Message)
    BY <1>5 DEF AddPush
  <2>2. messages' \in [Sid -> Seq(Message)]
    BY <1>5, <2>1, ToSetAppend DEF AddPush
  <2> QED
    BY <1>5, <2>2 DEF AddPush
<1>6. ASSUME NEW t \in Thread, AddStamp(t)
      PROVE  TypeOK'
  <2>1. sid[t] \in Sid /\ messages[sid[t]] \in Seq(Message)
    BY <1>6 DEF AddStamp
  <2>2. sid[t] \in cached => Last(messages[sid[t]]).ts \in Time
    BY <1>6, <2>1, LastType, MessageType DEF AddStamp
  <2>3. updatedAt' \in [Sid -> Time]
    BY <1>6, <2>1, <2>2 DEF AddStamp
  <2> QED
    BY <1>6, <2>3 DEF AddStamp
<1>7. ASSUME NEW t \in Thread, AddInsert(t)
      PROVE  TypeOK'
  <2>1. sid[t] \in Sid /\ msg[t] \in Message /\ table[sid[t]] \in Seq(Message)
    BY <1>7 DEF AddInsert
  <2>2. table' \in [Sid -> Seq(Message)]
    BY <1>7, <2>1, ToSetAppend DEF AddInsert
  <2> QED
    BY <1>7, <2>2 DEF AddInsert
<1>8. ASSUME NEW t \in Thread, AddInsertFails(t)
      PROVE  TypeOK'
  BY <1>8 DEF AddInsertFails
<1>9. ASSUME NEW t \in Thread, AddUpdate(t)
      PROVE  TypeOK'
  <2>1. sid[t] \in Sid /\ msg[t] \in Message /\ msg[t].ts \in Time
    BY <1>9, MessageType DEF AddUpdate
  <2>2. updateTime' \in [Sid -> Time]
    BY <1>9, <2>1 DEF AddUpdate
  <2> QED
    BY <1>9, <2>1, <2>2 DEF AddUpdate
<1>10. ASSUME NEW t \in Thread, DeleteMessages(t)
      PROVE  TypeOK'
  <2>1. sid[t] \in Sid /\ <<>> \in Seq(Message)
    BY <1>10, EmptySeq DEF DeleteMessages
  <2>2. table' = table \/ table' = [table EXCEPT ![sid[t]] = <<>>]
    BY <1>10 DEF DeleteMessages
  <2>3. table' \in [Sid -> Seq(Message)]
    BY <2>1, <2>2
  <2> QED
    BY <1>10, <2>3 DEF DeleteMessages
<1>11. ASSUME NEW t \in Thread, DeleteRow(t)
      PROVE  TypeOK'
  BY <1>11 DEF DeleteRow
<1>12. ASSUME NEW t \in Thread, ClearRows(t)
      PROVE  TypeOK'
  BY <1>12 DEF ClearRows
<1>13. ASSUME NEW t \in Thread, EraseAll(t)
      PROVE  TypeOK'
  BY <1>13 DEF EraseAll
<1>14. ASSUME NEW t \in Thread, NEW s \in Sid, Create(t, s)
      PROVE  TypeOK'
  BY <1>14 DEF Create
<1>15. ASSUME NEW t \in Thread, NEW s \in Sid, GetMiss(t, s)
      PROVE  TypeOK'
  BY <1>15 DEF GetMiss
<1>16. ASSUME NEW t \in Thread, NEW s \in Sid, Erase(t, s)
      PROVE  TypeOK'
  BY <1>16 DEF Erase
<1>17. ASSUME NEW t \in Thread, NEW s \in Sid, NEW m \in Mid,
             Compose(t, s, m)
      PROVE  TypeOK'
  <2>1. [id |-> m, ts |-> clock] \in Message
    BY DEF Message
  <2> QED
    BY <1>17, <2>1 DEF Compose
<1>18. ASSUME Tick
      PROVE  TypeOK'
  <2>1. clock' \in Time
    BY <1>18, BoundAssumption DEF Tick, Time
  <2> QED
    BY <1>18, <2>1 DEF Tick
<1>19. ASSUME Restart
      PROVE  TypeOK'
  <2>1. messages' \in [Sid -> Seq(Message)]
    BY <1>19, Reload DEF Restart
  <2>2. updatedAt' \in [Sid -> Time]
    BY <1>19, MessageType DEF Restart
  <2>3. restarts' \in 0..MaxRestarts
    BY <1>19, BoundAssumption DEF Restart
  <2> QED
    BY <1>19, <2>1, <2>2, <2>3 DEF Restart
<1> QED
  BY <1>1, <1>2, <1>3, <1>4, <1>5, <1>6, <1>7, <1>8, <1>9, <1>10,
     <1>11, <1>12, <1>13, <1>14, <1>15, <1>16, <1>17, <1>18, <1>19
  DEF Next, Proceed

\* A call keeps its arguments, and a session once born is never unborn.
LEMMA CallingStep ==
  ASSUME IInv, Next
  PROVE  Calling'
<1> USE DEF IInv, Call, Return, Goto, memory, disk, calls, time, past,
           TypeOK, Calling, Deleting, Step, AddSteps
<1>1. ASSUME NEW t \in Thread, CreateRow(t)
      PROVE  Calling'
  BY <1>1 DEF CreateRow
<1>2. ASSUME NEW t \in Thread, GetNoRow(t)
      PROVE  Calling'
  BY <1>2 DEF GetNoRow
<1>3. ASSUME NEW t \in Thread, GetRow(t)
      PROVE  Calling'
  BY <1>3 DEF GetRow
<1>4. ASSUME NEW t \in Thread, AddUnknown(t)
      PROVE  Calling'
  BY <1>4 DEF AddUnknown
<1>5. ASSUME NEW t \in Thread, AddPush(t)
      PROVE  Calling'
  BY <1>5 DEF AddPush
<1>6. ASSUME NEW t \in Thread, AddStamp(t)
      PROVE  Calling'
  BY <1>6 DEF AddStamp
<1>7. ASSUME NEW t \in Thread, AddInsert(t)
      PROVE  Calling'
  BY <1>7 DEF AddInsert
<1>8. ASSUME NEW t \in Thread, AddInsertFails(t)
      PROVE  Calling'
  BY <1>8 DEF AddInsertFails
<1>9. ASSUME NEW t \in Thread, AddUpdate(t)
      PROVE  Calling'
  BY <1>9 DEF AddUpdate
<1>10. ASSUME NEW t \in Thread, DeleteMessages(t)
      PROVE  Calling'
  BY <1>10 DEF DeleteMessages
<1>11. ASSUME NEW t \in Thread, DeleteRow(t)
      PROVE  Calling'
  BY <1>11 DEF DeleteRow
<1>12. ASSUME NEW t \in Thread, ClearRows(t)
      PROVE  Calling'
  BY <1>12 DEF ClearRows
<1>13. ASSUME NEW t \in Thread, EraseAll(t)
      PROVE  Calling'
  BY <1>13 DEF EraseAll
<1>14. ASSUME NEW t \in Thread, NEW s \in Sid, Create(t, s)
      PROVE  Calling'
  BY <1>14 DEF Create
<1>15. ASSUME NEW t \in Thread, NEW s \in Sid, GetMiss(t, s)
      PROVE  Calling'
  BY <1>15 DEF GetMiss
<1>16. ASSUME NEW t \in Thread, NEW s \in Sid, Erase(t, s)
      PROVE  Calling'
  BY <1>16 DEF Erase
<1>17. ASSUME NEW t \in Thread, NEW s \in Sid, NEW m \in Mid,
             Compose(t, s, m)
      PROVE  Calling'
  <2>1. [id |-> m, ts |-> clock] \in Message
    BY DEF Message
  <2>2. \A u \in Thread : pc[u] \in AddSteps => msg[u].id # m
    BY <1>17, NoSidAssumption DEF Compose
  <2>3. \A u \in Thread : u # t =>
           pc'[u] = pc[u] /\ sid'[u] = sid[u] /\ msg'[u] = msg[u]
    BY <1>17 DEF Compose
  <2>4. pc'[t] = "add" /\ sid'[t] = s /\ msg'[t] = [id |-> m, ts |-> clock]
    BY <1>17 DEF Compose
  <2>5. home'[m] = s /\ \A k \in Mid \ {m} : home'[k] = home[k]
    BY <1>17 DEF Compose
  <2>6. life' = life /\ life[s] # "unborn"
    BY <1>17 DEF Compose
  <2>7. \A u \in Thread : pc[u] \in AddSteps => msg[u].id \in Mid
    BY DEF Message
  <2> QED
    BY <2>1, <2>2, <2>3, <2>4, <2>5, <2>6, <2>7
<1>18. ASSUME Tick
      PROVE  Calling'
  BY <1>18 DEF Tick
<1>19. ASSUME Restart
      PROVE  Calling'
  BY <1>19 DEF Restart
<1> QED
  BY <1>1, <1>2, <1>3, <1>4, <1>5, <1>6, <1>7, <1>8, <1>9, <1>10,
     <1>11, <1>12, <1>13, <1>14, <1>15, <1>16, <1>17, <1>18, <1>19
  DEF Next, Proceed

\* Only a thread that finds the mutex free takes it, and keeps it.
LEMMA HoldingStep ==
  ASSUME IInv, Next
  PROVE  Holding'
<1> USE DEF IInv, Call, Return, Goto, memory, disk, calls, time, past,
           TypeOK, Holding, Step
<1>1. ASSUME NEW t \in Thread, CreateRow(t)
      PROVE  Holding'
  BY <1>1, NoThreadAssumption DEF CreateRow
<1>2. ASSUME NEW t \in Thread, GetNoRow(t)
      PROVE  Holding'
  BY <1>2, NoThreadAssumption DEF GetNoRow
<1>3. ASSUME NEW t \in Thread, GetRow(t)
      PROVE  Holding'
  BY <1>3, NoThreadAssumption DEF GetRow
<1>4. ASSUME NEW t \in Thread, AddUnknown(t)
      PROVE  Holding'
  BY <1>4, NoThreadAssumption DEF AddUnknown
<1>5. ASSUME NEW t \in Thread, AddPush(t)
      PROVE  Holding'
  BY <1>5, NoThreadAssumption DEF AddPush
<1>6. ASSUME NEW t \in Thread, AddStamp(t)
      PROVE  Holding'
  BY <1>6, NoThreadAssumption DEF AddStamp
<1>7. ASSUME NEW t \in Thread, AddInsert(t)
      PROVE  Holding'
  BY <1>7, NoThreadAssumption DEF AddInsert
<1>8. ASSUME NEW t \in Thread, AddInsertFails(t)
      PROVE  Holding'
  BY <1>8, NoThreadAssumption DEF AddInsertFails
<1>9. ASSUME NEW t \in Thread, AddUpdate(t)
      PROVE  Holding'
  BY <1>9, NoThreadAssumption DEF AddUpdate
<1>10. ASSUME NEW t \in Thread, DeleteMessages(t)
      PROVE  Holding'
  BY <1>10,
     NoThreadAssumption DEF DeleteMessages
<1>11. ASSUME NEW t \in Thread, DeleteRow(t)
      PROVE  Holding'
  BY <1>11, NoThreadAssumption DEF DeleteRow
<1>12. ASSUME NEW t \in Thread, ClearRows(t)
      PROVE  Holding'
  BY <1>12, NoThreadAssumption DEF ClearRows
<1>13. ASSUME NEW t \in Thread, EraseAll(t)
      PROVE  Holding'
  BY <1>13, NoThreadAssumption DEF EraseAll
<1>14. ASSUME NEW t \in Thread, NEW s \in Sid, Create(t, s)
      PROVE  Holding'
  BY <1>14, NoThreadAssumption DEF Create
<1>15. ASSUME NEW t \in Thread, NEW s \in Sid, GetMiss(t, s)
      PROVE  Holding'
  BY <1>15, NoThreadAssumption DEF GetMiss
<1>16. ASSUME NEW t \in Thread, NEW s \in Sid, Erase(t, s)
      PROVE  Holding'
  BY <1>16, NoThreadAssumption DEF Erase
<1>17. ASSUME NEW t \in Thread, NEW s \in Sid, NEW m \in Mid,
             Compose(t, s, m)
      PROVE  Holding'
  BY <1>17, NoThreadAssumption DEF Compose
<1>18. ASSUME Tick
      PROVE  Holding'
  BY <1>18, NoThreadAssumption DEF Tick
<1>19. ASSUME Restart
      PROVE  Holding'
  BY <1>19, NoThreadAssumption DEF Restart
<1> QED
  BY <1>1, <1>2, <1>3, <1>4, <1>5, <1>6, <1>7, <1>8, <1>9, <1>10,
     <1>11, <1>12, <1>13, <1>14, <1>15, <1>16, <1>17, <1>18, <1>19
  DEF Next, Proceed

\* Rows are written only for sessions that a call in progress names.
LEMMA UnbornStep ==
  ASSUME IInv, Next
  PROVE  Unborn'
<1> USE DEF IInv, Call, Return, Goto, memory, disk, calls, time, past,
           TypeOK, Calling, Unborn, Step, AddSteps
<1>1. ASSUME NEW t \in Thread, CreateRow(t)
      PROVE  Unborn'
  <2>1. sid[t] \in Sid /\ life[sid[t]] # "unborn"
    BY <1>1 DEF CreateRow
  <2>2. rows' \subseteq rows \cup {sid[t]}
    BY <1>1 DEF CreateRow
  <2> QED
    BY <1>1, <2>1, <2>2 DEF CreateRow
<1>2. ASSUME NEW t \in Thread, GetNoRow(t)
      PROVE  Unborn'
  BY <1>2 DEF GetNoRow
<1>3. ASSUME NEW t \in Thread, GetRow(t)
      PROVE  Unborn'
  BY <1>3 DEF GetRow
<1>4. ASSUME NEW t \in Thread, AddUnknown(t)
      PROVE  Unborn'
  BY <1>4 DEF AddUnknown
<1>5. ASSUME NEW t \in Thread, AddPush(t)
      PROVE  Unborn'
  BY <1>5 DEF AddPush
<1>6. ASSUME NEW t \in Thread, AddStamp(t)
      PROVE  Unborn'
  BY <1>6 DEF AddStamp
<1>7. ASSUME NEW t \in Thread, AddInsert(t)
      PROVE  Unborn'
  BY <1>7 DEF AddInsert
<1>8. ASSUME NEW t \in Thread, AddInsertFails(t)
      PROVE  Unborn'
  BY <1>8 DEF AddInsertFails
<1>9. ASSUME NEW t \in Thread, AddUpdate(t)
      PROVE  Unborn'
  BY <1>9 DEF AddUpdate
<1>10. ASSUME NEW t \in Thread, DeleteMessages(t)
      PROVE  Unborn'
  BY <1>10 DEF DeleteMessages
<1>11. ASSUME NEW t \in Thread, DeleteRow(t)
      PROVE  Unborn'
  BY <1>11 DEF DeleteRow
<1>12. ASSUME NEW t \in Thread, ClearRows(t)
      PROVE  Unborn'
  BY <1>12 DEF ClearRows
<1>13. ASSUME NEW t \in Thread, EraseAll(t)
      PROVE  Unborn'
  BY <1>13 DEF EraseAll
<1>14. ASSUME NEW t \in Thread, NEW s \in Sid, Create(t, s)
      PROVE  Unborn'
  BY <1>14 DEF Create
<1>15. ASSUME NEW t \in Thread, NEW s \in Sid, GetMiss(t, s)
      PROVE  Unborn'
  BY <1>15 DEF GetMiss
<1>16. ASSUME NEW t \in Thread, NEW s \in Sid, Erase(t, s)
      PROVE  Unborn'
  BY <1>16 DEF Erase
<1>17. ASSUME NEW t \in Thread, NEW s \in Sid, NEW m \in Mid,
             Compose(t, s, m)
      PROVE  Unborn'
  BY <1>17 DEF Compose
<1>18. ASSUME Tick
      PROVE  Unborn'
  BY <1>18 DEF Tick
<1>19. ASSUME Restart
      PROVE  Unborn'
  BY <1>19 DEF Restart
<1> QED
  BY <1>1, <1>2, <1>3, <1>4, <1>5, <1>6, <1>7, <1>8, <1>9, <1>10,
     <1>11, <1>12, <1>13, <1>14, <1>15, <1>16, <1>17, <1>18, <1>19
  DEF Next, Proceed

\* What was pushed stays pushed: messages only grows while the process lives,
\* and no row is deleted while insertMessage holds the mutex.
LEMMA PushedStep ==
  ASSUME IInv, Next
  PROVE  Pushed'
<1> USE DEF IInv, Call, Return, Goto, memory, disk, calls, time, past,
           TypeOK, Calling, Holding, Pushed, Unborn, Step, AddSteps
<1>1. ASSUME NEW t \in Thread, CreateRow(t)
      PROVE  Pushed'
  BY <1>1 DEF CreateRow
<1>2. ASSUME NEW t \in Thread, GetNoRow(t)
      PROVE  Pushed'
  BY <1>2 DEF GetNoRow
<1>3. ASSUME NEW t \in Thread, GetRow(t)
      PROVE  Pushed'
  BY <1>3 DEF GetRow
<1>4. ASSUME NEW t \in Thread, AddUnknown(t)
      PROVE  Pushed'
  BY <1>4 DEF AddUnknown
<1>5. ASSUME NEW t \in Thread, AddPush(t)
      PROVE  Pushed'
  <2>1. sid[t] \in Sid /\ msg[t] \in Message /\ messages[sid[t]] \in Seq(Message)
    BY <1>5 DEF AddPush
  <2>2. \A s \in Sid : ToSet(messages[s]) \subseteq ToSet(messages'[s])
    BY <1>5, <2>1, ToSetAppend DEF AddPush
  <2>3. msg[t] \in ToSet(messages'[sid[t]])
    BY <1>5, <2>1, ToSetAppend DEF AddPush
  <2> QED
    BY <1>5, <2>1, <2>2, <2>3 DEF AddPush
<1>6. ASSUME NEW t \in Thread, AddStamp(t)
      PROVE  Pushed'
  BY <1>6 DEF AddStamp
<1>7. ASSUME NEW t \in Thread, AddInsert(t)
      PROVE  Pushed'
  <2>1. sid[t] \in Sid /\ msg[t] \in Message /\ table[sid[t]] \in Seq(Message)
    BY <1>7 DEF AddInsert
  <2>2. msg[t] \in ToSet(table'[sid[t]])
    BY <1>7, <2>1, ToSetAppend DEF AddInsert
  <2>3. \A u \in Thread : pc[u] # "add_update"
    BY <1>7, NoThreadAssumption DEF AddInsert
  <2> QED
    BY <1>7, <2>1, <2>2, <2>3 DEF AddInsert
<1>8. ASSUME NEW t \in Thread, AddInsertFails(t)
      PROVE  Pushed'
  BY <1>8 DEF AddInsertFails
<1>9. ASSUME NEW t \in Thread, AddUpdate(t)
      PROVE  Pushed'
  BY <1>9 DEF AddUpdate
<1>10. ASSUME NEW t \in Thread, DeleteMessages(t)
      PROVE  Pushed'
  <2>1. \A u \in Thread : pc[u] # "add_update"
    BY <1>10, NoThreadAssumption DEF DeleteMessages
  <2> QED
    BY <1>10, <2>1 DEF DeleteMessages
<1>11. ASSUME NEW t \in Thread, DeleteRow(t)
      PROVE  Pushed'
  BY <1>11 DEF DeleteRow
<1>12. ASSUME NEW t \in Thread, ClearRows(t)
      PROVE  Pushed'
  BY <1>12 DEF ClearRows
<1>13. ASSUME NEW t \in Thread, EraseAll(t)
      PROVE  Pushed'
  BY <1>13 DEF EraseAll
<1>14. ASSUME NEW t \in Thread, NEW s \in Sid, Create(t, s)
      PROVE  Pushed'
  <2>1. \A u \in Thread : pc[u] \in AddSteps => sid[u] # s
    BY <1>14 DEF Create
  <2> QED
    BY <1>14, <2>1 DEF Create
<1>15. ASSUME NEW t \in Thread, NEW s \in Sid, GetMiss(t, s)
      PROVE  Pushed'
  BY <1>15 DEF GetMiss
<1>16. ASSUME NEW t \in Thread, NEW s \in Sid, Erase(t, s)
      PROVE  Pushed'
  BY <1>16 DEF Erase
<1>17. ASSUME NEW t \in Thread, NEW s \in Sid, NEW m \in Mid,
             Compose(t, s, m)
      PROVE  Pushed'
  BY <1>17 DEF Compose
<1>18. ASSUME Tick
      PROVE  Pushed'
  BY <1>18 DEF Tick
<1>19. ASSUME Restart
      PROVE  Pushed'
  BY <1>19 DEF Restart
<1> QED
  BY <1>1, <1>2, <1>3, <1>4, <1>5, <1>6, <1>7, <1>8, <1>9, <1>10,
     <1>11, <1>12, <1>13, <1>14, <1>15, <1>16, <1>17, <1>18, <1>19
  DEF Next, Proceed

\* Only a new session enters the map, and none that is being deleted is new.
LEMMA DeletingStep ==
  ASSUME IInv, Next
  PROVE  Deleting'
<1> USE DEF IInv, Call, Return, Goto, memory, disk, calls, time, past,
           TypeOK, Calling, Deleting, Step, AddSteps
<1>1. ASSUME NEW t \in Thread, CreateRow(t)
      PROVE  Deleting'
  BY <1>1 DEF CreateRow
<1>2. ASSUME NEW t \in Thread, GetNoRow(t)
      PROVE  Deleting'
  BY <1>2 DEF GetNoRow
<1>3. ASSUME NEW t \in Thread, GetRow(t)
      PROVE  Deleting'
  BY <1>3 DEF GetRow
<1>4. ASSUME NEW t \in Thread, AddUnknown(t)
      PROVE  Deleting'
  BY <1>4 DEF AddUnknown
<1>5. ASSUME NEW t \in Thread, AddPush(t)
      PROVE  Deleting'
  BY <1>5 DEF AddPush
<1>6. ASSUME NEW t \in Thread, AddStamp(t)
      PROVE  Deleting'
  BY <1>6 DEF AddStamp
<1>7. ASSUME NEW t \in Thread, AddInsert(t)
      PROVE  Deleting'
  BY <1>7 DEF AddInsert
<1>8. ASSUME NEW t \in Thread, AddInsertFails(t)
      PROVE  Deleting'
  BY <1>8 DEF AddInsertFails
<1>9. ASSUME NEW t \in Thread, AddUpdate(t)
      PROVE  Deleting'
  BY <1>9 DEF AddUpdate
<1>10. ASSUME NEW t \in Thread, DeleteMessages(t)
      PROVE  Deleting'
  BY <1>10 DEF DeleteMessages
<1>11. ASSUME NEW t \in Thread, DeleteRow(t)
      PROVE  Deleting'
  BY <1>11 DEF DeleteRow
<1>12. ASSUME NEW t \in Thread, ClearRows(t)
      PROVE  Deleting'
  BY <1>12 DEF ClearRows
<1>13. ASSUME NEW t \in Thread, EraseAll(t)
      PROVE  Deleting'
  BY <1>13 DEF EraseAll
<1>14. ASSUME NEW t \in Thread, NEW s \in Sid, Create(t, s)
      PROVE  Deleting'
  BY <1>14 DEF Create
<1>15. ASSUME NEW t \in Thread, NEW s \in Sid, GetMiss(t, s)
      PROVE  Deleting'
  BY <1>15 DEF GetMiss
<1>16. ASSUME NEW t \in Thread, NEW s \in Sid, Erase(t, s)
      PROVE  Deleting'
  BY <1>16 DEF Erase
<1>17. ASSUME NEW t \in Thread, NEW s \in Sid, NEW m \in Mid,
             Compose(t, s, m)
      PROVE  Deleting'
  BY <1>17 DEF Compose
<1>18. ASSUME Tick
      PROVE  Deleting'
  BY <1>18 DEF Tick
<1>19. ASSUME Restart
      PROVE  Deleting'
  BY <1>19 DEF Restart
<1> QED
  BY <1>1, <1>2, <1>3, <1>4, <1>5, <1>6, <1>7, <1>8, <1>9, <1>10,
     <1>11, <1>12, <1>13, <1>14, <1>15, <1>16, <1>17, <1>18, <1>19
  DEF Next, Proceed

\* An acknowledged message was addressed when it was composed.
LEMMA AddressedStep ==
  ASSUME IInv, Next
  PROVE  Addressed'
<1> USE DEF IInv, Call, Return, Goto, memory, disk, calls, time, past,
           TypeOK, Calling, Addressed, Step, AddSteps
<1>1. ASSUME NEW t \in Thread, CreateRow(t)
      PROVE  Addressed'
  BY <1>1 DEF CreateRow
<1>2. ASSUME NEW t \in Thread, GetNoRow(t)
      PROVE  Addressed'
  BY <1>2 DEF GetNoRow
<1>3. ASSUME NEW t \in Thread, GetRow(t)
      PROVE  Addressed'
  BY <1>3 DEF GetRow
<1>4. ASSUME NEW t \in Thread, AddUnknown(t)
      PROVE  Addressed'
  BY <1>4 DEF AddUnknown
<1>5. ASSUME NEW t \in Thread, AddPush(t)
      PROVE  Addressed'
  BY <1>5 DEF AddPush
<1>6. ASSUME NEW t \in Thread, AddStamp(t)
      PROVE  Addressed'
  BY <1>6 DEF AddStamp
<1>7. ASSUME NEW t \in Thread, AddInsert(t)
      PROVE  Addressed'
  BY <1>7 DEF AddInsert
<1>8. ASSUME NEW t \in Thread, AddInsertFails(t)
      PROVE  Addressed'
  BY <1>8 DEF AddInsertFails
<1>9. ASSUME NEW t \in Thread, AddUpdate(t)
      PROVE  Addressed'
  BY <1>9 DEF AddUpdate
<1>10. ASSUME NEW t \in Thread, DeleteMessages(t)
      PROVE  Addressed'
  BY <1>10 DEF DeleteMessages
<1>11. ASSUME NEW t \in Thread, DeleteRow(t)
      PROVE  Addressed'
  BY <1>11 DEF DeleteRow
<1>12. ASSUME NEW t \in Thread, ClearRows(t)
      PROVE  Addressed'
  BY <1>12 DEF ClearRows
<1>13. ASSUME NEW t \in Thread, EraseAll(t)
      PROVE  Addressed'
  BY <1>13 DEF EraseAll
<1>14. ASSUME NEW t \in Thread, NEW s \in Sid, Create(t, s)
      PROVE  Addressed'
  BY <1>14 DEF Create
<1>15. ASSUME NEW t \in Thread, NEW s \in Sid, GetMiss(t, s)
      PROVE  Addressed'
  BY <1>15 DEF GetMiss
<1>16. ASSUME NEW t \in Thread, NEW s \in Sid, Erase(t, s)
      PROVE  Addressed'
  BY <1>16 DEF Erase
<1>17. ASSUME NEW t \in Thread, NEW s \in Sid, NEW m \in Mid,
             Compose(t, s, m)
      PROVE  Addressed'
  <2>1. \A r \in acked : r.id \in Mid
    BY DEF Message
  <2> QED
    BY <1>17, <2>1, NoSidAssumption DEF Compose
<1>18. ASSUME Tick
      PROVE  Addressed'
  BY <1>18 DEF Tick
<1>19. ASSUME Restart
      PROVE  Addressed'
  BY <1>19 DEF Restart
<1> QED
  BY <1>1, <1>2, <1>3, <1>4, <1>5, <1>6, <1>7, <1>8, <1>9, <1>10,
     <1>11, <1>12, <1>13, <1>14, <1>15, <1>16, <1>17, <1>18, <1>19
  DEF Next, Proceed

\* Whatever is inserted for a session in the map was pushed there before.
LEMMA ServedStep ==
  ASSUME IInv, Next
  PROVE  DurableIsServed'
<1> USE DEF IInv, Call, Return, Goto, memory, disk, calls, time, past,
           TypeOK, Calling, Unborn, Pushed, DurableIsServed, Step, AddSteps
<1>1. ASSUME NEW t \in Thread, CreateRow(t)
      PROVE  DurableIsServed'
  BY <1>1 DEF CreateRow
<1>2. ASSUME NEW t \in Thread, GetNoRow(t)
      PROVE  DurableIsServed'
  BY <1>2 DEF GetNoRow
<1>3. ASSUME NEW t \in Thread, GetRow(t)
      PROVE  DurableIsServed'
  BY <1>3 DEF GetRow
<1>4. ASSUME NEW t \in Thread, AddUnknown(t)
      PROVE  DurableIsServed'
  BY <1>4 DEF AddUnknown
<1>5. ASSUME NEW t \in Thread, AddPush(t)
      PROVE  DurableIsServed'
  <2>1. sid[t] \in Sid /\ msg[t] \in Message /\ messages[sid[t]] \in Seq(Message)
    BY <1>5 DEF AddPush
  <2>2. \A s \in Sid : ToSet(messages[s]) \subseteq ToSet(messages'[s])
    BY <1>5, <2>1, ToSetAppend DEF AddPush
  <2> QED
    BY <1>5, <2>2 DEF AddPush
<1>6. ASSUME NEW t \in Thread, AddStamp(t)
      PROVE  DurableIsServed'
  BY <1>6 DEF AddStamp
<1>7. ASSUME NEW t \in Thread, AddInsert(t)
      PROVE  DurableIsServed'
  <2>1. sid[t] \in Sid /\ msg[t] \in Message /\ table[sid[t]] \in Seq(Message)
    BY <1>7 DEF AddInsert
  <2>2. \A s \in Sid : ToSet(table'[s]) \subseteq
           IF s = sid[t] THEN ToSet(table[s]) \cup {msg[t]} ELSE ToSet(table[s])
    BY <1>7, <2>1, ToSetAppend DEF AddInsert
  <2>3. sid[t] \in cached => msg[t] \in ToSet(messages[sid[t]])
    BY <1>7 DEF AddInsert
  <2>4. ASSUME NEW s \in cached PROVE ToSet(table'[s]) \subseteq ToSet(messages[s])
    <3>1. ToSet(table[s]) \subseteq ToSet(messages[s])
      OBVIOUS
    <3> QED
      BY <2>2, <2>3, <3>1
  <2> QED
    BY <1>7, <2>4 DEF AddInsert
<1>8. ASSUME NEW t \in Thread, AddInsertFails(t)
      PROVE  DurableIsServed'
  BY <1>8 DEF AddInsertFails
<1>9. ASSUME NEW t \in Thread, AddUpdate(t)
      PROVE  DurableIsServed'
  BY <1>9 DEF AddUpdate
<1>10. ASSUME NEW t \in Thread, DeleteMessages(t)
      PROVE  DurableIsServed'
  <2>1. \A s \in Sid : ToSet(table'[s]) \subseteq ToSet(table[s])
    BY <1>10, ToSetEmpty DEF DeleteMessages
  <2> QED
    BY <1>10, <2>1 DEF DeleteMessages
<1>11. ASSUME NEW t \in Thread, DeleteRow(t)
      PROVE  DurableIsServed'
  BY <1>11 DEF DeleteRow
<1>12. ASSUME NEW t \in Thread, ClearRows(t)
      PROVE  DurableIsServed'
  BY <1>12 DEF ClearRows
<1>13. ASSUME NEW t \in Thread, EraseAll(t)
      PROVE  DurableIsServed'
  BY <1>13 DEF EraseAll
<1>14. ASSUME NEW t \in Thread, NEW s \in Sid, Create(t, s)
      PROVE  DurableIsServed'
  <2>1. ToSet(table[s]) = {}
    BY <1>14, ToSetEmpty DEF Create
  <2> QED
    BY <1>14, <2>1 DEF Create
<1>15. ASSUME NEW t \in Thread, NEW s \in Sid, GetMiss(t, s)
      PROVE  DurableIsServed'
  BY <1>15 DEF GetMiss
<1>16. ASSUME NEW t \in Thread, NEW s \in Sid, Erase(t, s)
      PROVE  DurableIsServed'
  BY <1>16 DEF Erase
<1>17. ASSUME NEW t \in Thread, NEW s \in Sid, NEW m \in Mid,
             Compose(t, s, m)
      PROVE  DurableIsServed'
  BY <1>17 DEF Compose
<1>18. ASSUME Tick
      PROVE  DurableIsServed'
  BY <1>18 DEF Tick
<1>19. ASSUME Restart
      PROVE  DurableIsServed'
  <2>1. \A s \in Sid : s \in rows => ToSet(messages'[s]) = ToSet(table[s])
    BY <1>19, Reload DEF Restart
  <2> QED
    BY <1>19, <2>1 DEF Restart
<1> QED
  BY <1>1, <1>2, <1>3, <1>4, <1>5, <1>6, <1>7, <1>8, <1>9, <1>10,
     <1>11, <1>12, <1>13, <1>14, <1>15, <1>16, <1>17, <1>18, <1>19
  DEF Next, Proceed

\* What is served are messages.
LEMMA ServedAreMessages ==
  TypeOK => \A s \in Sid : ToSet(messages[s]) \subseteq Message
  BY LenProperties DEF TypeOK, ToSet

\* A message leaves addMessage by being inserted or by being refused.
LEMMA UnsavedStep ==
  ASSUME IInv, Next
  PROVE  UnsavedIsBeingWritten'
<1> USE DEF IInv, Call, Return, Goto, memory, disk, calls, time, past,
           TypeOK, Calling, Unborn, Deleting, UnsavedIsBeingWritten, Step, AddSteps
<1>1. ASSUME NEW t \in Thread, CreateRow(t)
      PROVE  UnsavedIsBeingWritten'
  <2>1. \A s \in Sid, r \in Message : BeingWritten(s, r) => BeingWritten(s, r)'
    BY <1>1 DEF CreateRow, BeingWritten
  <2> QED
    BY <1>1, <2>1, ServedAreMessages DEF CreateRow
<1>2. ASSUME NEW t \in Thread, GetNoRow(t)
      PROVE  UnsavedIsBeingWritten'
  <2>1. \A s \in Sid, r \in Message : BeingWritten(s, r) => BeingWritten(s, r)'
    BY <1>2 DEF GetNoRow, BeingWritten
  <2> QED
    BY <1>2, <2>1, ServedAreMessages DEF GetNoRow
<1>3. ASSUME NEW t \in Thread, GetRow(t)
      PROVE  UnsavedIsBeingWritten'
  <2>1. \A s \in Sid, r \in Message : BeingWritten(s, r) => BeingWritten(s, r)'
    BY <1>3 DEF GetRow, BeingWritten
  <2> QED
    BY <1>3, <2>1, ServedAreMessages DEF GetRow
<1>4. ASSUME NEW t \in Thread, AddUnknown(t)
      PROVE  UnsavedIsBeingWritten'
  <2>1. \A s \in Sid, r \in Message : BeingWritten(s, r) => BeingWritten(s, r)'
    BY <1>4 DEF AddUnknown, BeingWritten
  <2> QED
    BY <1>4, <2>1, ServedAreMessages DEF AddUnknown
<1>5. ASSUME NEW t \in Thread, AddPush(t)
      PROVE  UnsavedIsBeingWritten'
  <2>1. sid[t] \in Sid /\ msg[t] \in Message /\ messages[sid[t]] \in Seq(Message)
    BY <1>5 DEF AddPush
  <2>2. \A s \in Sid : ToSet(messages'[s]) \subseteq
           IF s = sid[t] THEN ToSet(messages[s]) \cup {msg[t]} ELSE ToSet(messages[s])
    BY <1>5, <2>1, ToSetAppend DEF AddPush
  <2>3. \A s \in Sid, r \in Message : BeingWritten(s, r) => BeingWritten(s, r)'
    BY <1>5 DEF AddPush, BeingWritten
  <2>4. \A s \in Sid, r \in Message :
           s = sid[t] /\ r = msg[t] => BeingWritten(s, r)'
    BY <1>5 DEF AddPush, BeingWritten
  <2>5. \A s \in Sid : ToSet(messages[s]) \subseteq Message
    BY ServedAreMessages
  <2>6. ASSUME NEW s \in cached, NEW r \in ToSet(messages'[s]), r \notin ToSet(table[s])
        PROVE  r \in failed \/ BeingWritten(s, r)'
    <3>1. CASE s = sid[t] /\ r = msg[t]
      BY <2>1, <2>4, <3>1
    <3>2. CASE r \in ToSet(messages[s])
      BY <2>3, <2>5, <2>6, <3>2
    <3>3. s \in Sid /\ r \in ToSet(messages'[s])
      BY <2>6
    <3>4. r \in ToSet(messages[s]) \/ (s = sid[t] /\ r = msg[t])
      BY <2>2, <3>3
    <3> QED
      BY <3>1, <3>2, <3>4
  <2> QED
    BY <1>5, <2>6 DEF AddPush
<1>6. ASSUME NEW t \in Thread, AddStamp(t)
      PROVE  UnsavedIsBeingWritten'
  <2>1. \A s \in Sid, r \in Message : BeingWritten(s, r) => BeingWritten(s, r)'
    BY <1>6 DEF AddStamp, BeingWritten
  <2> QED
    BY <1>6, <2>1, ServedAreMessages DEF AddStamp
<1>7. ASSUME NEW t \in Thread, AddInsert(t)
      PROVE  UnsavedIsBeingWritten'
  <2>1. sid[t] \in Sid /\ msg[t] \in Message /\ table[sid[t]] \in Seq(Message)
    BY <1>7 DEF AddInsert
  <2>2. \A s \in Sid : ToSet(table[s]) \subseteq ToSet(table'[s])
    BY <1>7, <2>1, ToSetAppend DEF AddInsert
  <2>3. msg[t] \in ToSet(table'[sid[t]])
    BY <1>7, <2>1, ToSetAppend DEF AddInsert
  <2>4. \A s \in Sid, r \in Message : BeingWritten(s, r) =>
           BeingWritten(s, r)' \/ (s = sid[t] /\ r = msg[t])
    BY <1>7 DEF AddInsert, BeingWritten
  <2>5. \A s \in Sid : ToSet(messages[s]) \subseteq Message
    BY ServedAreMessages
  <2>6. ASSUME NEW s \in cached, NEW r \in ToSet(messages[s]), r \notin ToSet(table'[s])
        PROVE  r \in failed \/ BeingWritten(s, r)'
    <3>1. r \notin ToSet(table[s]) /\ r \in Message
      BY <2>2, <2>5, <2>6
    <3>2. ~(s = sid[t] /\ r = msg[t])
      BY <2>3, <2>6
    <3> QED
      BY <2>4, <3>1, <3>2
  <2> QED
    BY <1>7, <2>6 DEF AddInsert
<1>8. ASSUME NEW t \in Thread, AddInsertFails(t)
      PROVE  UnsavedIsBeingWritten'
  <2>1. \A s \in Sid, r \in Message :
           BeingWritten(s, r) => BeingWritten(s, r)' \/ r = msg[t]
    BY <1>8 DEF AddInsertFails, BeingWritten
  <2> QED
    BY <1>8, <2>1, ServedAreMessages DEF AddInsertFails
<1>9. ASSUME NEW t \in Thread, AddUpdate(t)
      PROVE  UnsavedIsBeingWritten'
  <2>1. \A s \in Sid, r \in Message : BeingWritten(s, r) => BeingWritten(s, r)'
    BY <1>9 DEF AddUpdate, BeingWritten
  <2> QED
    BY <1>9, <2>1, ServedAreMessages DEF AddUpdate
<1>10. ASSUME NEW t \in Thread, DeleteMessages(t)
      PROVE  UnsavedIsBeingWritten'
  <2>1. \A s \in Sid, r \in Message : BeingWritten(s, r) => BeingWritten(s, r)'
    BY <1>10 DEF DeleteMessages, BeingWritten
  <2>2. \A s \in Sid : ToSet(messages[s]) \subseteq Message
    BY ServedAreMessages
  <2>3. sid[t] \notin cached /\ sid[t] \in Sid
    BY <1>10 DEF DeleteMessages
  <2>4. \A s \in Sid : s # sid[t] => table'[s] = table[s]
    BY <1>10 DEF DeleteMessages
  <2> QED
    BY <1>10, <2>1, <2>2, <2>3, <2>4 DEF DeleteMessages
<1>11. ASSUME NEW t \in Thread, DeleteRow(t)
      PROVE  UnsavedIsBeingWritten'
  <2>1. \A s \in Sid, r \in Message : BeingWritten(s, r) => BeingWritten(s, r)'
    BY <1>11 DEF DeleteRow, BeingWritten
  <2> QED
    BY <1>11, <2>1, ServedAreMessages DEF DeleteRow
<1>12. ASSUME NEW t \in Thread, ClearRows(t)
      PROVE  UnsavedIsBeingWritten'
  <2>1. \A s \in Sid, r \in Message : BeingWritten(s, r) => BeingWritten(s, r)'
    BY <1>12 DEF ClearRows, BeingWritten
  <2> QED
    BY <1>12, <2>1, ServedAreMessages DEF ClearRows
<1>13. ASSUME NEW t \in Thread, EraseAll(t)
      PROVE  UnsavedIsBeingWritten'
  <2>1. \A s \in Sid, r \in Message : BeingWritten(s, r) => BeingWritten(s, r)'
    BY <1>13 DEF EraseAll, BeingWritten
  <2> QED
    BY <1>13, <2>1, ServedAreMessages DEF EraseAll
<1>14. ASSUME NEW t \in Thread, NEW s \in Sid, Create(t, s)
      PROVE  UnsavedIsBeingWritten'
  <2>1. \A q \in Sid, r \in Message : BeingWritten(q, r) => BeingWritten(q, r)'
    BY <1>14 DEF Create, BeingWritten
  <2>2. \A q \in Sid : ToSet(messages[q]) \subseteq Message
    BY ServedAreMessages
  <2>3. messages'[s] = <<>>
    BY <1>14 DEF Create
  <2> QED
    BY <1>14, <2>1, <2>2, <2>3, ToSetEmpty DEF Create
<1>15. ASSUME NEW t \in Thread, NEW s \in Sid, GetMiss(t, s)
      PROVE  UnsavedIsBeingWritten'
  <2>1. \A q \in Sid, r \in Message : BeingWritten(q, r) => BeingWritten(q, r)'
    BY <1>15 DEF GetMiss, BeingWritten
  <2> QED
    BY <1>15, <2>1, ServedAreMessages DEF GetMiss
<1>16. ASSUME NEW t \in Thread, NEW s \in Sid, Erase(t, s)
      PROVE  UnsavedIsBeingWritten'
  <2>1. \A q \in Sid, r \in Message : BeingWritten(q, r) => BeingWritten(q, r)'
    BY <1>16 DEF Erase, BeingWritten
  <2> QED
    BY <1>16, <2>1, ServedAreMessages DEF Erase
<1>17. ASSUME NEW t \in Thread, NEW s \in Sid, NEW m \in Mid,
             Compose(t, s, m)
      PROVE  UnsavedIsBeingWritten'
  <2>1. \A q \in Sid, r \in Message : BeingWritten(q, r) => BeingWritten(q, r)'
    BY <1>17 DEF Compose, BeingWritten
  <2> QED
    BY <1>17, <2>1, ServedAreMessages DEF Compose
<1>18. ASSUME Tick
      PROVE  UnsavedIsBeingWritten'
  <2>1. \A s \in Sid, r \in Message : BeingWritten(s, r) => BeingWritten(s, r)'
    BY <1>18 DEF Tick, BeingWritten
  <2> QED
    BY <1>18, <2>1, ServedAreMessages DEF Tick
<1>19. ASSUME Restart
      PROVE  UnsavedIsBeingWritten'
  <2>1. \A s \in Sid : s \in rows => ToSet(messages'[s]) = ToSet(table[s])
    BY <1>19, Reload DEF Restart
  <2> QED
    BY <1>19, <2>1 DEF Restart
<1> QED
  BY <1>1, <1>2, <1>3, <1>4, <1>5, <1>6, <1>7, <1>8, <1>9, <1>10,
     <1>11, <1>12, <1>13, <1>14, <1>15, <1>16, <1>17, <1>18, <1>19
  DEF Next, Proceed

\* Rows of a session that lives are never deleted.
LEMMA AckedStep ==
  ASSUME IInv, Next
  PROVE  AckedSurvives'
<1> USE DEF IInv, Call, Return, Goto, memory, disk, calls, time, past,
           TypeOK, Calling, Pushed, Unborn, Deleting, Addressed, AckedSurvives, Step, AddSteps
<1>1. ASSUME NEW t \in Thread, CreateRow(t)
      PROVE  AckedSurvives'
  BY <1>1 DEF CreateRow
<1>2. ASSUME NEW t \in Thread, GetNoRow(t)
      PROVE  AckedSurvives'
  BY <1>2 DEF GetNoRow
<1>3. ASSUME NEW t \in Thread, GetRow(t)
      PROVE  AckedSurvives'
  BY <1>3 DEF GetRow
<1>4. ASSUME NEW t \in Thread, AddUnknown(t)
      PROVE  AckedSurvives'
  BY <1>4 DEF AddUnknown
<1>5. ASSUME NEW t \in Thread, AddPush(t)
      PROVE  AckedSurvives'
  BY <1>5 DEF AddPush
<1>6. ASSUME NEW t \in Thread, AddStamp(t)
      PROVE  AckedSurvives'
  BY <1>6 DEF AddStamp
<1>7. ASSUME NEW t \in Thread, AddInsert(t)
      PROVE  AckedSurvives'
  <2>1. sid[t] \in Sid /\ msg[t] \in Message /\ table[sid[t]] \in Seq(Message)
    BY <1>7 DEF AddInsert
  <2>2. \A s \in Sid : ToSet(table[s]) \subseteq ToSet(table'[s])
    BY <1>7, <2>1, ToSetAppend DEF AddInsert
  <2> QED
    BY <1>7, <2>2 DEF AddInsert
<1>8. ASSUME NEW t \in Thread, AddInsertFails(t)
      PROVE  AckedSurvives'
  BY <1>8 DEF AddInsertFails
<1>9. ASSUME NEW t \in Thread, AddUpdate(t)
      PROVE  AckedSurvives'
  BY <1>9 DEF AddUpdate
<1>10. ASSUME NEW t \in Thread, DeleteMessages(t)
      PROVE  AckedSurvives'
  <2>1. sid[t] \in Sid /\ life[sid[t]] # "live"
    BY <1>10 DEF DeleteMessages
  <2>2. \A s \in Sid : s # sid[t] => table'[s] = table[s]
    BY <1>10 DEF DeleteMessages
  <2> QED
    BY <1>10, <2>1, <2>2 DEF DeleteMessages
<1>11. ASSUME NEW t \in Thread, DeleteRow(t)
      PROVE  AckedSurvives'
  BY <1>11 DEF DeleteRow
<1>12. ASSUME NEW t \in Thread, ClearRows(t)
      PROVE  AckedSurvives'
  BY <1>12 DEF ClearRows
<1>13. ASSUME NEW t \in Thread, EraseAll(t)
      PROVE  AckedSurvives'
  BY <1>13 DEF EraseAll
<1>14. ASSUME NEW t \in Thread, NEW s \in Sid, Create(t, s)
      PROVE  AckedSurvives'
  <2>1. \A r \in acked : home[r.id] # s
    BY <1>14 DEF Create
  <2> QED
    BY <1>14, <2>1 DEF Create
<1>15. ASSUME NEW t \in Thread, NEW s \in Sid, GetMiss(t, s)
      PROVE  AckedSurvives'
  BY <1>15 DEF GetMiss
<1>16. ASSUME NEW t \in Thread, NEW s \in Sid, Erase(t, s)
      PROVE  AckedSurvives'
  BY <1>16 DEF Erase
<1>17. ASSUME NEW t \in Thread, NEW s \in Sid, NEW m \in Mid,
             Compose(t, s, m)
      PROVE  AckedSurvives'
  <2>1. \A r \in acked : r.id \in Mid /\ r.id # m
    BY <1>17, NoSidAssumption DEF Compose, Message
  <2>2. \A r \in acked : home'[r.id] = home[r.id]
    BY <1>17, <2>1 DEF Compose
  <2> QED
    BY <1>17, <2>2 DEF Compose
<1>18. ASSUME Tick
      PROVE  AckedSurvives'
  BY <1>18 DEF Tick
<1>19. ASSUME Restart
      PROVE  AckedSurvives'
  BY <1>19 DEF Restart
<1> QED
  BY <1>1, <1>2, <1>3, <1>4, <1>5, <1>6, <1>7, <1>8, <1>9, <1>10,
     <1>11, <1>12, <1>13, <1>14, <1>15, <1>16, <1>17, <1>18, <1>19
  DEF Next, Proceed


-----------------------------------------------------------------------------
(* The theorems *)

\* The invariant holds at the start.
LEMMA InitInvariant == Init => IInv
<1> SUFFICES ASSUME Init PROVE IInv
  OBVIOUS
<1>1. TypeOK
  BY MessageType, EmptySeq, BoundAssumption DEF Init, TypeOK, Step
<1> QED
  BY <1>1, ToSetEmpty, NoThreadAssumption
  DEF Init, IInv, Calling, Holding, Unborn, Pushed, Deleting, Addressed, AddSteps,
      DurableIsServed, UnsavedIsBeingWritten, AckedSurvives

\* Every step keeps it.
LEMMA NextInvariant == IInv /\ [Next]_vars => IInv'
<1> SUFFICES ASSUME IInv, [Next]_vars PROVE IInv'
  OBVIOUS
<1>1. CASE Next
  BY <1>1, TypeStep, CallingStep, HoldingStep, UnbornStep, PushedStep, DeletingStep,
     AddressedStep, ServedStep, UnsavedStep, AckedStep DEF IInv
<1>2. CASE UNCHANGED vars
  <2>1. UNCHANGED <<memory, disk, dmHolder, calls, time, past>>
    BY <1>2 DEF vars
  <2> USE <2>1 DEF IInv, memory, disk, calls, time, past
  <2>2. TypeOK'
    BY DEF TypeOK
  <2>3. Calling' /\ Holding' /\ Unborn' /\ Pushed' /\ Deleting' /\ Addressed'
    BY DEF Calling, Holding, Unborn, Pushed, Deleting, Addressed
  <2>4. DurableIsServed' /\ AckedSurvives'
    BY DEF DurableIsServed, AckedSurvives
  <2>5. UnsavedIsBeingWritten'
    BY DEF UnsavedIsBeingWritten, BeingWritten
  <2> QED
    BY <2>2, <2>3, <2>4, <2>5
<1> QED
  BY <1>1, <1>2

\* IInv is an invariant of the session store, for any callers, ids and
\* interleaving, with refused writes and crashes.
THEOREM Invariance == Spec => []IInv
  BY InitInvariant, NextInvariant, PTL DEF Spec

\* Every variable keeps its type.
THEOREM TypeCorrect == Spec => []TypeOK
<1>1. IInv => TypeOK
  BY DEF IInv
<1> QED
  BY <1>1, Invariance, PTL

\* What is on disk of a session that is served is served.
THEOREM ServedCorrect == Spec => []DurableIsServed
<1>1. IInv => DurableIsServed
  BY DEF IInv
<1> QED
  BY <1>1, Invariance, PTL

\* What is served and not on disk is being written or was refused by SQLite.
THEOREM UnsavedCorrect == Spec => []UnsavedIsBeingWritten
<1>1. IInv => UnsavedIsBeingWritten
  BY DEF IInv
<1> QED
  BY <1>1, Invariance, PTL

\* The conversation a session serves and the one on disk differ only by what is
\* being written at this moment or was refused.
THEOREM MemoryCorrect == Spec => []MemoryAgreesWithDisk
BY ServedCorrect, UnsavedCorrect, PTL DEF MemoryAgreesWithDisk

\* An acknowledged message survives every crash of the process.
THEOREM AckedCorrect == Spec => []AckedSurvives
<1>1. IInv => AckedSurvives
  BY DEF IInv
<1> QED
  BY <1>1, Invariance, PTL

\* No call of any thread returns an erased id to the map.
THEOREM EraseCorrect == Spec => EraseIsFinal
<1> DEFINE A == restarts' = restarts =>
       \A s \in Sid : life[s] # "unborn" /\ s \notin cached => s \notin cached'
<1>1. TypeOK /\ [Next]_vars => A
  <2> SUFFICES ASSUME TypeOK, [Next]_vars, restarts' = restarts,
                      NEW s \in Sid, life[s] # "unborn", s \notin cached
               PROVE  s \notin cached'
    OBVIOUS
  <2>1. ASSUME NEW t \in Thread, Proceed(t) \/ EraseAll(t)
        PROVE  s \notin cached'
    BY <2>1 DEF Proceed, CreateRow, GetNoRow, GetRow, AddUnknown, AddPush, AddStamp,
       AddInsert, AddInsertFails, AddUpdate, DeleteMessages, DeleteRow, ClearRows,
       EraseAll, memory
  <2>2. ASSUME NEW t \in Thread, NEW q \in Sid, Create(t, q)
        PROVE  s \notin cached'
    BY <2>2 DEF Create
  <2>3. ASSUME NEW t \in Thread, NEW q \in Sid, GetMiss(t, q) \/ Erase(t, q)
        PROVE  s \notin cached'
    BY <2>3 DEF GetMiss, Erase, memory
  <2>4. ASSUME NEW t \in Thread, NEW q \in Sid, NEW m \in Mid, Compose(t, q, m)
        PROVE  s \notin cached'
    BY <2>4 DEF Compose, memory
  <2>5. CASE Tick
    BY <2>5 DEF Tick, memory
  <2>6. CASE Restart
    BY <2>6 DEF Restart, TypeOK
  <2>7. CASE UNCHANGED vars
    BY <2>7 DEF vars, memory
  <2> QED
    BY <2>1, <2>2, <2>3, <2>4, <2>5, <2>6, <2>7 DEF Next
<1> QED
  BY <1>1, TypeCorrect, PTL DEF Spec, EraseIsFinal

\* While a getSession waits for itself it holds the mutex, so no other thread
\* begins a statement, and none was half way through insertMessage.
THEOREM HungCorrect == Spec => HungStoreIsFrozen
<1> DEFINE A == (\E t \in Thread : pc[t] = "get_nested") => UNCHANGED disk
<1>1. IInv /\ [Next]_vars => A
  <2> SUFFICES ASSUME IInv, [Next]_vars, NEW h \in Thread, pc[h] = "get_nested"
               PROVE  UNCHANGED disk
    OBVIOUS
  <2>1. dmHolder = h /\ dmHolder # NoThread
    BY NoThreadAssumption DEF IInv, Holding
  <2>2. \A t \in Thread : pc[t] # "add_update"
    BY <2>1 DEF IInv, Holding
  <2>3. ASSUME NEW t \in Thread, Proceed(t) \/ EraseAll(t)
        PROVE  UNCHANGED disk
    BY <2>1, <2>2, <2>3 DEF Proceed, CreateRow, GetNoRow, GetRow, AddUnknown, AddPush,
       AddStamp, AddInsert, AddInsertFails, AddUpdate, DeleteMessages, DeleteRow,
       ClearRows, EraseAll, disk
  <2>4. ASSUME NEW t \in Thread, NEW q \in Sid,
               Create(t, q) \/ GetMiss(t, q) \/ Erase(t, q)
        PROVE  UNCHANGED disk
    BY <2>4 DEF Create, GetMiss, Erase
  <2>5. ASSUME NEW t \in Thread, NEW q \in Sid, NEW m \in Mid, Compose(t, q, m)
        PROVE  UNCHANGED disk
    BY <2>5 DEF Compose
  <2>6. CASE Tick \/ Restart
    BY <2>6 DEF Tick, Restart
  <2>7. CASE UNCHANGED vars
    BY <2>7 DEF vars
  <2> QED
    BY <2>3, <2>4, <2>5, <2>6, <2>7 DEF Next
<1> QED
  BY <1>1, Invariance, PTL DEF Spec, HungStoreIsFrozen

-----------------------------------------------------------------------------
(* One caller per session: the invariant *)

\* The code's assumptions about its callers, and about SQLite.
Disciplined == SerialClients /\ ~WritesMayFail

\* No other thread is in a call about the same session, or clears while any is.
Alone ==
    /\ \A t \in Thread : pc[t] \in {"idle", "clear_rows"} => sid[t] = NoSid
    /\ \A t, u \in Thread : t # u =>
          /\ sid[t] # NoSid => sid[u] # sid[t]
          /\ pc[t] = "clear_rows" => pc[u] = "idle"

\* Memory and disk have the same of session s.
Same(s) ==
    /\ s \in rows <=> s \in cached
    /\ s \in cached => table[s] = messages[s] /\ updateTime[s] = updatedAt[s]

Settled == \A s \in Sid : Quiet(s) => Same(s)

\* Where a caller stands in its call says by how much they differ.
Steps ==
    \A t \in Thread :
        /\ pc[t] = "create_row" =>
              /\ sid[t] \in cached /\ sid[t] \notin rows
              /\ messages[sid[t]] = <<>> /\ table[sid[t]] = <<>>
        /\ pc[t] = "get_row" => sid[t] \notin cached /\ sid[t] \notin rows
        /\ pc[t] # "get_nested"
        /\ pc[t] = "add" => Same(sid[t])
        /\ pc[t] \in {"add_stamp", "add_insert"} =>
              /\ sid[t] \in cached /\ sid[t] \in rows
              /\ messages[sid[t]] = Append(table[sid[t]], msg[t])
        /\ pc[t] = "add_update" =>
              /\ sid[t] \in cached /\ sid[t] \in rows
              /\ messages[sid[t]] = table[sid[t]]
        /\ pc[t] \in {"add_insert", "add_update"} => updatedAt[sid[t]] = msg[t].ts
        /\ pc[t] \in {"del_msgs", "del_row"} => sid[t] \notin cached /\ sid[t] \in rows
        /\ pc[t] = "del_row" => table[sid[t]] = <<>>
        /\ pc[t] = "clear_rows" => cached = {}

\* Rows are inserted in the order of their times.
Timely ==
    /\ \A s \in Sid : InTimeOrder(table[s]) /\ \A r \in ToSet(table[s]) : r.ts <= clock
    /\ \A t \in Thread :
          /\ pc[t] \in AddSteps => msg[t].ts <= clock
          /\ pc[t] \in {"add", "add_stamp", "add_insert"} =>
                \A r \in ToSet(table[sid[t]]) : r.ts <= msg[t].ts

\* A deleted session is nowhere.
Deleted ==
    \A s \in Sid : life[s] = "gone" => s \notin rows /\ s \notin cached /\ table[s] = <<>>

SerialInv == IInv /\ Alone /\ Settled /\ Steps /\ Timely /\ Deleted

-----------------------------------------------------------------------------
(* Sequences of messages *)

\* What was appended is last, and what is before it is what there was.
LEMMA LastOfAppend ==
  ASSUME NEW R, NEW q \in Seq(R), NEW e \in R
  PROVE  Append(q, e) # <<>> /\ Last(Append(q, e)) = e /\ Front(Append(q, e)) = q
<1>1. /\ Append(q, e) \in Seq(R) /\ Len(Append(q, e)) = Len(q) + 1 /\ Len(q) \in Nat
      /\ \A i \in 1..Len(q) : Append(q, e)[i] = q[i]
      /\ Append(q, e)[Len(q) + 1] = e
  BY AppendProperties, LenProperties
<1>2. Append(q, e) # <<>> /\ Last(Append(q, e)) = e
  BY <1>1 DEF Last
<1>3. Front(Append(q, e)) = SubSeq(Append(q, e), 1, Len(q))
  BY <1>1 DEF Front
<1> QED
  BY <1>1, <1>2, <1>3

\* A row that is no older than the others may follow them.
LEMMA InOrderAppend ==
  ASSUME NEW q \in Seq(Message), NEW e \in Message, InTimeOrder(q),
         \A r \in ToSet(q) : r.ts <= e.ts
  PROVE  InTimeOrder(Append(q, e))
<1>1. /\ DOMAIN Append(q, e) = 1..(Len(q) + 1) /\ DOMAIN q = 1..Len(q) /\ Len(q) \in Nat
      /\ \A i \in 1..Len(q) : Append(q, e)[i] = q[i]
      /\ Append(q, e)[Len(q) + 1] = e
  BY AppendProperties, LenProperties
<1>2. \A i \in 1..Len(q) : q[i] \in ToSet(q)
  BY <1>1 DEF ToSet
<1>3. e.ts \in Nat
  BY MessageType
<1>4. ASSUME NEW i \in 1..(Len(q) + 1), NEW j \in 1..(Len(q) + 1), i <= j
      PROVE  Append(q, e)[i].ts <= Append(q, e)[j].ts
  <2>1. CASE j \in 1..Len(q)
    BY <1>1, <1>4, <2>1 DEF InTimeOrder
  <2>2. CASE j = Len(q) + 1 /\ i \in 1..Len(q)
    BY <1>1, <1>2, <2>2
  <2>3. CASE j = Len(q) + 1 /\ i = Len(q) + 1
    BY <1>1, <1>3, <2>3
  <2> QED
    BY <1>1, <1>4, <2>1, <2>2, <2>3
<1> QED
  BY <1>1, <1>4 DEF InTimeOrder

\* What is loaded is what was inserted.
LEMMA LoadedInOrder ==
  ASSUME TypeOK, Timely, NEW s \in Sid
  PROVE  LoadOrder(table[s]) = table[s]
BY LoadOrderInTimeOrder, MessageType DEF TypeOK, Timely

\* What is on disk are messages.
LEMMA StoredAreMessages ==
  TypeOK => \A s \in Sid : ToSet(table[s]) \subseteq Message
BY LenProperties DEF TypeOK, ToSet

-----------------------------------------------------------------------------
(* One caller per session: each part of the invariant is preserved *)

\* A call starts only while no other is about its session.
LEMMA AloneStep ==
  ASSUME Disciplined, SerialInv, Next
  PROVE  Alone'
<1> USE DEF SerialInv, IInv, Disciplined, Call, Return, Goto, memory, disk, calls, time, past,
           TypeOK, Step, Calling, AddSteps, Alone, MayUse, MayUseAll
<1>1. ASSUME NEW t \in Thread, CreateRow(t)
      PROVE  Alone'
  BY <1>1, NoSidAssumption DEF CreateRow
<1>2. ASSUME NEW t \in Thread, GetNoRow(t)
      PROVE  Alone'
  BY <1>2, NoSidAssumption DEF GetNoRow
<1>3. ASSUME NEW t \in Thread, GetRow(t)
      PROVE  Alone'
  BY <1>3, NoSidAssumption DEF GetRow
<1>4. ASSUME NEW t \in Thread, AddUnknown(t)
      PROVE  Alone'
  BY <1>4, NoSidAssumption DEF AddUnknown
<1>5. ASSUME NEW t \in Thread, AddPush(t)
      PROVE  Alone'
  BY <1>5, NoSidAssumption DEF AddPush
<1>6. ASSUME NEW t \in Thread, AddStamp(t)
      PROVE  Alone'
  BY <1>6, NoSidAssumption DEF AddStamp
<1>7. ASSUME NEW t \in Thread, AddInsert(t)
      PROVE  Alone'
  BY <1>7, NoSidAssumption DEF AddInsert
<1>8. ASSUME NEW t \in Thread, AddInsertFails(t)
      PROVE  Alone'
  BY <1>8, NoSidAssumption DEF AddInsertFails
<1>9. ASSUME NEW t \in Thread, AddUpdate(t)
      PROVE  Alone'
  BY <1>9, NoSidAssumption DEF AddUpdate
<1>10. ASSUME NEW t \in Thread, DeleteMessages(t)
      PROVE  Alone'
  BY <1>10, NoSidAssumption DEF DeleteMessages
<1>11. ASSUME NEW t \in Thread, DeleteRow(t)
      PROVE  Alone'
  BY <1>11, NoSidAssumption DEF DeleteRow
<1>12. ASSUME NEW t \in Thread, ClearRows(t)
      PROVE  Alone'
  BY <1>12, NoSidAssumption DEF ClearRows
<1>13. ASSUME NEW t \in Thread, EraseAll(t)
      PROVE  Alone'
  BY <1>13, NoSidAssumption DEF EraseAll
<1>14. ASSUME NEW t \in Thread, NEW s \in Sid, Create(t, s)
      PROVE  Alone'
  BY <1>14, NoSidAssumption DEF Create
<1>15. ASSUME NEW t \in Thread, NEW s \in Sid, GetMiss(t, s)
      PROVE  Alone'
  BY <1>15, NoSidAssumption DEF GetMiss
<1>16. ASSUME NEW t \in Thread, NEW s \in Sid, Erase(t, s)
      PROVE  Alone'
  BY <1>16, NoSidAssumption DEF Erase
<1>17. ASSUME NEW t \in Thread, NEW s \in Sid, NEW m \in Mid, Compose(t, s, m)
      PROVE  Alone'
  BY <1>17, NoSidAssumption DEF Compose
<1>18. ASSUME Tick
      PROVE  Alone'
  BY <1>18, NoSidAssumption DEF Tick
<1>19. ASSUME Restart
      PROVE  Alone'
  BY <1>19, NoSidAssumption DEF Restart
<1> QED
  BY <1>1, <1>2, <1>3, <1>4, <1>5, <1>6, <1>7, <1>8, <1>9, <1>10, <1>11, <1>12, <1>13, <1>14, <1>15, <1>16, <1>17, <1>18, <1>19 DEF Next, Proceed

\* Only a call about a session in the map writes.
LEMMA DeletedStep ==
  ASSUME Disciplined, SerialInv, Next
  PROVE  Deleted'
<1> USE DEF SerialInv, IInv, Disciplined, Call, Return, Goto, memory, disk, calls, time, past,
           TypeOK, Step, Calling, AddSteps, Deleted, Steps, Unborn, Deleting
<1>1. ASSUME NEW t \in Thread, CreateRow(t)
      PROVE  Deleted'
  BY <1>1, NoSidAssumption DEF CreateRow
<1>2. ASSUME NEW t \in Thread, GetNoRow(t)
      PROVE  Deleted'
  BY <1>2, NoSidAssumption DEF GetNoRow
<1>3. ASSUME NEW t \in Thread, GetRow(t)
      PROVE  Deleted'
  BY <1>3, NoSidAssumption DEF GetRow
<1>4. ASSUME NEW t \in Thread, AddUnknown(t)
      PROVE  Deleted'
  BY <1>4, NoSidAssumption DEF AddUnknown
<1>5. ASSUME NEW t \in Thread, AddPush(t)
      PROVE  Deleted'
  BY <1>5, NoSidAssumption DEF AddPush
<1>6. ASSUME NEW t \in Thread, AddStamp(t)
      PROVE  Deleted'
  BY <1>6, NoSidAssumption DEF AddStamp
<1>7. ASSUME NEW t \in Thread, AddInsert(t)
      PROVE  Deleted'
  BY <1>7, NoSidAssumption DEF AddInsert
<1>8. ASSUME NEW t \in Thread, AddInsertFails(t)
      PROVE  Deleted'
  BY <1>8, NoSidAssumption DEF AddInsertFails
<1>9. ASSUME NEW t \in Thread, AddUpdate(t)
      PROVE  Deleted'
  BY <1>9, NoSidAssumption DEF AddUpdate
<1>10. ASSUME NEW t \in Thread, DeleteMessages(t)
      PROVE  Deleted'
  BY <1>10, NoSidAssumption DEF DeleteMessages
<1>11. ASSUME NEW t \in Thread, DeleteRow(t)
      PROVE  Deleted'
  BY <1>11, NoSidAssumption DEF DeleteRow
<1>12. ASSUME NEW t \in Thread, ClearRows(t)
      PROVE  Deleted'
  BY <1>12, NoSidAssumption DEF ClearRows
<1>13. ASSUME NEW t \in Thread, EraseAll(t)
      PROVE  Deleted'
  BY <1>13, NoSidAssumption DEF EraseAll
<1>14. ASSUME NEW t \in Thread, NEW s \in Sid, Create(t, s)
      PROVE  Deleted'
  BY <1>14, NoSidAssumption DEF Create
<1>15. ASSUME NEW t \in Thread, NEW s \in Sid, GetMiss(t, s)
      PROVE  Deleted'
  BY <1>15, NoSidAssumption DEF GetMiss
<1>16. ASSUME NEW t \in Thread, NEW s \in Sid, Erase(t, s)
      PROVE  Deleted'
  BY <1>16, NoSidAssumption DEF Erase
<1>17. ASSUME NEW t \in Thread, NEW s \in Sid, NEW m \in Mid, Compose(t, s, m)
      PROVE  Deleted'
  BY <1>17, NoSidAssumption DEF Compose
<1>18. ASSUME Tick
      PROVE  Deleted'
  BY <1>18, NoSidAssumption DEF Tick
<1>19. ASSUME Restart
      PROVE  Deleted'
  BY <1>19, NoSidAssumption DEF Restart
<1> QED
  BY <1>1, <1>2, <1>3, <1>4, <1>5, <1>6, <1>7, <1>8, <1>9, <1>10, <1>11, <1>12, <1>13, <1>14, <1>15, <1>16, <1>17, <1>18, <1>19 DEF Next, Proceed

\* Each call leaves its session settled.
LEMMA SettledStep ==
  ASSUME Disciplined, SerialInv, Next
  PROVE  Settled'
<1> USE DEF SerialInv, IInv, Disciplined, Call, Return, Goto, memory, disk, calls, time, past,
           TypeOK, Step, Calling, AddSteps,
           Alone, MayUse, MayUseAll, Settled, Quiet, Same, Steps, Unborn
<1>1. ASSUME NEW t \in Thread, CreateRow(t)
      PROVE  Settled'
  <2> DEFINE s == sid[t]
  <2>1. s \in Sid /\ s \in cached /\ messages[s] = <<>> /\ table[s] = <<>>
    BY <1>1 DEF CreateRow
  <2>2. rows' = rows \cup {s} /\ updateTime' = [updateTime EXCEPT ![s] = updatedAt[s]]
    BY <1>1 DEF CreateRow
  <2>3. UNCHANGED <<cached, messages, updatedAt, table>>
    BY <1>1 DEF CreateRow
  <2>4. ASSUME NEW q \in Sid, q = s PROVE Same(q)'
    BY <2>1, <2>2, <2>3, <2>4
  <2>5. ASSUME NEW q \in Sid, q # s, Quiet(q)' PROVE Same(q)'
    <3>1. Quiet(q)
      BY <2>5, <1>1, NoSidAssumption DEF CreateRow
    <3> QED
      BY <3>1, <2>5, <2>2, <2>3
  <2> QED
    BY <2>4, <2>5
<1>2. ASSUME NEW t \in Thread, GetNoRow(t)
      PROVE  Settled'
  BY <1>2, NoSidAssumption DEF GetNoRow
<1>3. ASSUME NEW t \in Thread, GetRow(t)
      PROVE  Settled'
  BY <1>3, NoSidAssumption DEF GetRow
<1>4. ASSUME NEW t \in Thread, AddUnknown(t)
      PROVE  Settled'
  BY <1>4, NoSidAssumption DEF AddUnknown
<1>5. ASSUME NEW t \in Thread, AddPush(t)
      PROVE  Settled'
  BY <1>5, NoSidAssumption DEF AddPush
<1>6. ASSUME NEW t \in Thread, AddStamp(t)
      PROVE  Settled'
  BY <1>6, NoSidAssumption DEF AddStamp
<1>7. ASSUME NEW t \in Thread, AddInsert(t)
      PROVE  Settled'
  BY <1>7, NoSidAssumption DEF AddInsert
<1>8. ASSUME NEW t \in Thread, AddInsertFails(t)
      PROVE  Settled'
  BY <1>8, NoSidAssumption DEF AddInsertFails
<1>9. ASSUME NEW t \in Thread, AddUpdate(t)
      PROVE  Settled'
  <2> DEFINE s == sid[t]
  <2>1. /\ s \in Sid /\ s \in cached /\ s \in rows /\ messages[s] = table[s]
        /\ updatedAt[s] = msg[t].ts
    BY <1>9 DEF AddUpdate
  <2>2. updateTime' = [updateTime EXCEPT ![s] = msg[t].ts]
    BY <1>9, <2>1 DEF AddUpdate
  <2>3. UNCHANGED <<cached, messages, updatedAt, rows, table>>
    BY <1>9 DEF AddUpdate
  <2>4. ASSUME NEW q \in Sid, q = s PROVE Same(q)'
    BY <2>1, <2>2, <2>3, <2>4
  <2>5. ASSUME NEW q \in Sid, q # s, Quiet(q)' PROVE Same(q)'
    <3>1. Quiet(q)
      BY <2>5, <1>9, NoSidAssumption DEF AddUpdate
    <3> QED
      BY <3>1, <2>5, <2>2, <2>3
  <2> QED
    BY <2>4, <2>5
<1>10. ASSUME NEW t \in Thread, DeleteMessages(t)
      PROVE  Settled'
  BY <1>10, NoSidAssumption DEF DeleteMessages
<1>11. ASSUME NEW t \in Thread, DeleteRow(t)
      PROVE  Settled'
  BY <1>11, NoSidAssumption DEF DeleteRow
<1>12. ASSUME NEW t \in Thread, ClearRows(t)
      PROVE  Settled'
  BY <1>12, NoSidAssumption DEF ClearRows
<1>13. ASSUME NEW t \in Thread, EraseAll(t)
      PROVE  Settled'
  BY <1>13, NoSidAssumption DEF EraseAll
<1>14. ASSUME NEW t \in Thread, NEW s \in Sid, Create(t, s)
      PROVE  Settled'
  BY <1>14, NoSidAssumption DEF Create
<1>15. ASSUME NEW t \in Thread, NEW s \in Sid, GetMiss(t, s)
      PROVE  Settled'
  BY <1>15, NoSidAssumption DEF GetMiss
<1>16. ASSUME NEW t \in Thread, NEW s \in Sid, Erase(t, s)
      PROVE  Settled'
  BY <1>16, NoSidAssumption DEF Erase
<1>17. ASSUME NEW t \in Thread, NEW s \in Sid, NEW m \in Mid, Compose(t, s, m)
      PROVE  Settled'
  BY <1>17, NoSidAssumption DEF Compose
<1>18. ASSUME Tick
      PROVE  Settled'
  BY <1>18, NoSidAssumption DEF Tick
<1>19. ASSUME Restart
      PROVE  Settled'
  <2>1. \A s \in Sid : LoadOrder(table[s]) = table[s]
    BY LoadedInOrder
  <2> QED
    BY <1>19, <2>1 DEF Restart
<1> QED
  BY <1>1, <1>2, <1>3, <1>4, <1>5, <1>6, <1>7, <1>8, <1>9, <1>10, <1>11, <1>12, <1>13, <1>14, <1>15, <1>16, <1>17, <1>18, <1>19 DEF Next, Proceed

\* Nobody comes between the steps of a call.
LEMMA StepsStep ==
  ASSUME Disciplined, SerialInv, Next
  PROVE  Steps'
<1> USE DEF SerialInv, IInv, Disciplined, Call, Return, Goto, memory, disk, calls, time, past,
           TypeOK, Step, Calling, AddSteps,
           Alone, MayUse, MayUseAll, Settled, Quiet, Same, Steps, Unborn
<1>1. ASSUME NEW t \in Thread, CreateRow(t)
      PROVE  Steps'
  BY <1>1, NoSidAssumption DEF CreateRow
<1>2. ASSUME NEW t \in Thread, GetNoRow(t)
      PROVE  Steps'
  BY <1>2, NoSidAssumption DEF GetNoRow
<1>3. ASSUME NEW t \in Thread, GetRow(t)
      PROVE  Steps'
  BY <1>3, NoSidAssumption DEF GetRow
<1>4. ASSUME NEW t \in Thread, AddUnknown(t)
      PROVE  Steps'
  BY <1>4, NoSidAssumption DEF AddUnknown
<1>5. ASSUME NEW t \in Thread, AddPush(t)
      PROVE  Steps'
  BY <1>5, NoSidAssumption DEF AddPush
<1>6. ASSUME NEW t \in Thread, AddStamp(t)
      PROVE  Steps'
  <2>1. sid[t] \in Sid /\ msg[t] \in Message /\ table[sid[t]] \in Seq(Message)
    BY <1>6 DEF AddStamp
  <2>2. Last(messages[sid[t]]) = msg[t]
    <3>1. messages[sid[t]] = Append(table[sid[t]], msg[t])
      BY <1>6 DEF AddStamp
    <3>2. Last(Append(table[sid[t]], msg[t])) = msg[t]
      BY <2>1, LastOfAppend
    <3> QED
      BY <3>1, <3>2
  <2>3. updatedAt' = [updatedAt EXCEPT ![sid[t]] = msg[t].ts]
    BY <1>6, <2>2 DEF AddStamp
  <2> QED
    BY <1>6, <2>1, <2>3, NoSidAssumption DEF AddStamp
<1>7. ASSUME NEW t \in Thread, AddInsert(t)
      PROVE  Steps'
  <2>1. /\ sid[t] \in Sid /\ sid[t] \in cached /\ sid[t] \in rows
        /\ messages[sid[t]] = Append(table[sid[t]], msg[t])
    BY <1>7 DEF AddInsert
  <2>2. table'[sid[t]] = messages[sid[t]]
    BY <1>7, <2>1 DEF AddInsert
  <2>3. \A q \in Sid : q # sid[t] => table'[q] = table[q]
    BY <1>7 DEF AddInsert
  <2>4. \A u \in Thread : u # t => pc'[u] = pc[u] /\ sid[u] # sid[t]
    BY <1>7, <2>1, NoSidAssumption DEF AddInsert
  <2>5. pc'[t] = "add_update" /\ UNCHANGED <<cached, messages, updatedAt, rows, updateTime, sid, msg>>
    BY <1>7 DEF AddInsert
  <2>6. \A u \in Thread : pc[u] \notin {"idle", "clear_rows"} => sid[u] \in Sid
    OBVIOUS
  <2>7. updatedAt[sid[t]] = msg[t].ts
    BY <1>7 DEF AddInsert
  <2>8. \A u \in Thread : u # t /\ pc[u] \notin {"idle", "clear_rows"} => table'[sid[u]] = table[sid[u]]
    BY <2>3, <2>4, <2>6
  <2>9. /\ messages'[sid'[t]] = table'[sid'[t]] /\ sid'[t] \in cached' /\ sid'[t] \in rows'
        /\ updatedAt'[sid'[t]] = msg'[t].ts
    BY <2>1, <2>2, <2>5, <2>7
  <2> QED
    BY <2>4, <2>5, <2>8, <2>9
<1>8. ASSUME NEW t \in Thread, AddInsertFails(t)
      PROVE  Steps'
  BY <1>8, NoSidAssumption DEF AddInsertFails
<1>9. ASSUME NEW t \in Thread, AddUpdate(t)
      PROVE  Steps'
  BY <1>9, NoSidAssumption DEF AddUpdate
<1>10. ASSUME NEW t \in Thread, DeleteMessages(t)
      PROVE  Steps'
  BY <1>10, NoSidAssumption DEF DeleteMessages
<1>11. ASSUME NEW t \in Thread, DeleteRow(t)
      PROVE  Steps'
  BY <1>11, NoSidAssumption DEF DeleteRow
<1>12. ASSUME NEW t \in Thread, ClearRows(t)
      PROVE  Steps'
  BY <1>12, NoSidAssumption DEF ClearRows
<1>13. ASSUME NEW t \in Thread, EraseAll(t)
      PROVE  Steps'
  BY <1>13, NoSidAssumption DEF EraseAll
<1>14. ASSUME NEW t \in Thread, NEW s \in Sid, Create(t, s)
      PROVE  Steps'
  BY <1>14, NoSidAssumption DEF Create
<1>15. ASSUME NEW t \in Thread, NEW s \in Sid, GetMiss(t, s)
      PROVE  Steps'
  BY <1>15, NoSidAssumption DEF GetMiss
<1>16. ASSUME NEW t \in Thread, NEW s \in Sid, Erase(t, s)
      PROVE  Steps'
  BY <1>16, NoSidAssumption DEF Erase
<1>17. ASSUME NEW t \in Thread, NEW s \in Sid, NEW m \in Mid, Compose(t, s, m)
      PROVE  Steps'
  BY <1>17, NoSidAssumption DEF Compose
<1>18. ASSUME Tick
      PROVE  Steps'
  BY <1>18, NoSidAssumption DEF Tick
<1>19. ASSUME Restart
      PROVE  Steps'
  BY <1>19, NoSidAssumption DEF Restart
<1> QED
  BY <1>1, <1>2, <1>3, <1>4, <1>5, <1>6, <1>7, <1>8, <1>9, <1>10, <1>11, <1>12, <1>13, <1>14, <1>15, <1>16, <1>17, <1>18, <1>19 DEF Next, Proceed

\* The clock is read before the row is inserted, and nobody inserts in between.
LEMMA TimelyStep ==
  ASSUME Disciplined, SerialInv, Next
  PROVE  Timely'
<1> USE DEF SerialInv, IInv, Disciplined, Call, Return, Goto, memory, disk, calls, time, past,
           TypeOK, Step, Calling, AddSteps,
           Alone, MayUse, MayUseAll, Timely
<1>1. ASSUME NEW t \in Thread, CreateRow(t)
      PROVE  Timely'
  BY <1>1, NoSidAssumption DEF CreateRow
<1>2. ASSUME NEW t \in Thread, GetNoRow(t)
      PROVE  Timely'
  BY <1>2, NoSidAssumption DEF GetNoRow
<1>3. ASSUME NEW t \in Thread, GetRow(t)
      PROVE  Timely'
  BY <1>3, NoSidAssumption DEF GetRow
<1>4. ASSUME NEW t \in Thread, AddUnknown(t)
      PROVE  Timely'
  BY <1>4, NoSidAssumption DEF AddUnknown
<1>5. ASSUME NEW t \in Thread, AddPush(t)
      PROVE  Timely'
  BY <1>5, NoSidAssumption DEF AddPush
<1>6. ASSUME NEW t \in Thread, AddStamp(t)
      PROVE  Timely'
  BY <1>6, NoSidAssumption DEF AddStamp
<1>7. ASSUME NEW t \in Thread, AddInsert(t)
      PROVE  Timely'
  <2>1. sid[t] \in Sid /\ msg[t] \in Message /\ table[sid[t]] \in Seq(Message)
    BY <1>7 DEF AddInsert
  <2>2. InTimeOrder(Append(table[sid[t]], msg[t]))
    BY <1>7, <2>1, InOrderAppend DEF AddInsert
  <2>3. ToSet(Append(table[sid[t]], msg[t])) = ToSet(table[sid[t]]) \cup {msg[t]}
    BY <2>1, ToSetAppend
  <2>4. /\ table'[sid[t]] = Append(table[sid[t]], msg[t])
        /\ \A q \in Sid : q # sid[t] => table'[q] = table[q]
    BY <1>7, <2>1 DEF AddInsert
  <2>5. /\ pc'[t] = "add_update" /\ UNCHANGED <<sid, msg, clock>>
        /\ \A u \in Thread : u # t => pc'[u] = pc[u] /\ sid[u] # sid[t]
    BY <1>7, <2>1, NoSidAssumption DEF AddInsert
  <2>6. msg[t].ts <= clock
    BY <1>7 DEF AddInsert
  <2>7. \A q \in Sid : InTimeOrder(table'[q]) /\ \A r \in ToSet(table'[q]) : r.ts <= clock
    <3> TAKE q \in Sid
    <3>1. CASE q = sid[t]
      <4>1. InTimeOrder(table'[q])
        BY <2>2, <2>4, <3>1
      <4>2. ToSet(table'[q]) = ToSet(table[q]) \cup {msg[t]}
        BY <2>3, <2>4, <3>1
      <4> QED
        BY <2>6, <4>1, <4>2
    <3>2. CASE q # sid[t]
      BY <2>4, <3>2
    <3> QED
      BY <3>1, <3>2
  <2>8. \A u \in Thread : pc'[u] \in {"add", "add_stamp", "add_insert"} =>
                             \A r \in ToSet(table'[sid[u]]) : r.ts <= msg[u].ts
    BY <2>4, <2>5
  <2>9. \A u \in Thread : pc'[u] \in {"add", "add_stamp", "add_insert", "add_update"} =>
                             msg[u].ts <= clock
    BY <2>5, <2>6
  <2> QED
    BY <2>5, <2>7, <2>8, <2>9
<1>8. ASSUME NEW t \in Thread, AddInsertFails(t)
      PROVE  Timely'
  BY <1>8, NoSidAssumption DEF AddInsertFails
<1>9. ASSUME NEW t \in Thread, AddUpdate(t)
      PROVE  Timely'
  BY <1>9, NoSidAssumption DEF AddUpdate
<1>10. ASSUME NEW t \in Thread, DeleteMessages(t)
      PROVE  Timely'
  <2>1. \A q \in Sid : table'[q] = table[q] \/ table'[q] = <<>>
    BY <1>10 DEF DeleteMessages
  <2>2. InTimeOrder(<<>>) /\ ToSet(<<>>) = {}
    BY ToSetEmpty DEF InTimeOrder
  <2>3. \A u \in Thread : pc'[u] = pc[u] \/ (u = t /\ pc'[u] = "del_row")
    BY <1>10 DEF DeleteMessages
  <2>4. UNCHANGED <<sid, msg, clock>>
    BY <1>10 DEF DeleteMessages
  <2> QED
    BY <2>1, <2>2, <2>3, <2>4
<1>11. ASSUME NEW t \in Thread, DeleteRow(t)
      PROVE  Timely'
  BY <1>11, NoSidAssumption DEF DeleteRow
<1>12. ASSUME NEW t \in Thread, ClearRows(t)
      PROVE  Timely'
  BY <1>12, NoSidAssumption DEF ClearRows
<1>13. ASSUME NEW t \in Thread, EraseAll(t)
      PROVE  Timely'
  BY <1>13, NoSidAssumption DEF EraseAll
<1>14. ASSUME NEW t \in Thread, NEW s \in Sid, Create(t, s)
      PROVE  Timely'
  BY <1>14, NoSidAssumption DEF Create
<1>15. ASSUME NEW t \in Thread, NEW s \in Sid, GetMiss(t, s)
      PROVE  Timely'
  BY <1>15, NoSidAssumption DEF GetMiss
<1>16. ASSUME NEW t \in Thread, NEW s \in Sid, Erase(t, s)
      PROVE  Timely'
  BY <1>16, NoSidAssumption DEF Erase
<1>17. ASSUME NEW t \in Thread, NEW s \in Sid, NEW m \in Mid, Compose(t, s, m)
      PROVE  Timely'
  <2>1. clock \in Nat /\ clock <= clock
    BY MessageType
  <2>2. pc'[t] = "add" /\ sid'[t] = s /\ msg'[t].ts = clock
    BY <1>17 DEF Compose
  <2>3. \A u \in Thread : u # t => pc'[u] = pc[u] /\ sid'[u] = sid[u] /\ msg'[u] = msg[u]
    BY <1>17 DEF Compose
  <2>4. UNCHANGED <<table, clock>>
    BY <1>17 DEF Compose
  <2> QED
    BY <2>1, <2>2, <2>3, <2>4
<1>18. ASSUME Tick
      PROVE  Timely'
  <2>1. clock \in Nat /\ clock' = clock + 1
    BY <1>18, MessageType DEF Tick
  <2>2. \A q \in Sid : \A r \in ToSet(table[q]) : r.ts \in Nat
    BY MessageType, StoredAreMessages
  <2>3. \A u \in Thread : pc[u] \in {"add", "add_stamp", "add_insert", "add_update"} => msg[u].ts \in Nat
    BY MessageType
  <2>4. UNCHANGED <<table, pc, sid, msg>>
    BY <1>18 DEF Tick
  <2> QED
    BY <2>1, <2>2, <2>3, <2>4
<1>19. ASSUME Restart
      PROVE  Timely'
  BY <1>19, NoSidAssumption DEF Restart
<1> QED
  BY <1>1, <1>2, <1>3, <1>4, <1>5, <1>6, <1>7, <1>8, <1>9, <1>10, <1>11, <1>12, <1>13, <1>14, <1>15, <1>16, <1>17, <1>18, <1>19 DEF Next, Proceed

-----------------------------------------------------------------------------
(* One caller per session: the theorems *)

\* The strengthened invariant of disciplined clients: initially,
LEMMA SerialInit == Init => SerialInv
<1> SUFFICES ASSUME Init PROVE SerialInv
  OBVIOUS
<1>1. IInv
  BY InitInvariant
<1>2. Alone /\ Settled /\ Steps /\ Deleted
  BY DEF Init, Alone, Settled, Quiet, Same, Steps, Deleted
<1>3. InTimeOrder(<<>>) /\ ToSet(<<>>) = {}
  BY ToSetEmpty DEF InTimeOrder
<1>4. Timely
  BY <1>3 DEF Init, Timely, AddSteps
<1> QED
  BY <1>1, <1>2, <1>4 DEF SerialInv

\* from one step to the next,
LEMMA SerialNext ==
  ASSUME Disciplined
  PROVE  SerialInv /\ [Next]_vars => SerialInv'
<1> SUFFICES ASSUME SerialInv, [Next]_vars PROVE SerialInv'
  OBVIOUS
<1>1. IInv'
  BY NextInvariant DEF SerialInv
<1>2. CASE Next
  BY <1>1, <1>2, AloneStep, SettledStep, StepsStep, TimelyStep, DeletedStep DEF SerialInv
<1>3. CASE UNCHANGED vars
  <2>1. UNCHANGED <<memory, disk, dmHolder, calls, time, past>>
    BY <1>3 DEF vars
  <2> USE <2>1 DEF SerialInv, memory, disk, calls, time, past
  <2>2. Alone' /\ Settled' /\ Steps' /\ Deleted'
    BY DEF Alone, Settled, Quiet, Same, Steps, Deleted
  <2>3. Timely'
    BY DEF Timely, AddSteps
  <2> QED
    BY <1>1, <2>2, <2>3
<1> QED
  BY <1>2, <1>3

\* and so always.
LEMMA SerialInvariance ==
  ASSUME Disciplined
  PROVE  Spec => []SerialInv
<1>1. SerialInv /\ [Next]_vars => SerialInv'
  BY SerialNext
<1> QED
  BY <1>1, SerialInit, PTL DEF Spec

\* With one caller per session and a willing SQLite, a session whose deletion has
\* returned has left nothing behind, and a crash does not bring it back.
THEOREM DeleteCorrect ==
  ASSUME Disciplined
  PROVE  Spec => []DeleteIsDurable
<1>1. SerialInv => DeleteIsDurable
  BY DEF SerialInv, Deleted, DeleteIsDurable
<1> QED
  BY <1>1, SerialInvariance, PTL

\* With one caller per session and a willing SQLite, a restart between calls shows
\* every session with the same messages, in the same order, with the same time.
THEOREM RestartCorrect ==
  ASSUME Disciplined
  PROVE  Spec => []RestartShowsTheSame
<1>1. SerialInv => RestartShowsTheSame
  <2> SUFFICES ASSUME SerialInv, NEW s \in cached, Quiet(s)
               PROVE  s \in rows /\ LoadOrder(table[s]) = messages[s] /\ updateTime[s] = updatedAt[s]
    BY DEF RestartShowsTheSame
  <2>1. s \in Sid
    BY DEF SerialInv, IInv, TypeOK
  <2>2. Same(s)
    BY <2>1 DEF SerialInv, Settled
  <2>3. LoadOrder(table[s]) = table[s]
    BY <2>1, LoadedInOrder DEF SerialInv, IInv
  <2> QED
    BY <2>2, <2>3 DEF Same
<1> QED
  BY <1>1, SerialInvariance, PTL

\* With one caller per session and a willing SQLite, no getSession finds a row the map
\* does not have, so the nested lock is never reached.
THEOREM SelfDeadlockCorrect ==
  ASSUME Disciplined
  PROVE  Spec => []NoSelfDeadlock
<1>1. SerialInv => NoSelfDeadlock
  BY DEF SerialInv, Steps, NoSelfDeadlock
<1> QED
  BY <1>1, SerialInvariance, PTL

-----------------------------------------------------------------------------
(* One caller per session: the refinement *)

\* The two logs of the refinement mapping.
Visible == [s \in Sid |-> IF s \in cached THEN messages[s] ELSE NoMsg]
Durable == [s \in Sid |-> IF s \in rows THEN LoadOrder(table[s]) ELSE NoMsg]

\* The durable log is the table as it stands, before a step and after it.
Stored == [s \in Sid |-> IF s \in rows THEN table[s] ELSE NoMsg]

\* What is durable is what is stored, when nothing is left to write,
LEMMA DurableIsStored == SerialInv => Durable = Stored
BY LoadedInOrder DEF SerialInv, IInv, Durable, Stored

\* and in the next state too.
LEMMA DurableStaysStored == SerialInv' => (Durable = Stored)'
BY DurableIsStored, PTL

\* NoMsg is no log.
LEMMA LogsArePresent ==
  ASSUME TypeOK, NEW s \in Sid
  PROVE  messages[s] # NoMsg /\ table[s] # NoMsg /\ <<>> # NoMsg
<1>1. NoMsg \notin Seq(Message)
  BY NoMsgAssumption
<1>2. messages[s] \in Seq(Message) /\ table[s] \in Seq(Message) /\ <<>> \in Seq(Message)
  BY EmptySeq DEF TypeOK
<1> QED
  BY <1>1, <1>2

\* Nothing that is served or stored changes.
LEMMA LogStutters ==
  ASSUME UNCHANGED <<cached, messages, rows, table>>
  PROVE  UNCHANGED Log!vars
BY DEF Log!vars

\* One session's messages change, in memory or on disk.
LEMMA VisibleChanges ==
  ASSUME TypeOK, NEW s \in Sid, NEW v, s \in cached, cached' = cached,
         messages' = [messages EXCEPT ![s] = v]
  PROVE  Visible' = [Visible EXCEPT ![s] = v]
<1>1. messages \in [Sid -> Seq(Message)]
  BY DEF TypeOK
<1>2. ASSUME NEW q \in Sid
      PROVE  messages'[q] = IF q = s THEN v ELSE messages[q]
  BY <1>1
<1>3. Visible' = [q \in Sid |-> IF q \in cached THEN messages'[q] ELSE NoMsg]
  BY DEF Visible
<1>4. DOMAIN Visible = Sid /\ \A q \in Sid : Visible[q] = IF q \in cached THEN messages[q] ELSE NoMsg
  BY DEF Visible
<1> QED
  BY <1>2, <1>3, <1>4 DEF Visible

\* Writing the rows of one stored session changes what is stored for that one.
LEMMA StoredChanges ==
  ASSUME TypeOK, NEW s \in Sid, NEW v, s \in rows, rows' = rows,
         table' = [table EXCEPT ![s] = v]
  PROVE  Stored' = [Stored EXCEPT ![s] = v]
<1>1. table \in [Sid -> Seq(Message)]
  BY DEF TypeOK
<1>2. ASSUME NEW q \in Sid
      PROVE  table'[q] = IF q = s THEN v ELSE table[q]
  BY <1>1
<1>3. Stored' = [q \in Sid |-> IF q \in rows THEN table'[q] ELSE NoMsg]
  BY DEF Stored
<1> QED
  BY <1>2, <1>3 DEF Stored

\* The log begins empty.
LEMMA LogInit == Init => Log!Init
BY DEF Init, Log!Init

\* A step of the store is one of the log, or leaves the log as it is.
LEMMA LogStep ==
  ASSUME Disciplined, SerialInv, SerialInv', Next
  PROVE  [Log!Next]_Log!vars
<1>0. Durable = Stored /\ Durable' = Stored'
  BY DurableIsStored, DurableStaysStored
<1> USE DEF SerialInv, IInv, Disciplined, Call, Return, Goto, memory, disk, calls, time, past,
           TypeOK, Calling, AddSteps
<1>1. ASSUME NEW t \in Thread, CreateRow(t)
      PROVE  Log!Next
  <2>1. PICK s \in Sid : s = sid[t] /\ s \in cached /\ s \notin rows /\ messages[s] = <<>> /\ table[s] = <<>>
    BY <1>1 DEF CreateRow, Steps
  <2>2. rows' = rows \cup {s} /\ UNCHANGED <<cached, messages, table>>
    BY <1>1, <2>1 DEF CreateRow
  <2>3. Visible[s] = <<>> /\ Durable[s] = NoMsg /\ Visible' = Visible
    BY <2>1, <2>2 DEF Visible, Durable
  <2>4. Durable' = [Durable EXCEPT ![s] = <<>>]
    BY <1>0, <2>1, <2>2 DEF Stored
  <2>5. Log!Save(s)
    BY <2>3, <2>4 DEF Log!Save, Visible, Durable
  <2> QED
    BY <2>5 DEF Log!Next
<1>2. ASSUME NEW t \in Thread, GetNoRow(t) \/ AddUnknown(t) \/ AddStamp(t) \/ AddUpdate(t)
      PROVE  UNCHANGED Log!vars
  BY <1>2, LogStutters DEF GetNoRow, AddUnknown, AddStamp, AddUpdate
<1>3. ASSUME NEW t \in Thread, GetRow(t) \/ AddInsertFails(t)
      PROVE  FALSE
  BY <1>3 DEF GetRow, AddInsertFails, Steps
<1>5. ASSUME NEW t \in Thread, AddPush(t)
      PROVE  Log!Next
  <2>1. PICK s \in Sid : s = sid[t] /\ s \in cached /\ s \in rows /\ table[s] = messages[s]
    BY <1>5 DEF AddPush, Steps, Same
  <2>2. PICK m \in Message : m = msg[t]
    BY <1>5 DEF AddPush
  <2>3. messages' = [messages EXCEPT ![s] = Append(messages[s], m)] /\ UNCHANGED <<cached, rows, table>>
    BY <1>5, <2>1, <2>2 DEF AddPush
  <2>4. Visible[s] # NoMsg /\ Durable[s] = Visible[s] /\ Durable' = Durable
    BY <1>0, <2>1, <2>3, LogsArePresent DEF Visible, Stored
  <2>5. Visible' = [Visible EXCEPT ![s] = Append(messages[s], m)]
    BY <2>1, <2>3, VisibleChanges
  <2>6. Visible[s] = messages[s]
    BY <2>1 DEF Visible
  <2>7. Log!Extend(s, m)
    BY <2>4, <2>5, <2>6 DEF Log!Extend, Visible, Durable
  <2> QED
    BY <2>7 DEF Log!Next
<1>7. ASSUME NEW t \in Thread, AddInsert(t)
      PROVE  Log!Next
  <2>1. PICK s \in Sid : s = sid[t] /\ s \in cached /\ s \in rows /\ messages[s] = Append(table[s], msg[t])
    BY <1>7 DEF AddInsert, Steps
  <2>2. msg[t] \in Message /\ table[s] \in Seq(Message)
    BY <1>7 DEF AddInsert
  <2>3. table' = [table EXCEPT ![s] = messages[s]] /\ UNCHANGED <<cached, messages, rows>>
    BY <1>7, <2>1 DEF AddInsert
  <2>4. messages[s] # <<>> /\ table[s] = Front(messages[s])
    BY <2>1, <2>2, LastOfAppend
  <2>5. Visible[s] = messages[s] /\ Durable[s] = table[s] /\ Visible' = Visible
    BY <1>0, <2>1, <2>3 DEF Visible, Stored
  <2>6. Visible[s] # NoMsg /\ Durable[s] # NoMsg
    BY <2>5, LogsArePresent
  <2>7. Durable' = [Durable EXCEPT ![s] = Visible[s]]
    BY <1>0, <2>1, <2>3, <2>5, StoredChanges
  <2>8. Visible[s] # <<>> /\ Durable[s] = Front(Visible[s])
    BY <2>4, <2>5
  <2>9. Log!Persist(s)
    BY <2>5, <2>6, <2>7, <2>8, Zenon DEF Log!Persist, Log!Front, Front, Visible, Durable
  <2> QED
    BY <2>9 DEF Log!Next
<1>10. ASSUME NEW t \in Thread, DeleteMessages(t)
      PROVE  Log!Next
  <2>1. PICK s \in Sid : s = sid[t] /\ s \notin cached /\ s \in rows
    BY <1>10 DEF DeleteMessages, Steps
  <2>2. table' = [table EXCEPT ![s] = <<>>] /\ UNCHANGED <<cached, messages, rows>>
    BY <1>10, <2>1 DEF DeleteMessages
  <2>3. Visible[s] = NoMsg /\ Durable[s] # NoMsg /\ Visible' = Visible
    BY <1>0, <2>1, <2>2, LogsArePresent DEF Visible, Stored
  <2>4. Durable' = [Durable EXCEPT ![s] = <<>>]
    BY <1>0, <2>1, <2>2, StoredChanges
  <2>5. Log!Purge(s)
    BY <2>3, <2>4 DEF Log!Purge, Visible, Durable
  <2> QED
    BY <2>5 DEF Log!Next
<1>11. ASSUME NEW t \in Thread, DeleteRow(t)
      PROVE  Log!Next
  <2>1. PICK s \in Sid : s = sid[t] /\ s \notin cached /\ s \in rows /\ table[s] = <<>>
    BY <1>11 DEF DeleteRow, Steps
  <2>2. rows' = rows \ {s} /\ UNCHANGED <<cached, messages, table>>
    BY <1>11, <2>1 DEF DeleteRow
  <2>3. Visible[s] = NoMsg /\ Durable[s] = <<>> /\ Visible' = Visible
    BY <1>0, <2>1, <2>2 DEF Visible, Stored
  <2>4. Durable' = [Durable EXCEPT ![s] = NoMsg]
    BY <1>0, <2>1, <2>2 DEF Stored
  <2>5. Log!Drop(s)
    BY <2>3, <2>4 DEF Log!Drop, Visible, Durable
  <2> QED
    BY <2>5 DEF Log!Next
<1>12. ASSUME NEW t \in Thread, ClearRows(t)
      PROVE  Log!Next
  <2>1. cached = {} /\ rows' = {} /\ UNCHANGED <<cached, messages, table>>
    BY <1>12 DEF ClearRows, Steps
  <2>2. Log!DropAll
    BY <2>1 DEF Log!DropAll
  <2> QED
    BY <2>2 DEF Log!Next
<1>13. ASSUME NEW t \in Thread, EraseAll(t)
      PROVE  Log!Next
  <2>1. \A s \in Sid : Quiet(s)
    BY <1>13, NoSidAssumption DEF EraseAll, MayUseAll, Alone, Quiet
  <2>2. \A s \in Sid : (s \in rows <=> s \in cached) /\ (s \in cached => table[s] = messages[s])
    BY <2>1 DEF Settled, Same
  <2>3. Durable = Visible
    BY <1>0, <2>2 DEF Visible, Stored
  <2>4. cached' = {} /\ UNCHANGED <<messages, rows, table>>
    BY <1>13 DEF EraseAll
  <2>5. Log!ForgetAll
    BY <2>3, <2>4 DEF Log!ForgetAll, Visible, Durable
  <2> QED
    BY <2>5 DEF Log!Next
<1>14. ASSUME NEW t \in Thread, NEW s \in Sid, Create(t, s)
      PROVE  Log!Next
  <2>1. s \notin cached /\ s \notin rows
    BY <1>14 DEF Create, Unborn
  <2>2. /\ cached' = cached \cup {s} /\ messages' = [messages EXCEPT ![s] = <<>>]
        /\ UNCHANGED <<rows, table>>
    BY <1>14 DEF Create
  <2>3. Visible[s] = NoMsg /\ Durable[s] = NoMsg /\ Durable' = Durable
    BY <2>1, <2>2 DEF Visible, Durable
  <2>4. Visible' = [Visible EXCEPT ![s] = <<>>]
    BY <2>1, <2>2 DEF Visible
  <2>5. Log!Create(s)
    BY <2>3, <2>4 DEF Log!Create, Visible, Durable
  <2> QED
    BY <2>5 DEF Log!Next
<1>15. ASSUME NEW t \in Thread, NEW s \in Sid, GetMiss(t, s)
      PROVE  UNCHANGED Log!vars
  BY <1>15, LogStutters DEF GetMiss
<1>16. ASSUME NEW t \in Thread, NEW s \in Sid, Erase(t, s)
      PROVE  Log!Next
  <2>1. Quiet(s) /\ s \in cached
    BY <1>16 DEF Erase, MayUse, Quiet
  <2>2. s \in rows /\ table[s] = messages[s]
    BY <2>1 DEF Settled, Same
  <2>3. cached' = cached \ {s} /\ UNCHANGED <<messages, rows, table>>
    BY <1>16 DEF Erase
  <2>4. Visible[s] # NoMsg /\ Durable[s] = Visible[s] /\ Durable' = Durable
    BY <1>0, <2>1, <2>2, <2>3, LogsArePresent DEF Visible, Stored
  <2>5. Visible' = [Visible EXCEPT ![s] = NoMsg]
    BY <2>1, <2>3 DEF Visible
  <2>6. Log!Forget(s)
    BY <2>4, <2>5 DEF Log!Forget, Visible, Durable
  <2> QED
    BY <2>6 DEF Log!Next
<1>17. ASSUME NEW t \in Thread, NEW s \in Sid, NEW m \in Mid, Compose(t, s, m)
      PROVE  UNCHANGED Log!vars
  BY <1>17, LogStutters DEF Compose
<1>18. ASSUME Tick
      PROVE  UNCHANGED Log!vars
  BY <1>18, LogStutters DEF Tick
<1>19. ASSUME Restart
      PROVE  Log!Next
  <2>1. /\ cached' = rows /\ UNCHANGED <<rows, table>>
        /\ messages' = [s \in Sid |-> IF s \in rows THEN LoadOrder(table[s]) ELSE <<>>]
    BY <1>19 DEF Restart
  <2>2. Visible' = Durable /\ Durable' = Durable
    BY <2>1 DEF Visible, Durable
  <2>3. Log!Recover
    BY <2>2 DEF Log!Recover, Visible, Durable
  <2> QED
    BY <2>3 DEF Log!Next
<1> QED
  BY <1>1, <1>2, <1>3, <1>5, <1>7, <1>10, <1>11, <1>12, <1>13, <1>14, <1>15, <1>16, <1>17,
     <1>18, <1>19 DEF Next, Proceed

\* To callers that use each session from one place at a time the store is a log per
\* session, served from memory, written behind by one message at most, and brought back
\* by a restart as it was last written.
THEOREM LogCorrect ==
  ASSUME Disciplined
  PROVE  Spec => IsConversationLog
<1>1. Init => Log!Init
  BY LogInit
<1>2. SerialInv /\ SerialInv' /\ [Next]_vars => [Log!Next]_Log!vars
  <2>1. ASSUME UNCHANGED vars PROVE UNCHANGED Log!vars
    BY <2>1, LogStutters DEF vars, memory, disk
  <2> QED
    BY <2>1, LogStep
<1> QED
  BY <1>1, <1>2, SerialInvariance, PTL DEF Spec, IsConversationLog, Log!Spec
-----------------------------------------------------------------------------
(* Readers: the invariant *)

\* A message is acknowledged once, by the call that carries it.
Unacknowledged ==
    \A t \in Thread : pc[t] \in AddSteps =>
        /\ msg[t] \notin acked
        /\ \A u \in Thread : u # t /\ pc[u] \in AddSteps => msg[u] # msg[t]

\* Only finitely many sessions exist, which is what makes them a list.
Finitely == IsFiniteSet(cached) /\ IsFiniteSet(rows)

\* What getSessionList brought from its first half.
Listing ==
    reading = "list_merge" =>
        /\ IsFiniteSet(snapshot)
        /\ \A q, r \in snapshot : q.id = r.id => q = r
        /\ \A r \in snapshot : r.id \in glimpsed
        /\ steady \subseteq cached /\ cached \subseteq glimpsed

\* What getSessionHistory was asked for, and owes, when it comes to the database.
Asking ==
    /\ reading \in {"history_rows", "told"} => subject \in Sid /\ life[subject] # "unborn"
    /\ reading = "history_rows" =>
          \A r \in owed : r \in acked \ failed /\ home[r.id] = subject

ReaderInv ==
    /\ IInv /\ Unacknowledged /\ Finitely /\ Listing /\ Asking
    /\ ListFitsTheCall /\ HistoryHoldsTheAcked
\* A message is composed once and acknowledged by the call that carries it.
LEMMA UnacknowledgedStep ==
  ASSUME IInv, Unacknowledged, Next
  PROVE  Unacknowledged'
<1> USE DEF IInv, Call, Return, Goto, memory, disk, calls, time, past,
           TypeOK, Calling, Addressed, Unacknowledged, AddSteps
<1> DEFINE Done(t) ==
         /\ pc'[t] \notin AddSteps
         /\ \A u \in Thread : u # t => pc'[u] = pc[u] /\ msg'[u] = msg[u]
         /\ acked' = acked \/ (pc[t] \in AddSteps /\ acked' = acked \cup {msg[t]})
<1>1. ASSUME NEW t \in Thread, CreateRow(t) \/ GetNoRow(t) \/ AddUnknown(t)
      PROVE  Done(t)
  BY <1>1 DEF CreateRow, GetNoRow, AddUnknown
<1>2. ASSUME NEW t \in Thread, DeleteRow(t) \/ ClearRows(t) \/ EraseAll(t)
      PROVE  Done(t)
  BY <1>2 DEF DeleteRow, ClearRows, EraseAll
<1>3. ASSUME NEW t \in Thread, AddInsertFails(t) \/ AddUpdate(t)
      PROVE  Done(t)
  BY <1>3 DEF AddInsertFails, AddUpdate
<1>4. ASSUME NEW t \in Thread, GetRow(t) \/ DeleteMessages(t)
      PROVE  Done(t)
  BY <1>4 DEF GetRow, DeleteMessages
<1>5. ASSUME NEW t \in Thread, NEW s \in Sid, Create(t, s) \/ GetMiss(t, s) \/ Erase(t, s)
      PROVE  Done(t)
  BY <1>5 DEF Create, GetMiss, Erase
<1>6. ASSUME NEW t \in Thread, Done(t)
      PROVE  Unacknowledged'
  <2>1. ASSUME NEW u \in Thread, pc'[u] \in AddSteps
        PROVE  u # t /\ pc'[u] = pc[u] /\ msg'[u] = msg[u] /\ msg[u] \notin acked'
    BY <1>6, <2>1
  <2>2. ASSUME NEW u \in Thread, pc'[u] \in AddSteps, NEW v \in Thread, v # u, pc'[v] \in AddSteps
        PROVE  msg'[v] # msg'[u]
    BY <2>1, <2>2
  <2> QED
    BY <2>1, <2>2, Zenon
<1>7. ASSUME NEW t \in Thread, AddPush(t) \/ AddStamp(t) \/ AddInsert(t)
      PROVE  Unacknowledged'
  BY <1>7 DEF AddPush, AddStamp, AddInsert
<1>8. ASSUME NEW t \in Thread, NEW s \in Sid, NEW m \in Mid, Compose(t, s, m)
      PROVE  Unacknowledged'
  <2>1. \A r \in acked : r.id # m
    BY <1>8, NoSidAssumption DEF Compose
  <2>2. \A u \in Thread : pc[u] \in AddSteps => msg[u].id # m
    BY <1>8, NoSidAssumption DEF Compose
  <2>3. msg'[t].id = m /\ pc'[t] = "add" /\ acked' = acked
    BY <1>8 DEF Compose
  <2>4. \A u \in Thread : u # t => msg'[u] = msg[u] /\ pc'[u] = pc[u]
    BY <1>8 DEF Compose
  <2>5. msg'[t] \notin acked'
    BY <2>1, <2>3
  <2>6. \A u \in Thread : u # t /\ pc'[u] \in AddSteps => msg'[u] # msg'[t]
    BY <2>2, <2>3, <2>4
  <2>7. ASSUME NEW u \in Thread, pc'[u] \in AddSteps
        PROVE  msg'[u] \notin acked'
    BY <2>3, <2>4, <2>5, <2>7
  <2>8. ASSUME NEW u \in Thread, pc'[u] \in AddSteps, NEW v \in Thread, v # u, pc'[v] \in AddSteps
        PROVE  msg'[v] # msg'[u]
    <3>1. CASE u = t \/ v = t
      BY <2>6, <2>8, <3>1
    <3>2. CASE u # t /\ v # t
      BY <2>4, <2>8, <3>2
    <3> QED
      BY <3>1, <3>2
  <2> QED
    BY <2>7, <2>8, Zenon
<1>9. ASSUME Tick \/ Restart
      PROVE  Unacknowledged'
  BY <1>9 DEF Tick, Restart
<1> HIDE DEF Done, Unacknowledged, IInv, Call, Return, Goto
<1> QED
  BY <1>1, <1>2, <1>3, <1>4, <1>5, <1>6, <1>7, <1>8, <1>9 DEF Next, Proceed

\* One session at a time is added.
LEMMA FinitelyStep ==
  ASSUME TypeOK, Finitely, Next
  PROVE  Finitely'
<1>1. ASSUME NEW s PROVE IsFiniteSet(cached \cup {s}) /\ IsFiniteSet(rows \cup {s})
  BY FS_AddElement DEF Finitely
<1>2. ASSUME NEW s PROVE IsFiniteSet(cached \ {s}) /\ IsFiniteSet(rows \ {s})
  BY FS_RemoveElement DEF Finitely
<1>3. IsFiniteSet({})
  BY FS_EmptySet
<1> USE DEF Finitely, memory, disk
<1>4. ASSUME NEW t \in Thread, CreateRow(t) \/ DeleteRow(t) \/ ClearRows(t) \/ EraseAll(t)
      PROVE  Finitely'
  BY <1>1, <1>2, <1>3, <1>4 DEF CreateRow, DeleteRow, ClearRows, EraseAll
<1>5. ASSUME NEW t \in Thread, \/ GetNoRow(t) \/ GetRow(t) \/ AddUnknown(t) \/ AddPush(t)
                               \/ AddStamp(t) \/ AddInsert(t) \/ AddInsertFails(t)
                               \/ AddUpdate(t) \/ DeleteMessages(t)
      PROVE  Finitely'
  BY <1>5 DEF GetNoRow, GetRow, AddUnknown, AddPush, AddStamp, AddInsert, AddInsertFails,
     AddUpdate, DeleteMessages
<1>6. ASSUME NEW t \in Thread, NEW s \in Sid, Create(t, s) \/ GetMiss(t, s) \/ Erase(t, s)
      PROVE  Finitely'
  BY <1>1, <1>2, <1>6 DEF Create, GetMiss, Erase
<1>7. ASSUME NEW t \in Thread, NEW s \in Sid, NEW m \in Mid, Compose(t, s, m)
      PROVE  Finitely'
  BY <1>7 DEF Compose
<1>8. ASSUME Tick \/ Restart
      PROVE  Finitely'
  BY <1>8 DEF Tick, Restart
<1> QED
  BY <1>4, <1>5, <1>6, <1>7, <1>8 DEF Next, Proceed

\* A session that came to life does not become unborn, nor live again.
LEMMA LifeGoesOn ==
  ASSUME TypeOK, Next, NEW s \in Sid, life[s] # "unborn"
  PROVE  life'[s] # "unborn" /\ (life'[s] = "live" => life[s] = "live")
<1> USE DEF TypeOK, past
<1>1. ASSUME NEW t \in Thread, DeleteRow(t) \/ EraseAll(t)
      PROVE  life'[s] # "unborn" /\ (life'[s] = "live" => life[s] = "live")
  BY <1>1 DEF DeleteRow, EraseAll
<1>2. ASSUME NEW t \in Thread, NEW q \in Sid, Create(t, q) \/ Erase(t, q)
      PROVE  life'[s] # "unborn" /\ (life'[s] = "live" => life[s] = "live")
  BY <1>2 DEF Create, Erase
<1>3. ASSUME NEW t \in Thread, \/ CreateRow(t) \/ GetNoRow(t) \/ GetRow(t) \/ AddUnknown(t)
                               \/ AddPush(t) \/ AddStamp(t) \/ AddInsert(t)
                               \/ AddInsertFails(t) \/ AddUpdate(t) \/ DeleteMessages(t)
                               \/ ClearRows(t)
      PROVE  life' = life
  BY <1>3 DEF CreateRow, GetNoRow, GetRow, AddUnknown, AddPush, AddStamp, AddInsert,
     AddInsertFails, AddUpdate, DeleteMessages, ClearRows
<1>4. ASSUME NEW t \in Thread, NEW q \in Sid, GetMiss(t, q)
      PROVE  life' = life
  BY <1>4 DEF GetMiss
<1>5. ASSUME NEW t \in Thread, NEW q \in Sid, NEW m \in Mid, Compose(t, q, m)
      PROVE  life' = life
  BY <1>5 DEF Compose
<1>6. ASSUME Tick \/ Restart
      PROVE  life' = life
  BY <1>6 DEF Tick, Restart
<1> QED
  BY <1>1, <1>2, <1>3, <1>4, <1>5, <1>6 DEF Next, Proceed

\* What was acknowledged and not refused stays so, with its session.
LEMMA AckedForGood ==
  ASSUME IInv, Unacknowledged, Next, NEW r \in acked \ failed
  PROVE  r \in acked' \ failed' /\ home'[r.id] = home[r.id]
<1> USE DEF IInv, TypeOK, past
<1>1. ASSUME NEW t \in Thread, AddInsertFails(t) \/ AddUpdate(t)
      PROVE  r \in acked' \ failed' /\ home'[r.id] = home[r.id]
  BY <1>1 DEF AddInsertFails, AddUpdate, Unacknowledged, AddSteps
<1>2. ASSUME NEW t \in Thread, NEW s \in Sid, NEW m \in Mid, Compose(t, s, m)
      PROVE  r \in acked' \ failed' /\ home'[r.id] = home[r.id]
  <2>1. r.id # m
    BY <1>2, NoSidAssumption DEF Compose, Addressed
  <2> QED
    BY <1>2, <2>1 DEF Compose
<1>3. ASSUME NEW t \in Thread, \/ CreateRow(t) \/ GetNoRow(t) \/ GetRow(t) \/ AddUnknown(t)
                               \/ AddPush(t) \/ AddStamp(t) \/ AddInsert(t)
                               \/ DeleteMessages(t) \/ DeleteRow(t) \/ ClearRows(t)
                               \/ EraseAll(t)
      PROVE  UNCHANGED <<home, acked, failed>>
  BY <1>3 DEF CreateRow, GetNoRow, GetRow, AddUnknown, AddPush, AddStamp, AddInsert,
     DeleteMessages, DeleteRow, ClearRows, EraseAll
<1>4. ASSUME NEW t \in Thread, NEW s \in Sid, Create(t, s) \/ GetMiss(t, s) \/ Erase(t, s)
      PROVE  UNCHANGED <<home, acked, failed>>
  BY <1>4 DEF Create, GetMiss, Erase
<1>5. ASSUME Tick \/ Restart
      PROVE  UNCHANGED <<home, acked, failed>>
  BY <1>5 DEF Tick, Restart
<1> QED
  BY <1>1, <1>2, <1>3, <1>4, <1>5 DEF Next, Proceed

\* A step of the reader writes nothing.
LEMMA NothingWritten ==
  ASSUME UNCHANGED vars, IInv, Unacknowledged, Finitely
  PROVE  IInv' /\ Unacknowledged' /\ Finitely'
<1>1. IInv'
  BY NextInvariant
<1>2. UNCHANGED <<cached, rows, pc, msg, acked>>
  BY DEF vars, memory, disk, calls, past
<1> QED
  BY <1>1, <1>2 DEF Unacknowledged, Finitely

\* A step of a writer leaves a reader with a right to what it has read.
LEMMA OthersStep ==
  ASSUME ReaderInv, Others
  PROVE  ReaderInv'
<1> USE DEF ReaderInv
<1>1. Next /\ IInv' /\ Unacknowledged' /\ Finitely'
  BY NextInvariant, UnacknowledgedStep, FinitelyStep DEF Others, IInv
<1>2. CASE restarts' # restarts
  BY <1>1, <1>2 DEF Others, NoReader, Listing, Asking, ListFitsTheCall, HistoryHoldsTheAcked
<1>3. CASE restarts' = restarts
  <2>1. /\ steady' = IF reading = "list_merge" THEN steady \cap cached' ELSE steady
        /\ glimpsed' = IF reading = "list_merge" THEN glimpsed \cup cached' \cup rows' ELSE glimpsed
        /\ UNCHANGED <<reading, subject, snapshot, answer, owed>>
    BY <1>3 DEF Others
  <2>2. Listing' /\ ListFitsTheCall'
    BY <2>1 DEF Listing, ListFitsTheCall
  <2>3. reading \in {"history_rows", "told"} =>
          /\ subject \in Sid /\ life[subject] # "unborn"
          /\ life'[subject] # "unborn" /\ (life'[subject] = "live" => life[subject] = "live")
    BY <1>1, LifeGoesOn DEF Asking, IInv
  <2>4. Asking'
    BY <1>1, <2>1, <2>3, AckedForGood DEF Asking
  <2>5. HistoryHoldsTheAcked'
    BY <2>1, <2>3 DEF HistoryHoldsTheAcked
  <2> QED
    BY <1>1, <2>2, <2>4, <2>5
<1> QED
  BY <1>2, <1>3

-----------------------------------------------------------------------------
(* getSessionList *)

\* A sorted list of items that differ in id names each of them once.
LEMMA NewestFirstNames ==
  ASSUME NEW items, IsFiniteSet(items), \A q, r \in items : q.id = r.id => q = r,
         NEW ids \in NewestFirst(items)
  PROVE  /\ \A i, j \in DOMAIN ids : ids[i] = ids[j] => i = j
         /\ ToSet(ids) = {r.id : r \in items}
<1> DEFINE D == 1..Cardinality(items)
<1>1. PICK q \in SetToSeqs(items) : ids = [i \in DOMAIN q |-> q[i].id]
  BY DEF NewestFirst
<1>2. q \in [D -> items] /\ \A i, j \in D : i # j => q[i] # q[j]
  BY <1>1 DEF SetToSeqs
<1>3. q \in Injection(D, items)
  BY <1>2 DEF Injection, IsInjective
<1>4. Cardinality(items) \in Nat
  BY FS_CardinalityType
<1>5. Cardinality(D) = Cardinality(items)
  <2>1. 1 \in Int /\ Cardinality(items) \in Int /\ Cardinality(items) >= 0
    BY <1>4
  <2>2. Cardinality(1..Cardinality(items)) =
          IF 1 > Cardinality(items) THEN 0 ELSE Cardinality(items) - 1 + 1
    BY <2>1, FS_Interval
  <2> QED
    BY <2>1, <2>2
<1>6. q \in Surjection(D, items)
  BY <1>3, <1>5, FS_Injection
<1>7. \A r \in items : \E i \in D : q[i] = r
  BY <1>6 DEF Surjection
<1>8. DOMAIN ids = D /\ \A i \in D : ids[i] = q[i].id /\ q[i] \in items
  BY <1>1, <1>2
<1>9. ToSet(ids) = {ids[i] : i \in D}
  BY <1>8 DEF ToSet
<1>10. \A i, j \in D : ids[i] = ids[j] => i = j
  BY <1>2, <1>8
<1> QED
  BY <1>7, <1>8, <1>9, <1>10

\* One item for each session: finitely many, that differ in id.
Items(S, at, from) == {Item(s, at[s], from) : s \in S}

\* A listing shows a session once.
LEMMA OneItemEach ==
  ASSUME NEW S, IsFiniteSet(S), NEW at, NEW from
  PROVE  /\ IsFiniteSet(Items(S, at, from))
         /\ \A q, r \in Items(S, at, from) : q.id = r.id => q = r
         /\ \A r \in Items(S, at, from) : r.id \in S
         /\ \A s \in S : \E r \in Items(S, at, from) : r.id = s
<1> DEFINE f == [s \in S |-> Item(s, at[s], from)]
<1>1. f \in Surjection(S, Items(S, at, from))
  BY DEF Surjection, Items
<1>2. IsFiniteSet(Items(S, at, from))
  BY <1>1, FS_Surjection
<1>3. \A s \in S : Item(s, at[s], from).id = s
  BY DEF Item
<1>4. \A s \in S : Item(s, at[s], from) \in Items(S, at, from)
  BY DEF Items
<1>5. \A r \in Items(S, at, from) : \E s \in S : r = Item(s, at[s], from)
  BY DEF Items
<1>6. \A r \in Items(S, at, from) : r.id \in S /\ r = Item(r.id, at[r.id], from)
  BY <1>3, <1>5
<1> QED
  BY <1>2, <1>3, <1>4, <1>6

\* getSessionList's first half.
LEMMA ListRowsStep ==
  ASSUME ReaderInv, ListRows
  PROVE  ReaderInv'
<1>1. UNCHANGED vars /\ reading' = "list_merge"
  BY DEF ListRows
<1>2. snapshot' = Items(rows, updateTime, "row") /\ IsFiniteSet(rows)
  BY DEF ListRows, Items, ReaderInv, Finitely
<1>3. /\ IsFiniteSet(snapshot')
      /\ \A q, r \in snapshot' : q.id = r.id => q = r
      /\ \A r \in snapshot' : r.id \in rows
  BY <1>2, OneItemEach
<1>4. Listing'
  BY <1>1, <1>3 DEF ListRows, Listing, vars, memory
<1>5. Asking' /\ ListFitsTheCall' /\ HistoryHoldsTheAcked'
  BY <1>1 DEF Asking, ListFitsTheCall, HistoryHoldsTheAcked
<1> QED
  BY <1>1, <1>4, <1>5, NothingWritten DEF ReaderInv

\* Its second half: an item for each session in the map, and one for each row of
\* another session.
LEMMA ListMergeStep ==
  ASSUME ReaderInv, ListMerge
  PROVE  ReaderInv'
<1> DEFINE maps == Items(cached, updatedAt, "map")
           others == {r \in snapshot : r.id \notin cached}
<1>1. UNCHANGED vars /\ reading' = "listed" /\ UNCHANGED <<steady, glimpsed>>
  BY DEF ListMerge
<1>2. /\ IsFiniteSet(snapshot) /\ IsFiniteSet(cached)
      /\ \A q, r \in snapshot : q.id = r.id => q = r
      /\ \A r \in snapshot : r.id \in glimpsed
      /\ steady \subseteq cached /\ cached \subseteq glimpsed
  BY DEF ListMerge, ReaderInv, Listing, Finitely
<1>3. /\ IsFiniteSet(maps)
      /\ \A q, r \in maps : q.id = r.id => q = r
      /\ \A r \in maps : r.id \in cached
      /\ \A s \in cached : \E r \in maps : r.id = s
  BY <1>2, OneItemEach
<1>4. IsFiniteSet(others)
  BY <1>2, FS_Subset
<1>5. IsFiniteSet(maps \cup others)
  BY <1>3, <1>4, FS_Union
<1>6. \A q, r \in maps \cup others : q.id = r.id => q = r
  BY <1>2, <1>3
<1>7. answer' \in NewestFirst(maps \cup others)
  BY DEF ListMerge, Items
<1>8. /\ \A i, j \in DOMAIN answer' : answer'[i] = answer'[j] => i = j
      /\ ToSet(answer') = {r.id : r \in maps \cup others}
  BY <1>5, <1>6, <1>7, NewestFirstNames
<1>9. steady \subseteq ToSet(answer') /\ ToSet(answer') \subseteq glimpsed
  BY <1>2, <1>3, <1>8
<1>10. ListFitsTheCall'
  BY <1>1, <1>8, <1>9 DEF ListFitsTheCall
<1>11. Listing' /\ Asking' /\ HistoryHoldsTheAcked'
  BY <1>1 DEF Listing, Asking, HistoryHoldsTheAcked
<1> QED
  BY <1>1, <1>10, <1>11, NothingWritten DEF ReaderInv

-----------------------------------------------------------------------------
(* getSessionHistory *)

\* What is owed and live is on disk, and so in the map if the session is there.
LEMMA OwedIsStored ==
  ASSUME IInv, NEW s \in Sid, life[s] = "live",
         NEW r \in acked \ failed, home[r.id] = s
  PROVE  r \in ToSet(table[s]) /\ (s \in cached => r \in ToSet(messages[s]))
BY DEF IInv, AckedSurvives, DurableIsServed

\* A read of a history keeps the readers' invariant.
LEMMA HistoryStep ==
  ASSUME ReaderInv, HistoryRows \/ \E s \in Sid : HistoryFromMap(s) \/ HistoryMiss(s)
  PROVE  ReaderInv'
<1>1. ASSUME NEW s \in Sid, HistoryFromMap(s)
      PROVE  ReaderInv'
  <2>1. /\ UNCHANGED vars /\ reading' = "told" /\ subject' = s /\ s \in cached
        /\ answer' = messages[s] /\ owed' = {r \in acked \ failed : home[r.id] = s}
    BY <1>1 DEF HistoryFromMap
  <2>2. life' = life /\ life[s] # "unborn"
    BY <2>1 DEF ReaderInv, IInv, Unborn, vars, past
  <2>3. HistoryHoldsTheAcked'
    BY <2>1, <2>2, OwedIsStored DEF HistoryHoldsTheAcked, ReaderInv
  <2>4. Listing' /\ Asking' /\ ListFitsTheCall'
    BY <2>1, <2>2 DEF Listing, Asking, ListFitsTheCall
  <2> QED
    BY <2>1, <2>3, <2>4, NothingWritten DEF ReaderInv
<1>2. ASSUME NEW s \in Sid, HistoryMiss(s)
      PROVE  ReaderInv'
  <2>1. /\ UNCHANGED vars /\ reading' = "history_rows" /\ subject' = s /\ life[s] # "unborn"
        /\ owed' = {r \in acked \ failed : home[r.id] = s}
    BY <1>2 DEF HistoryMiss
  <2>2. UNCHANGED <<life, home, acked, failed>>
    BY <2>1 DEF vars, past
  <2>3. Asking'
    BY <2>1, <2>2 DEF Asking
  <2>4. Listing' /\ ListFitsTheCall' /\ HistoryHoldsTheAcked'
    BY <2>1 DEF Listing, ListFitsTheCall, HistoryHoldsTheAcked
  <2> QED
    BY <2>1, <2>3, <2>4, NothingWritten DEF ReaderInv
<1>3. ASSUME HistoryRows
      PROVE  ReaderInv'
  <2>1. /\ UNCHANGED vars /\ reading = "history_rows" /\ reading' = "told"
        /\ UNCHANGED <<subject, owed>> /\ answer' = LoadOrder(table[subject])
    BY <1>3 DEF HistoryRows
  <2>2. subject \in Sid /\ life[subject] # "unborn" /\ life' = life
    BY <2>1 DEF ReaderInv, Asking, vars, past
  <2>3. \A r \in owed : r \in acked \ failed /\ home[r.id] = subject
    BY <2>1 DEF ReaderInv, Asking
  <2>4. ToSet(answer') = ToSet(table[subject])
    <3>1. table[subject] \in Seq(Message)
      BY <2>2 DEF ReaderInv, IInv, TypeOK
    <3> QED
      BY <2>1, <3>1, Reload
  <2>5. life[subject] = "live" => owed \subseteq ToSet(table[subject])
    BY <2>2, <2>3, OwedIsStored DEF ReaderInv
  <2>6. HistoryHoldsTheAcked'
    BY <2>1, <2>2, <2>4, <2>5 DEF HistoryHoldsTheAcked
  <2>7. Listing' /\ Asking' /\ ListFitsTheCall'
    BY <2>1, <2>2 DEF Listing, Asking, ListFitsTheCall
  <2> QED
    BY <2>1, <2>6, <2>7, NothingWritten DEF ReaderInv
<1> QED
  BY <1>1, <1>2, <1>3

-----------------------------------------------------------------------------
(* Readers: the theorems *)

\* The readers' invariant: initially,
LEMMA ReaderInitially == ReaderInit => ReaderInv
<1>1. IsFiniteSet({})
  BY FS_EmptySet
<1> QED
  BY <1>1, InitInvariant
  DEF ReaderInit, Init, ReaderInv, Unacknowledged, AddSteps, Finitely, Listing, Asking,
      ListFitsTheCall, HistoryHoldsTheAcked

\* from one step to the next,
LEMMA ReaderNextStep == ReaderInv /\ [ReaderNext]_<<vars, reader>> => ReaderInv'
<1> SUFFICES ASSUME ReaderInv, [ReaderNext]_<<vars, reader>> PROVE ReaderInv'
  OBVIOUS
<1>1. CASE ReadReturn
  <2>1. UNCHANGED vars /\ NoReader
    BY <1>1 DEF ReadReturn
  <2>2. Listing' /\ Asking' /\ ListFitsTheCall' /\ HistoryHoldsTheAcked'
    BY <2>1 DEF NoReader, Listing, Asking, ListFitsTheCall, HistoryHoldsTheAcked
  <2> QED
    BY <2>1, <2>2, NothingWritten DEF ReaderInv
<1>2. CASE UNCHANGED <<vars, reader>>
  <2>1. UNCHANGED vars /\ UNCHANGED <<reading, subject, snapshot, answer, steady, glimpsed, owed>>
    BY <1>2 DEF reader
  <2>2. UNCHANGED <<cached, life, home, acked, failed>>
    BY <2>1 DEF vars, memory, past
  <2>3. Listing' /\ Asking' /\ ListFitsTheCall' /\ HistoryHoldsTheAcked'
    BY <2>1, <2>2 DEF ReaderInv, Listing, Asking, ListFitsTheCall, HistoryHoldsTheAcked
  <2> QED
    BY <2>1, <2>3, NothingWritten DEF ReaderInv
<1> QED
  BY <1>1, <1>2, OthersStep, ListRowsStep, ListMergeStep, HistoryStep DEF ReaderNext

\* and so always.
LEMMA ReaderInvariance == ReaderSpec => []ReaderInv
BY ReaderInitially, ReaderNextStep, PTL DEF ReaderSpec

\* However sessions come and go between getSessionList's two halves, its answer names no
\* session twice, misses none that was there all the while, and names none that was
\* nowhere while it ran.
THEOREM ListCorrect == ReaderSpec => []ListFitsTheCall
<1>1. ReaderInv => ListFitsTheCall
  BY DEF ReaderInv
<1> QED
  BY <1>1, ReaderInvariance, PTL

\* A history holds every message acknowledged before it was asked for, unless the session
\* was being deleted or cleared or SQLite had refused the message.
THEOREM HistoryCorrect == ReaderSpec => []HistoryHoldsTheAcked
<1>1. ReaderInv => HistoryHoldsTheAcked
  BY DEF ReaderInv
<1> QED
  BY <1>1, ReaderInvariance, PTL

\* Readers do not disturb the store: beside them it does what it does without them, so
\* every theorem about Spec holds of the store that is read.
THEOREM ReadersAreHarmless == ReaderSpec => Spec
<1>1. ReaderInit => Init
  BY DEF ReaderInit
<1>2. [ReaderNext]_<<vars, reader>> => [Next]_vars
  BY DEF ReaderNext, Others, ListRows, ListMerge, HistoryFromMap, HistoryMiss, HistoryRows, ReadReturn
<1> QED
  BY <1>1, <1>2, PTL DEF ReaderSpec, Spec

\* The same for the specification under which callers are checked one by one.
THEOREM UnreadIsTheStore == UnreadSpec => Spec
<1>1. ReaderInit => Init
  BY DEF ReaderInit
<1>2. [Others]_<<vars, reader>> => [Next]_vars
  BY DEF Others
<1> QED
  BY <1>1, <1>2, PTL DEF UnreadSpec, Spec
=============================================================================
