---------------------------- MODULE MessageOrder ----------------------------
(***************************************************************************)
(* The order in which a conversation comes back from SQLite.               *)
(* DataManager::getMessageBySessionId reads the rows of one session with   *)
(* "ORDER BY timestamp ASC" (DataManager.cc:309).  Timestamps are whole    *)
(* seconds, so ties are common.  Rows of one timestamp come back in rowid  *)
(* order: SQLite fetches the rows of the session through the index on      *)
(* session_id, which is ordered by rowid, and its sorter is stable.        *)
(*                                                                         *)
(* A table is a sequence of rows in insertion (rowid) order; a row is any  *)
(* record with a field ts.                                                 *)
(***************************************************************************)
EXTENDS Naturals, Sequences, FiniteSets

\* Mutant: ORDER BY timestamp DESC.
ComesBeforeDescending(table, i, j) ==
    \/ table[i].ts > table[j].ts
    \/ table[i].ts = table[j].ts /\ i <= j

\* Row i is returned before row j, or is row j.
ComesBefore(table, i, j) ==
    \/ table[i].ts < table[j].ts
    \/ table[i].ts = table[j].ts /\ i <= j

\* The place row j takes in the result: how many rows come no later than it.
Rank(table, j) == Cardinality({i \in DOMAIN table : ComesBefore(table, i, j)})

\* The result of the SELECT.
LoadOrder(table) ==
    [k \in DOMAIN table |-> table[CHOOSE j \in DOMAIN table : Rank(table, j) = k]]

\* The rows were inserted in the order of their timestamps.
InTimeOrder(table) ==
    \A i, j \in DOMAIN table : i <= j => table[i].ts <= table[j].ts
=============================================================================
