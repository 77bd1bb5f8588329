--------------------------- MODULE ConversationLog ---------------------------
(***************************************************************************)
(* What the session layer promises a client that uses each session from    *)
(* one place at a time: a log of messages per session, served from memory  *)
(* and written behind by at most one message, that a restart brings back   *)
(* as it was last written.                                                 *)
(*                                                                         *)
(* visible[s] is the log the process serves, durable[s] the log on disk;   *)
(* Absent stands for a session that is not there at all.                   *)
(***************************************************************************)
EXTENDS Sequences, SequencesExt

CONSTANTS Sid, Message, Absent

VARIABLES visible, durable

vars == <<visible, durable>>

TypeOK ==
    /\ visible \in [Sid -> Seq(Message) \cup {Absent}]
    /\ durable \in [Sid -> Seq(Message) \cup {Absent}]

Init ==
    /\ visible = [s \in Sid |-> Absent]
    /\ durable = [s \in Sid |-> Absent]

\* A new session appears in memory, and only later on disk.
Create(s) ==
    /\ visible[s] = Absent
    /\ durable[s] = Absent
    /\ visible' = [visible EXCEPT ![s] = <<>>]
    /\ UNCHANGED durable

Save(s) ==
    /\ visible[s] = <<>>
    /\ durable[s] = Absent
    /\ durable' = [durable EXCEPT ![s] = <<>>]
    /\ UNCHANGED visible

\* A message is appended only to a log that has been written completely.
Extend(s, m) ==
    /\ visible[s] # Absent
    /\ durable[s] = visible[s]
    /\ visible' = [visible EXCEPT ![s] = Append(@, m)]
    /\ UNCHANGED durable

\* The appended message reaches the disk.
Persist(s) ==
    /\ visible[s] # Absent
    /\ durable[s] # Absent
    /\ visible[s] # <<>>
    /\ durable[s] = Front(visible[s])
    /\ durable' = [durable EXCEPT ![s] = visible[s]]
    /\ UNCHANGED visible

\* A deleted session leaves memory first, then its messages go, then itself.
Forget(s) ==
    /\ visible[s] # Absent
    /\ durable[s] = visible[s]
    /\ visible' = [visible EXCEPT ![s] = Absent]
    /\ UNCHANGED durable

Purge(s) ==
    /\ visible[s] = Absent
    /\ durable[s] # Absent
    /\ durable' = [durable EXCEPT ![s] = <<>>]
    /\ UNCHANGED visible

Drop(s) ==
    /\ visible[s] = Absent
    /\ durable[s] = <<>>
    /\ durable' = [durable EXCEPT ![s] = Absent]
    /\ UNCHANGED visible

\* Clearing everything empties memory at once, and later the disk at once.
ForgetAll ==
    /\ durable = visible
    /\ visible' = [s \in Sid |-> Absent]
    /\ UNCHANGED durable

DropAll ==
    /\ visible = [s \in Sid |-> Absent]
    /\ durable' = [s \in Sid |-> Absent]
    /\ UNCHANGED visible

\* The process dies and a new one serves what is on disk.
Recover ==
    /\ visible' = durable
    /\ UNCHANGED durable

Next ==
    \/ \E s \in Sid : Create(s) \/ Save(s) \/ Persist(s)
                      \/ Forget(s) \/ Purge(s) \/ Drop(s)
    \/ \E s \in Sid, m \in Message : Extend(s, m)
    \/ ForgetAll
    \/ DropAll
    \/ Recover

Spec == Init /\ [][Next]_vars
=============================================================================
