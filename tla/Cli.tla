--------------------------------- MODULE Cli ---------------------------------
(***************************************************************************)
(* The command line demo on top of Setup: it initialises once, offers the  *)
(* first available model, and keeps the model in its prompt and a session, *)
(* created when the first message needs one.                               *)
(***************************************************************************)
EXTENDS Setup

VARIABLES
    running,        \* "starting", "reading" a line, or "ended"
    current_model,  \* the name in the prompt
    session         \* the model of the session in session_id, NoName if that is ""

cli == <<running, current_model, session>>

CliInit ==
    /\ SetupInit
    /\ running = IF program = "cli" THEN "starting" ELSE "ended"
    /\ current_model = NoName /\ session = NoName

\* initModels has returned.  std::map lists the names in order; which of them
\* comes first is left open.
Start ==
    /\ running = "starting"
    /\ inits > 0 /\ pc = "idle"
    /\ \/ /\ refused \/ Available = {}
          /\ running' = "ended" /\ UNCHANGED current_model
       \/ /\ ~refused
          /\ running' = "reading" /\ current_model' \in Available
    /\ UNCHANGED <<vars, setup, session>>

\* ChatSDK::createSession: an empty id when the model is not taken.
createSession(m) == session' = IF Accepts(m) THEN m ELSE NoName

New ==
    /\ running = "reading"
    /\ createSession(current_model)
    /\ UNCHANGED <<vars, setup, running, current_model>>

\* Mutant: a name that is not taken leaves the session as it is.
SwitchKeepsSession(m) ==
    /\ running = "reading"
    /\ current_model' = m
    /\ session' = IF Accepts(m) THEN m ELSE session
    /\ UNCHANGED <<vars, setup, running>>

\* "/model m": any name may be typed, and goes into the prompt.
Switch(m) ==
    /\ running = "reading"
    /\ current_model' = m
    /\ createSession(m)
    /\ UNCHANGED <<vars, setup, running>>

\* Any other line is a message; without a session it comes to nothing.
Say ==
    /\ running = "reading"
    /\ IF session = NoName THEN createSession(current_model) ELSE UNCHANGED session
    /\ IF session' = NoName THEN UNCHANGED vars ELSE Round(session')
    /\ UNCHANGED <<setup, running, current_model>>

Exit ==
    /\ running = "reading"
    /\ running' = "ended"
    /\ UNCHANGED <<vars, setup, current_model, session>>

CliNext ==
    \/ SetupNext /\ UNCHANGED cli
    \/ Start \/ New \/ Say \/ Exit
    \/ \E m \in Model : Switch(m)

CliSpec == CliInit /\ [][CliNext]_<<vars, setup, cli>>

\* A line typed at the prompt goes to the model the prompt shows, or, when
\* that cannot be used, to none: never to the session of an earlier model.
LinesGoWhereThePromptSays ==
    session # NoName => session = current_model /\ Accepts(session)
=============================================================================
