---------------------------- MODULE ChatRequests ----------------------------
(***************************************************************************)
(* ChatSDK::sendMessage and sendMessageStream: requests that run at once   *)
(* in one process, each on its own thread, over one router, the sessions   *)
(* and the metrics.                                                        *)
(*                                                                         *)
(* A request keeps nothing locked between its steps, so a step is the code *)
(* from one access to sessions or router to the next; pc is the step it    *)
(* takes next.  The metrics, which no code acts upon, are counted in the   *)
(* step before.  The wait for a provider lies inside a step: nobody sees   *)
(* how long it takes, and what it returns is any outcome the three         *)
(* providers can produce.                                                  *)
(*                                                                         *)
(* The router is the module Router after buildRouter has filled it: its    *)
(* registry does not change here, its breakers do.  A session is the log   *)
(* that SessionManager serves from memory (module SessionStore).  Of the   *)
(* database the model keeps the rows of the sessions that are out of       *)
(* memory, and its mutex: who asks for such a session locks it twice, and  *)
(* from then on everybody who needs the database waits for ever.           *)
(***************************************************************************)
EXTENDS Integers, Sequences, FiniteSets, SequencesExt, Functions

CONSTANTS
    Request, Session, Model, NoSession,
    Streams,        \* the requests that call sendMessageStream
    ModelOf,        \* Session::model_name
    Configured,     \* keys of ChatSDK::configs_
    Serving,        \* models with a provider that is initialised
    Backend, Weight, Fallbacks, Route,  \* the router's registry
    RecoverMs,
    MaxToolRounds,  \* max_tool_rounds, 5 in the code
    MaxAge          \* bound of Router

ASSUME RequestAssumption == Streams \subseteq Request /\ IsFiniteSet(Request)
ASSUME SessionAssumption == NoSession \notin Session /\ ModelOf \in [Session -> Model]
ASSUME ModelAssumption ==
    Configured \subseteq Model /\ Serving \subseteq Model /\ IsFiniteSet(Model)
ASSUME RegistryAssumption ==
    /\ Backend \subseteq Model /\ Weight \in [Model -> Nat]
    /\ Fallbacks \in [Model -> Seq(Model)] /\ Route \in [Model -> Seq(Model)]
    /\ RecoverMs \in Nat /\ MaxAge \in Nat \ {0} /\ MaxAge * 1000 > RecoverMs
ASSUME RoundsAssumption == MaxToolRounds \in Nat

VARIABLES
    live,         \* SessionManager::sessions_
    leaving,      \* erased from sessions_, but with a row in the database
    stuck,        \* DataManager::mutex_ is held by a thread that waits for it
    log,          \* Session::messages: who said it, and for which request
    tripped, age, \* the router's breakers
    succeeded, erred,     \* ModelMetrics::success_count and error_count
    pc, on,       \* each request's next step, and its session
    history,      \* the session's messages as the request read them
    attemptOrder,        \* attempt_order
    attempt,      \* index into it
    round,
    shown,        \* what the stream's callback was called with
    result,       \* what the call returned
    downNow,      \* history: the targets that failed in this round
    last,         \* history: what the last provider call came to
    calls,        \* history: provider calls of each request
    refusals      \* history: failed calls of each model

R == INSTANCE Router WITH
        backends <- Backend, weight <- Weight, fallback <- Fallbacks, routes <- Route,
        recoverAfterMs <- RecoverMs,
        Backends <- {}, Groups <- {}, RecoverTimes <- {RecoverMs}

sessions == <<live, leaving, stuck, log>>
breakers == <<tripped, age>>
metrics  == <<succeeded, erred>>
past     == <<downNow, last, calls, refusals>>
locals   == <<on, history, attemptOrder, attempt, round, shown>>
vars     == <<sessions, breakers, metrics, pc, locals, result, past>>

Said == [by : {"user", "assistant"}, for : Request]

TypeOK ==
    /\ live \in SUBSET Session
    /\ leaving \in SUBSET Session
    /\ stuck \in BOOLEAN
    /\ log \in [Session -> Seq(Said)]
    /\ tripped \in [Model -> BOOLEAN]
    /\ age \in [Model -> 0..MaxAge]
    /\ succeeded \in [Model -> Nat]
    /\ erred \in [Model -> Nat]
    /\ pc \in [Request -> {"idle", "ask", "read", "plan", "call", "stream", "answer", "done",
                          "hung"}]
    /\ on \in [Request -> Session \cup {NoSession}]
    /\ history \in [Request -> Seq(Said)]
    /\ attemptOrder \in [Request -> Seq(Model)]
    /\ attempt \in [Request -> Nat]
    /\ round \in [Request -> 0..MaxToolRounds]
    /\ shown \in [Request -> Seq([from : Model, is_last : BOOLEAN])]
    /\ result \in [Request -> {"none", "empty", "text", "exception"}]
    /\ downNow \in [Request -> SUBSET Model]
    /\ last \in [Request -> {"none", "failed", "text", "blank", "tools", "text_and_tools", "threw"}]
    /\ calls \in [Request -> Nat]
    /\ refusals \in [Model -> Nat]

Init ==
    /\ live = Session /\ leaving = {}
    /\ stuck = FALSE
    /\ log = [s \in Session |-> <<>>]
    /\ tripped = [m \in Model |-> FALSE]
    /\ age = [m \in Model |-> 0]
    /\ succeeded = [m \in Model |-> 0] /\ erred = [m \in Model |-> 0]
    /\ pc = [r \in Request |-> "idle"]
    /\ on = [r \in Request |-> NoSession]
    /\ history = [r \in Request |-> <<>>]
    /\ attemptOrder = [r \in Request |-> <<>>]
    /\ attempt = [r \in Request |-> 0]
    /\ round = [r \in Request |-> 0]
    /\ shown = [r \in Request |-> <<>>]
    /\ result = [r \in Request |-> "none"]
    /\ downNow = [r \in Request |-> {}]
    /\ last = [r \in Request |-> "none"]
    /\ calls = [r \in Request |-> 0]
    /\ refusals = [m \in Model |-> 0]

-----------------------------------------------------------------------------
(* From the call to the order of attempts. *)

Goto(r, step) == pc' = [pc EXCEPT ![r] = step] /\ UNCHANGED result

Return(r, value) ==
    /\ pc' = [pc EXCEPT ![r] = "done"]
    /\ result' = [result EXCEPT ![r] = value]

\* addMessage: does nothing if the session is gone, and nobody looks.
Say(r, by) ==
    log' = IF on[r] \in live
           THEN [log EXCEPT ![on[r]] = Append(@, [by |-> by, for |-> r])]
           ELSE log

Start(r) ==
    /\ pc[r] = "idle"
    /\ \E s \in live : on' = [on EXCEPT ![r] = s]
    /\ Goto(r, "ask")
    /\ UNCHANGED <<sessions, breakers, metrics, history, attemptOrder, attempt, round, shown, past>>

\* Neither memory nor database knows the session.
NoSuchSession(r) ==
    /\ pc[r] = "idle" /\ ~stuck
    /\ Return(r, "empty")
    /\ UNCHANGED <<sessions, breakers, metrics, locals, past>>

\* The session is out of memory and its row is not gone: DataManager::getSession
\* locks mutex_, and locks it again for the messages.  Or mutex_ is held already.
HangsInGetSession(r) ==
    /\ pc[r] = "idle"
    /\ leaving # {} \/ stuck
    /\ stuck' = TRUE
    /\ Goto(r, "hung")
    /\ UNCHANGED <<live, leaving, log, breakers, metrics, locals, past>>

\* Mutant: the history is taken before the question is added to it.
AskAfterReading(r) ==
    /\ pc[r] = "ask"
    /\ stuck => on[r] \notin live
    /\ Say(r, "user")
    /\ history' = [history EXCEPT ![r] = log[on[r]]]
    /\ IF ModelOf[on[r]] \in Configured THEN Goto(r, "plan") ELSE Return(r, "empty")
    /\ UNCHANGED <<live, leaving, stuck, breakers, metrics, on, attemptOrder, attempt, round, shown, past>>

\* The question is in the session before anything else is looked at: a session
\* of a model that is no longer configured keeps it too.
Ask(r) ==
    /\ pc[r] = "ask"
    /\ stuck => on[r] \notin live
    /\ Say(r, "user")
    /\ IF ModelOf[on[r]] \in Configured THEN Goto(r, "read") ELSE Return(r, "empty")
    /\ UNCHANGED <<live, leaving, stuck, breakers, metrics, locals, past>>

\* The messages of a session that was deleted meanwhile may still be on disk.
Read(r) ==
    /\ pc[r] = "read"
    /\ stuck => on[r] \in live
    /\ \E h \in {log[on[r]]} \cup (IF on[r] \in live THEN {} ELSE {<<>>}) :
           history' = [history EXCEPT ![r] = h]
    /\ Goto(r, "plan")
    /\ UNCHANGED <<sessions, breakers, metrics, on, attemptOrder, attempt, round, shown, past>>

\* The message is in memory, if the session still was, and its INSERT waits.
HangsInAddMessage(r) ==
    /\ pc[r] \in {"ask", "answer"} /\ stuck
    /\ Say(r, IF pc[r] = "ask" THEN "user" ELSE "assistant")
    /\ Goto(r, "hung")
    /\ UNCHANGED <<live, leaving, stuck, breakers, metrics, locals, past>>

\* The messages of a session that is not in memory are asked of the database.
HangsInGetHistory(r) ==
    /\ pc[r] = "read" /\ stuck /\ on[r] \notin live
    /\ Goto(r, "hung")
    /\ UNCHANGED <<sessions, breakers, metrics, locals, past>>

\* Mutant: a request without candidates looks again.
PlanAgain(r) ==
    /\ pc[r] = "plan"
    /\ \E p \in R!Plans(ModelOf[on[r]]) :
         /\ attemptOrder' = [attemptOrder EXCEPT ![r] = p]
         /\ Goto(r, IF p = <<>> THEN "plan" ELSE IF r \in Streams THEN "stream" ELSE "call")
    /\ attempt' = [attempt EXCEPT ![r] = 1]
    /\ UNCHANGED <<sessions, breakers, metrics, on, history, round, shown, past>>

Plan(r) ==
    /\ pc[r] = "plan"
    /\ \E p \in R!Plans(ModelOf[on[r]]) :
         /\ attemptOrder' = [attemptOrder EXCEPT ![r] = p]
         /\ IF p = <<>> THEN Return(r, "empty")
            ELSE Goto(r, IF r \in Streams THEN "stream" ELSE "call")
    /\ attempt' = [attempt EXCEPT ![r] = 1]
    /\ UNCHANGED <<sessions, breakers, metrics, on, history, round, shown, past>>

-----------------------------------------------------------------------------
(* One provider call, and what it does to breakers and metrics. *)

Target(r) == attemptOrder[r][attempt[r]]

Name(r) == ModelOf[on[r]]   \* the session's model, maybe a group

MarkDown(m) == IF m \in Backend THEN R!Trip(m) ELSE UNCHANGED breakers
MarkUp(m)   == IF m \in Backend THEN R!Reset(m) ELSE UNCHANGED breakers

Called(r, outcome) ==
    /\ calls' = [calls EXCEPT ![r] = @ + 1]
    /\ last' = [last EXCEPT ![r] = outcome]

\* Mutant: the last candidate is not tried.
FailsLast(r) ==
    /\ MarkDown(Target(r))
    /\ Called(r, "failed")
    /\ downNow' = [downNow EXCEPT ![r] = @ \cup {Target(r)}]
    /\ refusals' = [refusals EXCEPT ![Target(r)] = @ + 1]
    /\ IF attempt[r] + 1 < Len(attemptOrder[r])
       THEN /\ attempt' = [attempt EXCEPT ![r] = @ + 1]
            /\ UNCHANGED <<metrics, pc, result>>
       ELSE /\ erred' = [erred EXCEPT ![Name(r)] = @ + 1]
            /\ Return(r, "empty")
            /\ UNCHANGED <<attempt, succeeded>>
    /\ UNCHANGED <<sessions, on, history, attemptOrder, round>>

\* Mutant: every attempt that fails is an error of the request.
FailsEach(r) ==
    /\ MarkDown(Target(r))
    /\ Called(r, "failed")
    /\ downNow' = [downNow EXCEPT ![r] = @ \cup {Target(r)}]
    /\ refusals' = [refusals EXCEPT ![Target(r)] = @ + 1]
    /\ IF attempt[r] < Len(attemptOrder[r])
       THEN /\ attempt' = [attempt EXCEPT ![r] = @ + 1]
            /\ erred' = [erred EXCEPT ![Name(r)] = @ + 1]
            /\ UNCHANGED <<succeeded, pc, result>>
       ELSE /\ erred' = [erred EXCEPT ![Name(r)] = @ + 1]
            /\ Return(r, "empty")
            /\ UNCHANGED <<attempt, succeeded>>
    /\ UNCHANGED <<sessions, on, history, attemptOrder, round>>

\* The target failed: the next one, or the end of the request.
Fails(r) ==
    /\ MarkDown(Target(r))
    /\ Called(r, "failed")
    /\ downNow' = [downNow EXCEPT ![r] = @ \cup {Target(r)}]
    /\ refusals' = [refusals EXCEPT ![Target(r)] = @ + 1]
    /\ IF attempt[r] < Len(attemptOrder[r])
       THEN /\ attempt' = [attempt EXCEPT ![r] = @ + 1]
            /\ UNCHANGED <<metrics, pc, result>>
       ELSE /\ erred' = [erred EXCEPT ![Name(r)] = @ + 1]
            /\ Return(r, "empty")
            /\ UNCHANGED <<attempt, succeeded>>
    /\ UNCHANGED <<sessions, on, history, attemptOrder, round>>

\* The target replied.
Succeeds(r, outcome) ==
    /\ Target(r) \in Serving
    /\ MarkUp(Target(r))
    /\ succeeded' = [succeeded EXCEPT ![Target(r)] = @ + 1]
    /\ Called(r, outcome)
    /\ UNCHANGED <<sessions, on, history, attemptOrder, refusals>>

CallFails(r) ==
    /\ pc[r] = "call"
    /\ Fails(r)
    /\ UNCHANGED shown

\* Mutant: the next round starts from the question.
CallAsksForToolsAsking(r) ==
    /\ pc[r] = "call"
    /\ \E outcome \in {"tools", "text_and_tools"} : Succeeds(r, outcome)
    /\ IF round[r] < MaxToolRounds
       THEN /\ round' = [round EXCEPT ![r] = @ + 1]
            /\ attempt' = [attempt EXCEPT ![r] = 1]
            /\ downNow' = [downNow EXCEPT ![r] = {}]
            /\ Goto(r, "ask")
            /\ UNCHANGED erred
       ELSE /\ erred' = [erred EXCEPT ![Name(r)] = @ + 1]
            /\ Return(r, "empty")
            /\ UNCHANGED <<round, attempt, downNow>>
    /\ UNCHANGED shown

\* The reply asks for tools.  They are run and the next round starts over with
\* the order of attempts of the first; the last round's reply is dropped.
CallAsksForTools(r) ==
    /\ pc[r] = "call"
    /\ \E outcome \in {"tools", "text_and_tools"} : Succeeds(r, outcome)
    /\ IF round[r] < MaxToolRounds
       THEN /\ round' = [round EXCEPT ![r] = @ + 1]
            /\ attempt' = [attempt EXCEPT ![r] = 1]
            /\ downNow' = [downNow EXCEPT ![r] = {}]
            /\ UNCHANGED <<erred, pc, result>>
       ELSE /\ erred' = [erred EXCEPT ![Name(r)] = @ + 1]
            /\ Return(r, "empty")
            /\ UNCHANGED <<round, attempt, downNow>>
    /\ UNCHANGED shown

CallAnswers(r) ==
    /\ pc[r] = "call"
    /\ Succeeds(r, "text")
    /\ Goto(r, "answer")
    /\ UNCHANGED <<erred, attempt, round, shown, downNow>>

\* A successful reply with neither text nor tools counts twice in the metrics.
CallIsBlank(r) ==
    /\ pc[r] = "call"
    /\ Succeeds(r, "blank")
    /\ erred' = [erred EXCEPT ![Name(r)] = @ + 1]
    /\ Return(r, "empty")
    /\ UNCHANGED <<attempt, round, shown, downNow>>

-----------------------------------------------------------------------------
(* The same for a stream. *)

\* What one provider hands to the callback: text or none, then is_last once,
\* twice if the end was announced twice, or never.  A server sends no text
\* after it has announced the end.
Shows(r, text, ends) ==
    shown' = [shown EXCEPT ![r] = @
                \o (IF text THEN <<[from |-> Target(r), is_last |-> FALSE]>> ELSE <<>>)
                \o [i \in 1..ends |-> [from |-> Target(r), is_last |-> TRUE]]]

\* A 200 response whose JSON has a value of another type than expected where
\* the parser converts it: jsoncpp throws, and nothing catches.  A stream may have
\* shown something before.
CallThrows(r) ==
    /\ \/ pc[r] = "call" /\ UNCHANGED shown
       \/ pc[r] = "stream" /\ \E text \in BOOLEAN, ends \in 0..2 : Shows(r, text, ends)
    /\ Target(r) \in Serving
    /\ Called(r, "threw")
    /\ Return(r, "exception")
    /\ UNCHANGED <<sessions, breakers, metrics, on, history, attemptOrder, attempt, round,
                   downNow, refusals>>

\* Nothing was reached; the connection broke at any point; the stream had no
\* text; or the text was the word null.
StreamFails(r) ==
    /\ pc[r] = "stream"
    /\ \E text \in BOOLEAN, ends \in 0..2 :
         /\ text \/ ends > 0 => Target(r) \in Serving
         /\ Shows(r, text, ends)
    /\ Fails(r)

\* Mutant: the loop over the targets is not left after an answer.
StreamAnswersAndGoesOn(r) ==
    /\ pc[r] = "stream"
    /\ \E ends \in 1..2 : Shows(r, TRUE, ends)
    /\ Succeeds(r, "text")
    /\ IF attempt[r] < Len(attemptOrder[r])
       THEN attempt' = [attempt EXCEPT ![r] = @ + 1] /\ UNCHANGED <<pc, result>>
       ELSE Goto(r, "answer") /\ UNCHANGED attempt
    /\ UNCHANGED <<erred, round, downNow>>

\* A stream that ended without saying so is ended by the provider.
StreamAnswers(r) ==
    /\ pc[r] = "stream"
    /\ \E ends \in 1..2 : Shows(r, TRUE, ends)
    /\ Succeeds(r, "text")
    /\ Goto(r, "answer")
    /\ UNCHANGED <<erred, attempt, round, downNow>>

-----------------------------------------------------------------------------
Answer(r) ==
    /\ pc[r] = "answer"
    /\ stuck => on[r] \notin live
    /\ Say(r, "assistant")
    /\ Return(r, "text")
    /\ UNCHANGED <<live, leaving, stuck, breakers, metrics, locals, past>>

\* deleteSession, by anyone at any time: the session is taken out of memory ...
Delete(s) ==
    /\ s \in live
    /\ live' = live \ {s} /\ leaving' = leaving \cup {s}
    /\ UNCHANGED <<stuck, log, breakers, metrics, pc, locals, result, past>>

\* ... and out of the database, unless SQLite refuses or the mutex never comes free.
DeleteRow(s) ==
    /\ s \in leaving /\ ~stuck
    /\ leaving' = leaving \ {s}
    /\ UNCHANGED <<live, stuck, log, breakers, metrics, pc, locals, result, past>>

\* getSession of the same session by anyone who sends no message.
GetSession(s) ==
    /\ s \in leaving
    /\ stuck' = TRUE
    /\ UNCHANGED <<live, leaving, log, breakers, metrics, pc, locals, result, past>>

Tick == R!Older /\ UNCHANGED <<sessions, metrics, pc, locals, result, past>>

Proceed(r) ==
    \/ Ask(r) \/ Read(r) \/ Plan(r) \/ Answer(r)
    \/ CallFails(r) \/ CallAsksForTools(r) \/ CallAnswers(r) \/ CallIsBlank(r)
    \/ CallThrows(r) \/ StreamFails(r) \/ StreamAnswers(r)
    \/ HangsInAddMessage(r) \/ HangsInGetHistory(r)

Next ==
    \/ \E r \in Request : Start(r) \/ NoSuchSession(r) \/ HangsInGetSession(r) \/ Proceed(r)
    \/ \E s \in Session : Delete(s) \/ DeleteRow(s) \/ GetSession(s)
    \/ Tick

Spec == Init /\ [][Next]_vars

\* Each request has a thread of its own and every provider call ends: the client
\* has connect and read timeouts, and a server that keeps sending is assumed to
\* come to an end.
FairSpec == Spec /\ \A r \in Request : WF_vars(Proceed(r))

-----------------------------------------------------------------------------
(* Properties. *)

Has(q, by, r) == [by |-> by, for |-> r] \in ToSet(q)

\* However requests overlap on a session, each says its question once and its
\* answer at most once, an answer never stands before its own question, and a
\* text that was returned is in the conversation it was returned for, unless
\* that was deleted.  (ChatSDK.cc:118, 226-228, 250, 313-315)
ConversationsAreWellFormed ==
    /\ \A s \in Session : \A i, j \in DOMAIN log[s] :
         /\ log[s][i] = log[s][j] => i = j
         /\ log[s][i].by = "assistant" =>
                \E k \in 1..i : log[s][k] = [by |-> "user", for |-> log[s][i].for]
    /\ \A r \in Request :
         result[r] = "text" /\ on[r] \in live => Has(log[on[r]], "assistant", r)

\* However requests overlap, the messages a request is made from hold its own
\* question, unless the session is gone.  (What the context window then leaves of
\* them is another matter.)  (ChatSDK.cc:118, 133)
QuestionIsRead ==
    \A r \in Request :
        pc[r] \in {"plan", "call", "stream", "answer"} /\ on[r] \in live
            => Has(history[r], "user", r)

\* A request that comes back empty although it had a plan did not give up
\* early: in its last round every target of its plan, and every registered
\* member of the session's group, failed, or the model spent the rounds on tools, or replied with nothing.
\* (ChatSDK.cc:162-181, 193-197, 218; Router.cc:91-160)
FailureMeansAllFailed ==
    \A r \in Request :
        result[r] = "empty" /\ attemptOrder[r] # <<>> =>
            \/ /\ last[r] = "failed"
               /\ ToSet(attemptOrder[r]) \cup R!Registered(R!Members(Name(r))) \subseteq downNow[r]
            \/ last[r] \in {"tools", "text_and_tools"} /\ round[r] = MaxToolRounds
            \/ last[r] = "blank"

\* In one round no target is called again after it failed, unless its group
\* lists it twice.  (ChatSDK.cc:162, 286; Router.cc:70, 141)
NoTargetTwiceInARound ==
    \A r \in Request :
        pc[r] \in {"call", "stream"} /\ IsInjective(R!Members(Name(r)))
            => Target(r) \notin downNow[r]

\* A request calls providers at most once per target and round, whatever the
\* models ask for.  (ChatSDK.cc:152-156)
WorkIsBounded ==
    \A r \in Request : calls[r] <= (MaxToolRounds + 1) * Len(attemptOrder[r])

\* The metrics add up over all requests in flight: a success for every reply,
\* an error for every planned request that came back empty, and nothing else.
\* (ChatSDK.cc:178, 186, 220, 294, 307)
MetricsAddUp ==
    /\ SumFunction(calls) = SumFunction(succeeded) + SumFunction(refusals)
                            + Cardinality({r \in Request : last[r] = "threw"})
    /\ SumFunction(erred) =
         Cardinality({r \in Request : result[r] = "empty" /\ attemptOrder[r] # <<>>})

\* Nothing of another target follows on the callback of a stream unless the one
\* before has failed, and a returned text is closed by the target that answered: so
\* an answer is the last thing shown, and what stands before it broke off.
\* (ChatSDK.cc:286-301, OpenAICompatProvider.cc:229-233)
NothingFollowsTheAnswer ==
    \A r \in Streams :
        /\ \A i, j \in DOMAIN shown[r] :
             i < j /\ shown[r][i].from # shown[r][j].from => shown[r][i].from \in downNow[r]
        /\ result[r] = "text" =>
             shown[r] # <<>> /\ Last(shown[r]) = [from |-> Target(r), is_last |-> TRUE]

\* A stream goes to the next candidate when the connection could not be made or the
\* status was not 200 (the comment at ChatSDK.cc:276), that is, before anything was
\* shown: the callback cannot tell one target's text from another's.
FailoverBeforeTheFirstChunk ==
    \A r \in Streams : \A i, j \in DOMAIN shown[r] : shown[r][i].from = shown[r][j].from

\* Every call of the SDK returns, or waits for the database, whose mutex is free for
\* ever as long as nobody asks for a session between the two halves of its deletion.
\* (ChatSDK.cc:152-156, 286; SessionManager.cc:63, 155-157; DataManager.cc:99)
RequestsReturn ==
    \A r \in Request : pc[r] # "idle" ~> pc[r] = "done" \/ (stuck /\ pc[r] = "hung")
=============================================================================
