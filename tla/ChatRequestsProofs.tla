------------------------- MODULE ChatRequestsProofs -------------------------
(***************************************************************************)
(* Proofs about ChatRequests, for any requests, sessions and registry.     *)
(*                                                                         *)
(* Standing says of each request where it is: that the targets before the  *)
(* current one have failed, that its calls fit into the rounds so far, and *)
(* that its order of attempts is a plan with what Router promises of one.  *)
(* A step changes one request only (Alone), the others keep what they have *)
(* (Frame), so there is one lemma for each kind of step of the request     *)
(* that acts.  The facts about plans are not proved again: they are        *)
(* Router's own lemmas, instantiated (P), whose plans are those of         *)
(* ChatRequests' own instance R (SamePlans).                               *)
(*                                                                         *)
(* Talking says who has said what: no message twice, no answer before its  *)
(* question, and for each step of a request whether its question and its   *)
(* answer are already in the conversation.  Streamed says whose chunks a   *)
(* stream has shown, in what order.  Counted adds to them, request by request, *)
(* what each has booked, and sums it with SumTheorems: MetricsCorrect.     *)
(* RequestsReturn needs fairness: TLC checks it.                           *)
(***************************************************************************)
EXTENDS ChatRequests, SumTheorems, SequenceTheorems, TLAPS

P == INSTANCE RouterProofs WITH
        backends <- Backend, weight <- Weight, fallback <- Fallbacks, routes <- Route,
        recoverAfterMs <- RecoverMs,
        Backends <- {}, Groups <- {}, RecoverTimes <- {RecoverMs}

\* The registry of the requests is a registry the router's theorems speak of.
LEMMA RouterAssumptions ==
  /\ P!BackendsAssumption /\ P!GroupsAssumption
  /\ P!RecoverTimesAssumption /\ P!MaxAgeAssumption
BY RegistryAssumption
   DEF P!BackendsAssumption, P!GroupsAssumption, P!RecoverTimesAssumption, P!MaxAgeAssumption

\* Router is instantiated twice, by ChatRequests (R) and with its proofs (P):
\* the two have the same plans, operator by operator.
LEMMA SamePlans ==
  ASSUME NEW m
  PROVE  R!Plans(m) \subseteq P!Plans(m)
<1>1. \A S : P!Cardinality(S) = R!Cardinality(S)
  BY DEF P!Cardinality, R!Cardinality
<1>2. \A S, T : P!Bijection(S, T) = R!Bijection(S, T)
  BY DEF P!Bijection, R!Bijection, P!Injection, R!Injection, P!Surjection, R!Surjection, P!IsInjective, R!IsInjective
<1>3. \A q : P!ToSet(q) = R!ToSet(q)
  BY DEF P!ToSet, R!ToSet
<1>4. \A list : P!EligibleAt(list) = R!EligibleAt(list) /\ P!DownAt(list) = R!DownAt(list)
  BY DEF P!EligibleAt, R!EligibleAt, P!DownAt, R!DownAt, P!Eligible, R!Eligible, P!Healthy, R!Healthy
<1>5. \A list : P!Primaries(list) = R!Primaries(list)
  BY <1>4 DEF P!Primaries, R!Primaries
<1>6. \A list, p : P!Kept(list, p) = R!Kept(list, p)
  BY <1>4 DEF P!Kept, R!Kept
<1>7. \A list, p, x, y : P!GoesBefore(list, p, x, y) <=> R!GoesBefore(list, p, x, y)
  BY <1>4 DEF P!GoesBefore, R!GoesBefore
<1>8. \A list, p : P!Arrangements(list, p) = R!Arrangements(list, p)
  <2> TAKE list, p
  <2>1. P!Cardinality(P!Kept(list, p)) = R!Cardinality(R!Kept(list, p))
    BY <1>1, <1>6
  <2>2. P!Bijection(1..P!Cardinality(P!Kept(list, p)), P!Kept(list, p))
          = R!Bijection(1..R!Cardinality(R!Kept(list, p)), R!Kept(list, p))
    BY <2>1, <1>2, <1>6
  <2>3. \A o : o \in P!Arrangements(list, p) <=> o \in R!Arrangements(list, p)
    BY <2>1, <2>2, <1>7 DEF P!Arrangements, R!Arrangements
  <2> QED
    BY <2>3, Zenon
<1>9. \A list : P!BuildOrder(list) = R!BuildOrder(list)
  BY <1>5, <1>8 DEF P!BuildOrder, R!BuildOrder
<1>10. \A order, K : P!Chained(order, K) = R!Chained(order, K)
  BY <1>3 DEF P!Chained, R!Chained
<1>11. \A order, K : P!Appended(order, K) = R!Appended(order, K)
  <2> TAKE order, K
  <2>1. P!Bijection(1..P!Cardinality(P!Chained(order, K)), P!Chained(order, K))
          = R!Bijection(1..R!Cardinality(R!Chained(order, K)), R!Chained(order, K))
    BY <1>1, <1>2, <1>10
  <2>2. \A f, h : P!MetBefore(order, K, f, h) <=> R!MetBefore(order, K, f, h)
    BY DEF P!MetBefore, R!MetBefore
  <2>3. \A e : e \in P!Appended(order, K) <=> e \in R!Appended(order, K)
    BY <2>1, <2>2 DEF P!Appended, R!Appended
  <2> QED
    BY <2>3, Zenon
<1>12. \A order, c : P!Reads(order, c) = R!Reads(order, c)
  BY <1>1, <1>10 DEF P!Reads, R!Reads
<1>13. \A list : P!Reserved(list) = R!Reserved(list)
  BY <1>1, <1>4 DEF P!Reserved, R!Reserved
<1>14. P!Members(m) = R!Members(m)
  BY DEF P!Members, R!Members
<1>15. P!Reserved(P!Members(m)) = R!Reserved(R!Members(m))
  BY <1>13, <1>14
<1>16. ASSUME NEW p \in R!Plans(m) PROVE p \in P!Plans(m)
  <2>1. PICK order \in R!BuildOrder(R!Members(m)) :
          p \in {order \o e : e \in UNION {R!Appended(order, K) :
                                 K \in R!Reads(order, R!Reserved(R!Members(m)))}}
    BY <1>16 DEF R!Plans
  <2>2. PICK e \in UNION {R!Appended(order, K) :
                      K \in R!Reads(order, R!Reserved(R!Members(m)))} : p = order \o e
    BY <2>1
  <2>3. order \in P!BuildOrder(P!Members(m))
    BY <1>9, <1>14
  <2>4. e \in UNION {P!Appended(order, K) :
                      K \in P!Reads(order, P!Reserved(P!Members(m)))}
    BY <1>11, <1>12, <1>15
  <2> QED
    BY <2>2, <2>3, <2>4 DEF P!Plans
<1> QED
  BY <1>16

\* A plan is a sequence of models.
LEMMA PlanType ==
  ASSUME P!TypeOK, NEW m \in Model, NEW p \in P!Plans(m)
  PROVE  p \in Seq(Model)
<1>1. PICK order \in P!BuildOrder(P!Members(m)), e \in Seq(Model) : P!Parts(P!Members(m), p, order, e)
  BY RouterAssumptions, P!Planned
<1> QED
  BY <1>1 DEF P!Parts

\* The breakers and the registry of the requests are a typed router.
LEMMA RouterType ==
  ASSUME TypeOK
  PROVE  P!TypeOK
BY RegistryAssumption DEF TypeOK, P!TypeOK, P!AtLeastZero

-----------------------------------------------------------------------------
(* Types. *)

\* The initial state is typed.
LEMMA TypeInit == Init => TypeOK
<1> SUFFICES ASSUME Init PROVE TypeOK
  OBVIOUS
<1>1. stuck \in BOOLEAN
  BY DEF Init
<1>2. /\ live \in SUBSET Session /\ leaving \in SUBSET Session
      /\ on \in [Request -> Session \cup {NoSession}]
  BY DEF Init
<1> QED
  BY <1>1, <1>2, RegistryAssumption, RoundsAssumption DEF Init, TypeOK

\* The order of attempts that Plan keeps is a sequence of models (ChatSDK.cc:144).
LEMMA PlanStepType ==
  ASSUME TypeOK, NEW r \in Request, pc[r] = "plan", on[r] \in Session, Plan(r)
  PROVE  attemptOrder' \in [Request -> Seq(Model)]
<1>1. ModelOf[on[r]] \in Model
  BY SessionAssumption
<1> QED
  BY <1>1, RouterType, PlanType, SamePlans DEF Plan, TypeOK

\* A request inside a call has a session.
Placed ==
    \A r \in Request :
        pc[r] \in {"ask", "read", "plan", "call", "stream", "answer"} => on[r] \in Session

\* One that calls has a target.
Aiming ==
    \A r \in Request :
        pc[r] \in {"call", "stream"} => attempt[r] \in DOMAIN attemptOrder[r]

Steps == {"idle", "ask", "read", "plan", "call", "stream", "answer", "done", "hung"}

\* What the common parts of the actions keep typed.
LEMMA SayType ==
  ASSUME TypeOK, NEW r \in Request, on[r] \in Session,
         NEW by \in {"user", "assistant"}, Say(r, by)
  PROVE  log' \in [Session -> Seq(Said)]
<1>1. [by |-> by, for |-> r] \in Said
  BY DEF Said
<1>2. Append(log[on[r]], [by |-> by, for |-> r]) \in Seq(Said)
  BY <1>1 DEF TypeOK
<1> QED
  BY <1>2 DEF Say, TypeOK

\* A return keeps steps and results typed.
LEMMA ReturnType ==
  ASSUME TypeOK, NEW r \in Request, NEW v \in {"empty", "text", "exception"}, Return(r, v)
  PROVE  pc' \in [Request -> Steps] /\ result' \in [Request -> {"none", "empty", "text", "exception"}]
BY DEF Return, TypeOK, Steps

\* Reporting a target, known to the router or not, keeps the breakers typed
\* (Router.cc:162-186).
LEMMA MarkType ==
  ASSUME TypeOK, NEW m \in Model, MarkDown(m) \/ MarkUp(m)
  PROVE  tripped' \in [Model -> BOOLEAN] /\ age' \in [Model -> 0..MaxAge]
<1>1. tripped \in [Model -> BOOLEAN] /\ age \in [Model -> 0..MaxAge]
  BY DEF TypeOK
<1>2. MaxAge \in Nat
  BY RegistryAssumption
<1>3. 0 \in 0..MaxAge
  BY <1>2
<1>4. \/ tripped' = [tripped EXCEPT ![m] = TRUE] /\ age' = [age EXCEPT ![m] = 0]
      \/ tripped' = [tripped EXCEPT ![m] = FALSE] /\ age' = [age EXCEPT ![m] = 0]
      \/ tripped' = tripped /\ age' = age
  BY DEF MarkDown, MarkUp, R!Trip, R!Reset, breakers
<1>5. age' \in [Model -> 0..MaxAge]
  BY <1>1, <1>3, <1>4
<1>6. tripped' \in [Model -> BOOLEAN]
  BY <1>1, <1>4, Zenon
<1> QED
  BY <1>5, <1>6

Outcomes == {"none", "failed", "text", "blank", "tools", "text_and_tools", "threw"}

\* Booking a provider call keeps the history variables typed.
LEMMA CalledType ==
  ASSUME TypeOK, NEW r \in Request, NEW o \in Outcomes, Called(r, o)
  PROVE  calls' \in [Request -> Nat] /\ last' \in [Request -> Outcomes]
BY DEF Called, TypeOK, Outcomes

\* A request that calls has a target, and its session a model.
LEMMA TargetType ==
  ASSUME TypeOK, Placed, Aiming, NEW r \in Request, pc[r] \in {"call", "stream"}
  PROVE  /\ Target(r) \in Model /\ Name(r) \in Model
         /\ attempt[r] \in 1..Len(attemptOrder[r]) /\ Len(attemptOrder[r]) \in Nat
<1>1. attempt \in [Request -> Nat] /\ attemptOrder \in [Request -> Seq(Model)]
  BY DEF TypeOK
<1>2. attempt[r] \in DOMAIN attemptOrder[r] /\ attemptOrder[r] \in Seq(Model)
  BY <1>1 DEF Aiming
<1>3. on[r] \in Session
  BY DEF Placed
<1> QED
  BY <1>2, <1>3, SessionAssumption DEF Target, Name

\* What a provider hands to the callback are chunks (common.h, StreamCallback).
LEMMA ShowsType ==
  ASSUME TypeOK, NEW r \in Request, Target(r) \in Model,
         NEW text \in BOOLEAN, NEW ends \in 0..2, Shows(r, text, ends)
  PROVE  shown' \in [Request -> Seq([from : Model, is_last : BOOLEAN])]
<1> DEFINE Chunk == [from : Model, is_last : BOOLEAN]
<1>1. shown[r] \in Seq(Chunk)
  BY DEF TypeOK
<1>2. (IF text THEN <<[from |-> Target(r), is_last |-> FALSE]>> ELSE <<>>) \in Seq(Chunk)
  <2> DEFINE chunk == [from |-> Target(r), is_last |-> FALSE]
  <2>1. chunk \in Chunk
    OBVIOUS
  <2> HIDE DEF chunk, Chunk
  <2>2. <<chunk>> \in Seq(Chunk) /\ <<>> \in Seq(Chunk)
    BY <2>1
  <2>3. (IF text THEN <<chunk>> ELSE <<>>) \in Seq(Chunk)
    BY <2>2
  <2> QED
    BY <2>3 DEF chunk
<1>3. [i \in 1..ends |-> [from |-> Target(r), is_last |-> TRUE]] \in Seq(Chunk)
  <2> DEFINE chunk == [from |-> Target(r), is_last |-> TRUE]
  <2>1. chunk \in Chunk /\ ends \in Nat
    OBVIOUS
  <2> HIDE DEF chunk, Chunk
  <2>2. [i \in 1..ends |-> chunk] \in [1..ends -> Chunk]
    BY <2>1
  <2>3. [i \in 1..ends |-> chunk] \in Seq(Chunk)
    BY <2>1, <2>2, SeqDef
  <2> QED
    BY <2>3 DEF chunk
<1> DEFINE a == IF text THEN <<[from |-> Target(r), is_last |-> FALSE]>> ELSE <<>>
           b == [i \in 1..ends |-> [from |-> Target(r), is_last |-> TRUE]]
<1>4. shown[r] \o a \o b \in Seq(Chunk)
  <2> HIDE DEF a, b, Chunk
  <2> QED
    <3>1. a \in Seq(Chunk) /\ b \in Seq(Chunk)
      BY <1>2, <1>3 DEF a, b
    <3> QED
      BY <1>1, <3>1
<1>5. shown' = [shown EXCEPT ![r] = shown[r] \o a \o b]
  BY DEF Shows, TypeOK
<1> QED
  <2> HIDE DEF a, b, Chunk
  <2> QED
    BY <1>4, <1>5 DEF TypeOK, Chunk

\* A failed attempt keeps all variables typed (ChatSDK.cc:168-181).
LEMMA FailsType ==
  ASSUME TypeOK, Placed, Aiming, NEW r \in Request, pc[r] \in {"call", "stream"}, Fails(r),
         shown' \in [Request -> Seq([from : Model, is_last : BOOLEAN])]
  PROVE  TypeOK'
<1>1. Target(r) \in Model /\ Name(r) \in Model
  BY TargetType
<1>2. tripped' \in [Model -> BOOLEAN] /\ age' \in [Model -> 0..MaxAge]
  BY <1>1, MarkType DEF Fails
<1>3. calls' \in [Request -> Nat] /\ last' \in [Request -> Outcomes]
  BY CalledType DEF Fails, Outcomes
<1>4. downNow' \in [Request -> SUBSET Model] /\ refusals' \in [Model -> Nat]
  <2>1. downNow \in [Request -> SUBSET Model] /\ refusals \in [Model -> Nat]
    BY DEF TypeOK
  <2> QED
    BY <1>1, <2>1 DEF Fails
<1>5. /\ pc' \in [Request -> Steps]
      /\ result' \in [Request -> {"none", "empty", "text", "exception"}]
      /\ erred' \in [Model -> Nat] /\ succeeded' \in [Model -> Nat]
      /\ attempt' \in [Request -> Nat]
  <2> /\ pc \in [Request -> Steps]
      /\ result \in [Request -> {"none", "empty", "text", "exception"}]
      /\ erred \in [Model -> Nat] /\ succeeded \in [Model -> Nat]
      /\ attempt \in [Request -> Nat]
    BY DEF TypeOK, Steps
  <2>1. CASE attempt[r] < Len(attemptOrder[r])
    <3>1. attempt' = [attempt EXCEPT ![r] = @ + 1] /\ UNCHANGED <<erred, succeeded, pc, result>>
      BY <2>1 DEF Fails, metrics
    <3> QED
      BY <3>1
  <2>2. CASE ~(attempt[r] < Len(attemptOrder[r]))
    <3>1. /\ erred' = [erred EXCEPT ![Name(r)] = @ + 1]
          /\ Return(r, "empty") /\ UNCHANGED <<attempt, succeeded>>
      BY <2>2 DEF Fails
    <3> QED
      BY <1>1, <3>1, ReturnType
  <2> QED
    BY <2>1, <2>2
<1> QED
  BY <1>2, <1>3, <1>4, <1>5 DEF Fails, TypeOK, sessions, Steps, Outcomes

\* A reply keeps what it changes typed and the sessions alone (ChatSDK.cc:183-187).
LEMMA SucceedsType ==
  ASSUME TypeOK, Placed, Aiming, NEW r \in Request, pc[r] \in {"call", "stream"},
         NEW o \in Outcomes, Succeeds(r, o)
  PROVE  /\ tripped' \in [Model -> BOOLEAN] /\ age' \in [Model -> 0..MaxAge]
         /\ calls' \in [Request -> Nat] /\ last' \in [Request -> Outcomes]
         /\ succeeded' \in [Model -> Nat]
         /\ UNCHANGED <<live, leaving, stuck, log, on, history, attemptOrder, refusals>>
<1>1. Target(r) \in Model
  BY TargetType
<1>2. succeeded \in [Model -> Nat]
  BY DEF TypeOK
<1> QED
  BY <1>1, <1>2, MarkType, CalledType DEF Succeeds, sessions

\* Every step keeps all variables typed, provided requests inside a call have
\* a session and those that call have a target.
LEMMA TypeStep == TypeOK /\ Placed /\ Aiming /\ [Next]_vars => TypeOK'
<1> SUFFICES ASSUME TypeOK, Placed, Aiming, [Next]_vars PROVE TypeOK'
  OBVIOUS
<1> USE DEF sessions, breakers, metrics, past, locals, vars, Steps, Outcomes
<1>1. ASSUME NEW r \in Request, Start(r) PROVE TypeOK'
  BY <1>1 DEF Start, Goto, TypeOK
<1>2. ASSUME NEW r \in Request, NoSuchSession(r) PROVE TypeOK'
  BY <1>2, ReturnType DEF NoSuchSession, TypeOK
<1>3. ASSUME NEW r \in Request, Ask(r) PROVE TypeOK'
  <2>1. log' \in [Session -> Seq(Said)]
    BY <1>3, SayType DEF Ask, Placed
  <2>2. pc' \in [Request -> Steps] /\ result' \in [Request -> {"none", "empty", "text", "exception"}]
    BY <1>3, ReturnType DEF Ask, Goto, TypeOK
  <2> QED
    BY <1>3, <2>1, <2>2 DEF Ask, TypeOK
<1>4. ASSUME NEW r \in Request, Read(r) PROVE TypeOK'
  <2>1. history' \in [Request -> Seq(Said)]
    <3>1. history \in [Request -> Seq(Said)] /\ log \in [Session -> Seq(Said)] /\ on[r] \in Session
      BY <1>4 DEF Read, Placed, TypeOK
    <3>2. PICK h \in {log[on[r]]} \cup (IF on[r] \in live THEN {} ELSE {<<>>}) :
                 history' = [history EXCEPT ![r] = h]
      BY <1>4 DEF Read
    <3>3. h \in Seq(Said)
      <4>1. h = log[on[r]] \/ h = <<>>
        BY <3>2
      <4>2. log[on[r]] \in Seq(Said) /\ <<>> \in Seq(Said)
        BY <3>1
      <4> QED
        BY <4>1, <4>2
    <3> QED
      BY <3>1, <3>2, <3>3
  <2> QED
    BY <1>4, <2>1 DEF Read, Goto, TypeOK
<1>5. ASSUME NEW r \in Request, Plan(r) PROVE TypeOK'
  <2>1. attemptOrder' \in [Request -> Seq(Model)]
    BY <1>5, PlanStepType DEF Plan, Placed
  <2>2. pc' \in [Request -> Steps] /\ result' \in [Request -> {"none", "empty", "text", "exception"}]
    BY <1>5, ReturnType DEF Plan, Goto, TypeOK
  <2> QED
    BY <1>5, <2>1, <2>2 DEF Plan, TypeOK
<1>6. ASSUME NEW r \in Request, Answer(r) PROVE TypeOK'
  <2>1. log' \in [Session -> Seq(Said)]
    BY <1>6, SayType DEF Answer, Placed
  <2> QED
    BY <1>6, <2>1, ReturnType DEF Answer, TypeOK
<1>7. ASSUME NEW s \in Session, Delete(s) PROVE TypeOK'
  BY <1>7 DEF Delete, TypeOK
<1>8. CASE Tick
  <2>1. age' \in [Model -> 0..MaxAge]
    BY <1>8, RegistryAssumption DEF Tick, R!Older, TypeOK
  <2> QED
    BY <1>8, <2>1 DEF Tick, R!Older, TypeOK
<1>9. CASE UNCHANGED vars
  BY <1>9 DEF TypeOK
<1>10. ASSUME NEW r \in Request, CallFails(r) PROVE TypeOK'
  BY <1>10, FailsType DEF CallFails, TypeOK
<1>11. ASSUME NEW r \in Request, StreamFails(r) PROVE TypeOK'
  <2>1. Target(r) \in Model
    BY <1>11, TargetType DEF StreamFails
  <2>2. shown' \in [Request -> Seq([from : Model, is_last : BOOLEAN])]
    BY <1>11, <2>1, ShowsType DEF StreamFails
  <2> QED
    BY <1>11, <2>2, FailsType DEF StreamFails
<1>12. ASSUME NEW r \in Request, StreamAnswers(r) PROVE TypeOK'
  <2>1. Target(r) \in Model
    BY <1>12, TargetType DEF StreamAnswers
  <2>2. shown' \in [Request -> Seq([from : Model, is_last : BOOLEAN])]
    <3>1. PICK ends \in 1..2 : Shows(r, TRUE, ends)
      BY <1>12 DEF StreamAnswers
    <3>2. ends \in 0..2 /\ TRUE \in BOOLEAN
      OBVIOUS
    <3> QED
      BY <2>1, <3>1, <3>2, ShowsType
  <2> QED
    BY <1>12, <2>2, SucceedsType DEF StreamAnswers, Goto, TypeOK
<1>13. ASSUME NEW r \in Request, CallAnswers(r) PROVE TypeOK'
  BY <1>13, SucceedsType DEF CallAnswers, Goto, TypeOK
<1>14. ASSUME NEW r \in Request, CallIsBlank(r) PROVE TypeOK'
  <2>1. erred' \in [Model -> Nat]
    <3>1. erred \in [Model -> Nat] /\ Name(r) \in Model
      BY <1>14, TargetType DEF CallIsBlank, TypeOK
    <3> QED
      BY <1>14, <3>1 DEF CallIsBlank
  <2> QED
    BY <1>14, <2>1, SucceedsType, ReturnType DEF CallIsBlank, TypeOK
<1>15. ASSUME NEW r \in Request, CallThrows(r) PROVE TypeOK'
  <2>1. Target(r) \in Model
    BY <1>15, TargetType DEF CallThrows
  <2>2. shown' \in [Request -> Seq([from : Model, is_last : BOOLEAN])]
    BY <1>15, <2>1, ShowsType DEF CallThrows, TypeOK
  <2> QED
    BY <1>15, <2>2, CalledType, ReturnType DEF CallThrows, TypeOK
<1>16. ASSUME NEW r \in Request, CallAsksForTools(r) PROVE TypeOK'
  <2>1. PICK o \in {"tools", "text_and_tools"} : Succeeds(r, o)
    BY <1>16 DEF CallAsksForTools
  <2>2. /\ pc' \in [Request -> Steps]
        /\ result' \in [Request -> {"none", "empty", "text", "exception"}]
        /\ erred' \in [Model -> Nat]
        /\ round' \in [Request -> 0..MaxToolRounds]
        /\ attempt' \in [Request -> Nat] /\ downNow' \in [Request -> SUBSET Model]
    <3> /\ pc \in [Request -> Steps]
        /\ result \in [Request -> {"none", "empty", "text", "exception"}]
        /\ erred \in [Model -> Nat] /\ round \in [Request -> 0..MaxToolRounds]
        /\ attempt \in [Request -> Nat] /\ downNow \in [Request -> SUBSET Model]
      BY DEF TypeOK
    <3>1. CASE round[r] < MaxToolRounds
      BY <1>16, <3>1, RoundsAssumption DEF CallAsksForTools
    <3>2. CASE ~(round[r] < MaxToolRounds)
      <4>1. Name(r) \in Model
        BY <1>16, TargetType DEF CallAsksForTools
      <4> QED
        BY <1>16, <3>2, <4>1, ReturnType DEF CallAsksForTools
    <3> QED
      BY <3>1, <3>2
  <2> QED
    BY <1>16, <2>1, <2>2, SucceedsType DEF CallAsksForTools, TypeOK
<1>17. ASSUME NEW r \in Request, HangsInGetSession(r) \/ HangsInGetHistory(r) PROVE TypeOK'
  BY <1>17 DEF HangsInGetSession, HangsInGetHistory, Goto, TypeOK
<1>18. ASSUME NEW r \in Request, HangsInAddMessage(r) PROVE TypeOK'
  <2>1. log' \in [Session -> Seq(Said)]
    BY <1>18, SayType DEF HangsInAddMessage, Placed
  <2> QED
    BY <1>18, <2>1 DEF HangsInAddMessage, Goto, TypeOK
<1>19. ASSUME NEW s \in Session, DeleteRow(s) \/ GetSession(s) PROVE TypeOK'
  BY <1>19 DEF DeleteRow, GetSession, TypeOK
<1> QED
  BY <1>1, <1>2, <1>3, <1>4, <1>5, <1>6, <1>7, <1>8, <1>9, <1>10, <1>11, <1>12,
     <1>13, <1>14, <1>15, <1>16, <1>17, <1>18, <1>19 DEF Next, Proceed

-----------------------------------------------------------------------------
(* Where a request stands: the inductive invariant, request by request. *)

Inside(r) ==
    pc[r] \in {"ask", "read", "plan", "call", "stream", "answer"} => on[r] \in Session

Fresh(r) ==
    pc[r] \in {"idle", "ask", "read", "plan"} =>
        attemptOrder[r] = <<>> /\ round[r] = 0 /\ calls[r] = 0 /\ downNow[r] = {}

\* The targets before the current one have failed; the calls so far fit into the
\* rounds before and this one; and the order is a plan of the session's model.
Calling(r) ==
    pc[r] \in {"call", "stream"} =>
        /\ attempt[r] \in 1..Len(attemptOrder[r])
        /\ downNow[r] = {attemptOrder[r][x] : x \in 1..(attempt[r] - 1)}
        /\ calls[r] <= round[r] * Len(attemptOrder[r]) + attempt[r] - 1
        /\ IsInjective(R!Members(Name(r))) => IsInjective(attemptOrder[r])
        /\ R!Registered(R!Members(Name(r))) \subseteq ToSet(attemptOrder[r])

Spent(r) ==
    pc[r] \in {"answer", "done", "hung"} => calls[r] <= (MaxToolRounds + 1) * Len(attemptOrder[r])

\* Only a request that is done has a result, and an empty one has its reason.
Returned(r) ==
    /\ pc[r] # "done" => result[r] = "none"
    /\ result[r] = "empty" /\ attemptOrder[r] # <<>> =>
           \/ /\ last[r] = "failed"
              /\ ToSet(attemptOrder[r]) \cup R!Registered(R!Members(Name(r))) \subseteq downNow[r]
           \/ last[r] \in {"tools", "text_and_tools"} /\ round[r] = MaxToolRounds
           \/ last[r] = "blank"

Each(r) == Inside(r) /\ Fresh(r) /\ Calling(r) /\ Spent(r) /\ Returned(r)

Standing == TypeOK /\ \A r \in Request : Each(r)

\* Request q is not touched.
Same(q) ==
    /\ pc'[q] = pc[q] /\ on'[q] = on[q] /\ attemptOrder'[q] = attemptOrder[q]
    /\ attempt'[q] = attempt[q] /\ round'[q] = round[q] /\ calls'[q] = calls[q]
    /\ downNow'[q] = downNow[q] /\ last'[q] = last[q] /\ result'[q] = result[q]

\* What holds of a request goes on holding while nobody touches it.
LEMMA Frame ==
  ASSUME NEW q \in Request, Each(q), Same(q)
  PROVE  Each(q)'
BY DEF Each, Same, Inside, Fresh, Calling, Spent, Returned, Name, R!Members, R!Registered

Acts(r) == Start(r) \/ NoSuchSession(r) \/ HangsInGetSession(r) \/ Proceed(r)

\* The steps that never come back, and those of nobody who sends a message.
Hangs(r) == HangsInGetSession(r) \/ HangsInAddMessage(r) \/ HangsInGetHistory(r)

Others(s) == Delete(s) \/ DeleteRow(s) \/ GetSession(s)

\* A failed attempt of one request touches no other (its breaker aside).
LEMMA FailsAlone ==
  ASSUME TypeOK, NEW r \in Request, Fails(r), NEW q \in Request, q # r
  PROVE  Same(q)
<1>1. /\ UNCHANGED <<on, attemptOrder, round>>
      /\ calls'[q] = calls[q] /\ last'[q] = last[q] /\ downNow'[q] = downNow[q]
  BY DEF Fails, Called, TypeOK
<1>2. attempt'[q] = attempt[q] /\ pc'[q] = pc[q] /\ result'[q] = result[q]
  BY DEF Fails, Return, TypeOK
<1> QED
  BY <1>1, <1>2 DEF Same

\* Nor does a reply.
LEMMA SucceedsAlone ==
  ASSUME TypeOK, NEW r \in Request, NEW o, Succeeds(r, o), NEW q \in Request, q # r
  PROVE  UNCHANGED <<on, attemptOrder>> /\ calls'[q] = calls[q] /\ last'[q] = last[q]
BY DEF Succeeds, Called, TypeOK

\* No step of one request touches what another keeps to itself.
LEMMA Alone ==
  ASSUME TypeOK, NEW r \in Request, Acts(r), NEW q \in Request, q # r
  PROVE  Same(q)
<1> USE DEF sessions, breakers, metrics, past, locals
<1>1. CASE Start(r)
  BY <1>1 DEF Start, Goto, TypeOK, Same
<1>2. CASE NoSuchSession(r)
  BY <1>2 DEF NoSuchSession, Return, TypeOK, Same
<1>3. CASE Ask(r)
  BY <1>3 DEF Ask, Goto, Return, TypeOK, Same
<1>4. CASE Read(r)
  BY <1>4 DEF Read, Goto, TypeOK, Same
<1>5. CASE Plan(r)
  BY <1>5 DEF Plan, Goto, Return, TypeOK, Same
<1>6. CASE Answer(r)
  BY <1>6 DEF Answer, Return, TypeOK, Same
<1>7. CASE CallFails(r) \/ StreamFails(r)
  BY <1>7, FailsAlone DEF CallFails, StreamFails
<1>8. CASE CallAnswers(r)
  BY <1>8, SucceedsAlone DEF CallAnswers, Goto, TypeOK, Same
<1>9. CASE StreamAnswers(r)
  BY <1>9, SucceedsAlone DEF StreamAnswers, Goto, TypeOK, Same
<1>10. CASE CallIsBlank(r)
  BY <1>10, SucceedsAlone DEF CallIsBlank, Return, TypeOK, Same
<1>11. CASE CallThrows(r)
  BY <1>11 DEF CallThrows, Called, Return, TypeOK, Same
<1>12. CASE CallAsksForTools(r)
  BY <1>12, SucceedsAlone DEF CallAsksForTools, Return, TypeOK, Same
<1>13. CASE Hangs(r)
  BY <1>13 DEF Hangs, HangsInGetSession, HangsInAddMessage, HangsInGetHistory, Goto, TypeOK, Same
<1> QED
  BY <1>1, <1>2, <1>3, <1>4, <1>5, <1>6, <1>7, <1>8, <1>9, <1>10, <1>11, <1>12, <1>13
     DEF Acts, Proceed, Hangs

\* What the router's theorems say of the plan a request gets.
LEMMA PlanFacts ==
  ASSUME TypeOK, NEW m \in Model, NEW p \in R!Plans(m)
  PROVE  /\ p \in Seq(Model)
         /\ IsInjective(R!Members(m)) => IsInjective(p)
         /\ R!Registered(R!Members(m)) \subseteq ToSet(p)
<1>1. P!TypeOK /\ p \in P!Plans(m)
  BY RouterType, SamePlans
<1>2. P!Members(m) = R!Members(m) /\ P!Registered(P!Members(m)) = R!Registered(R!Members(m))
  BY DEF P!Members, R!Members, P!Registered, R!Registered, P!ToSet, R!ToSet
<1>3. P!EveryMemberIsTried /\ P!NothingIsTriedTwice
  BY <1>1, RouterAssumptions, P!MembersAreTried, P!NamesOnce
<1>4. \A f : P!IsInjective(f) <=> IsInjective(f)
  BY DEF P!IsInjective, IsInjective
<1>5. P!ToSet(p) = ToSet(p)
  BY DEF P!ToSet, ToSet
<1> QED
  BY <1>1, <1>2, <1>3, <1>4, <1>5, PlanType DEF P!EveryMemberIsTried, P!NothingIsTriedTwice

\* The arithmetic of rounds and attempts.
LEMMA Rounds ==
  ASSUME NEW a \in Nat, NEW b \in Nat, NEW n \in Nat, a <= b
  PROVE  /\ (a + 1) * n = a * n + n
         /\ (a + 1) * n <= (b + 1) * n
         /\ a * n \in Nat /\ (a + 1) * n \in Nat /\ (b + 1) * n \in Nat
<1>1. PICK d \in Nat : b = a + d
  <2>1. b - a \in Nat /\ b = a + (b - a)
    OBVIOUS
  <2> QED
    BY <2>1
<1>2. (b + 1) * n = (a + 1) * n + d * n /\ d * n \in Nat
  BY <1>1
<1>3. (a + 1) * n = a * n + n /\ a * n \in Nat
  OBVIOUS
<1> QED
  BY <1>2, <1>3

\* One more call is within the round, and the round within the limit.
LEMMA Budget ==
  ASSUME TypeOK, NEW r \in Request, Each(r), pc[r] \in {"call", "stream"}
  PROVE  /\ calls[r] + 1 <= round[r] * Len(attemptOrder[r]) + attempt[r]
         /\ calls[r] + 1 <= (round[r] + 1) * Len(attemptOrder[r])
         /\ calls[r] + 1 <= (MaxToolRounds + 1) * Len(attemptOrder[r])
         /\ calls[r] \in Nat /\ round[r] \in Nat /\ Len(attemptOrder[r]) \in Nat
<1>1. /\ calls[r] \in Nat /\ round[r] \in 0..MaxToolRounds
      /\ Len(attemptOrder[r]) \in Nat /\ attempt[r] \in Nat
  BY DEF TypeOK
<1>2. /\ attempt[r] \in 1..Len(attemptOrder[r])
      /\ calls[r] <= round[r] * Len(attemptOrder[r]) + attempt[r] - 1
  BY DEF Each, Calling
<1> DEFINE n == Len(attemptOrder[r])
<1>3. /\ (round[r] + 1) * n = round[r] * n + n
      /\ (round[r] + 1) * n <= (MaxToolRounds + 1) * n
      /\ round[r] * n \in Nat /\ (round[r] + 1) * n \in Nat /\ (MaxToolRounds + 1) * n \in Nat
  <2>1. round[r] \in Nat /\ MaxToolRounds \in Nat /\ round[r] <= MaxToolRounds /\ n \in Nat
    BY <1>1, RoundsAssumption
  <2> HIDE DEF n
  <2> QED
    BY <2>1, Rounds, Zenon
<1> HIDE DEF n
<1>4. calls[r] <= round[r] * n + attempt[r] - 1 /\ attempt[r] \in 1..n /\ n \in Nat
  BY <1>1, <1>2 DEF n
<1> DEFINE a == round[r] * n  b == (round[r] + 1) * n  c == (MaxToolRounds + 1) * n
<1>5. b = a + n /\ b <= c /\ a \in Nat /\ b \in Nat /\ c \in Nat /\ calls[r] <= a + attempt[r] - 1
  BY <1>3, <1>4
<1> HIDE DEF a, b, c
<1>6. calls[r] + 1 <= a + attempt[r] /\ calls[r] + 1 <= b /\ calls[r] + 1 <= c
  BY <1>1, <1>4, <1>5
<1> QED
  BY <1>1, <1>6 DEF a, b, c, n

\* Each after a step that calls no provider: start, question, read, answer, or
\* waiting for the database instead.
LEMMA OwnStart ==
  ASSUME Standing, NEW r \in Request,
         Start(r) \/ NoSuchSession(r) \/ Ask(r) \/ Read(r) \/ Answer(r) \/ Hangs(r)
  PROVE  Each(r)'
<1> USE DEF sessions, breakers, metrics, past, locals
<1>0. TypeOK /\ Each(r)
  BY DEF Standing
<1>1. CASE Start(r)
  <2>1. on'[r] \in Session
    BY <1>0, <1>1 DEF Start, TypeOK
  <2> QED
    BY <1>0, <1>1, <2>1 DEF Start, Goto, TypeOK, Each, Inside, Fresh, Calling, Spent, Returned
<1>2. CASE NoSuchSession(r)
  <2>1. calls[r] = 0 /\ attemptOrder[r] = <<>> /\ (MaxToolRounds + 1) * 0 = 0
    BY <1>0, <1>2, RoundsAssumption DEF NoSuchSession, Each, Fresh
  <2> QED
    BY <1>0, <1>2, <2>1 DEF NoSuchSession, Return, TypeOK, Each, Inside, Fresh, Calling, Spent, Returned
<1>3. CASE Ask(r)
  <2>1. calls[r] = 0 /\ attemptOrder[r] = <<>> /\ (MaxToolRounds + 1) * 0 = 0
    BY <1>0, <1>3, RoundsAssumption DEF Ask, Each, Fresh
  <2> QED
    BY <1>0, <1>3, <2>1 DEF Ask, Goto, Return, TypeOK, Each, Inside, Fresh, Calling, Spent, Returned
<1>4. CASE Read(r)
  BY <1>0, <1>4 DEF Read, Goto, TypeOK, Each, Inside, Fresh, Calling, Spent, Returned
<1>5. CASE Answer(r)
  BY <1>0, <1>5 DEF Answer, Return, TypeOK, Each, Inside, Fresh, Calling, Spent, Returned
<1>6. CASE Hangs(r)
  <2>1. /\ pc[r] \in {"idle", "ask", "read", "answer"} /\ pc'[r] = "hung"
        /\ UNCHANGED <<result, calls, attemptOrder>>
    BY <1>0, <1>6 DEF Hangs, HangsInGetSession, HangsInAddMessage, HangsInGetHistory, Goto, TypeOK
  <2>2. calls[r] <= (MaxToolRounds + 1) * Len(attemptOrder[r])
    <3>1. pc[r] # "answer" => calls[r] = 0 /\ attemptOrder[r] = <<>>
      BY <1>0, <2>1 DEF Each, Fresh
    <3>2. (MaxToolRounds + 1) * 0 = 0
      BY RoundsAssumption
    <3> QED
      BY <1>0, <3>1, <3>2 DEF Each, Spent
  <2> QED
    BY <1>0, <2>1, <2>2 DEF Each, Inside, Fresh, Calling, Spent, Returned
<1> QED
  BY <1>1, <1>2, <1>3, <1>4, <1>5, <1>6

\* Each after the plan: nothing has failed yet, and the plan has what the
\* router's theorems promise (ChatSDK.cc:143-149).
LEMMA OwnPlan ==
  ASSUME Standing, NEW r \in Request, Plan(r)
  PROVE  Each(r)'
<1>1. TypeOK /\ Each(r) /\ pc[r] = "plan" /\ on[r] \in Session
  BY DEF Standing, Each, Inside, Plan
<1>2. PICK p \in R!Plans(Name(r)) :
        /\ attemptOrder' = [attemptOrder EXCEPT ![r] = p]
        /\ IF p = <<>> THEN Return(r, "empty")
           ELSE Goto(r, IF r \in Streams THEN "stream" ELSE "call")
  BY DEF Plan, Name
<1>3. Name(r) \in Model
  BY <1>1, SessionAssumption DEF Name
<1>4. /\ p \in Seq(Model)
      /\ IsInjective(R!Members(Name(r))) => IsInjective(p)
      /\ R!Registered(R!Members(Name(r))) \subseteq ToSet(p)
  BY <1>1, <1>3, PlanFacts
<1>5. /\ attemptOrder'[r] = p /\ attempt'[r] = 1 /\ on' = on /\ round'[r] = 0 /\ calls'[r] = 0
      /\ downNow'[r] = {} /\ last'[r] = last[r]
  BY <1>1, <1>2 DEF Plan, past, TypeOK, Each, Fresh
<1>6. /\ R!Members(Name(r))' = R!Members(Name(r))
      /\ R!Registered(R!Members(Name(r)))' = R!Registered(R!Members(Name(r)))
  BY <1>5 DEF R!Members, R!Registered, Name
<1>7. CASE p = <<>>
  <2>1. pc'[r] = "done" /\ result'[r] = "empty" /\ (MaxToolRounds + 1) * 0 = 0
    BY <1>1, <1>2, <1>7, RoundsAssumption DEF Return, TypeOK
  <2> QED
    BY <1>5, <1>7, <2>1 DEF Each, Inside, Fresh, Calling, Spent, Returned
<1>8. CASE p # <<>>
  <2>1. pc'[r] \in {"call", "stream"} /\ result'[r] = result[r] /\ result[r] = "none"
    BY <1>1, <1>2, <1>8 DEF Goto, TypeOK, Each, Returned
  <2>2. 1 \in 1..Len(p) /\ Len(p) \in Nat /\ 0 <= 0 * Len(p) + 1 - 1
    BY <1>4, <1>8
  <2>3. {} = {p[x] : x \in 1..(1 - 1)}
    OBVIOUS
  <2>4. Calling(r)'
    BY <1>4, <1>5, <1>6, <2>2, <2>3 DEF Calling
  <2> QED
    BY <1>1, <1>5, <2>1, <2>4 DEF Each, Inside, Fresh, Spent, Returned
<1> QED
  BY <1>7, <1>8

\* What the two kinds of calls do to the caller.
FailsFacts(r) ==
    /\ on' = on /\ attemptOrder' = attemptOrder /\ round' = round
    /\ calls'[r] = calls[r] + 1 /\ last'[r] = "failed"
    /\ downNow'[r] = downNow[r] \cup {Target(r)}
    /\ \/ /\ attempt[r] < Len(attemptOrder[r]) /\ attempt'[r] = attempt[r] + 1
          /\ pc' = pc /\ result' = result
       \/ /\ ~(attempt[r] < Len(attemptOrder[r])) /\ attempt' = attempt
          /\ pc'[r] = "done" /\ result'[r] = "empty"

\* Each after a failed attempt: the target joins those that failed, and after
\* the last one all of them have (ChatSDK.cc:162-181).
LEMMA OwnFails ==
  ASSUME Standing, NEW r \in Request, pc[r] \in {"call", "stream"}, Fails(r)
  PROVE  Each(r)'
<1>1. TypeOK /\ Each(r)
  BY DEF Standing
<1>2. FailsFacts(r)
  <2>1. /\ on' = on /\ attemptOrder' = attemptOrder /\ round' = round
        /\ calls'[r] = calls[r] + 1 /\ last'[r] = "failed"
        /\ downNow'[r] = downNow[r] \cup {Target(r)}
    BY <1>1 DEF Fails, Called, TypeOK
  <2>2. CASE attempt[r] < Len(attemptOrder[r])
    BY <1>1, <2>1, <2>2 DEF Fails, TypeOK, FailsFacts
  <2>3. CASE ~(attempt[r] < Len(attemptOrder[r]))
    BY <1>1, <2>1, <2>3 DEF Fails, Return, TypeOK, FailsFacts
  <2> QED
    BY <2>2, <2>3
<1> DEFINE n == Len(attemptOrder[r])
           q == attemptOrder[r]
<1>3. /\ attempt[r] \in 1..n /\ n \in Nat /\ DOMAIN q = 1..n
      /\ downNow[r] = {q[x] : x \in 1..(attempt[r] - 1)}
  <2>1. q \in Seq(Model)
    BY <1>1 DEF TypeOK
  <2>2. n \in Nat /\ DOMAIN q = 1..n
    BY <2>1
  <2> QED
    BY <1>1, <2>2 DEF Each, Calling
<1>4. downNow'[r] = {q[x] : x \in 1..attempt[r]}
  BY <1>2, <1>3 DEF FailsFacts, Target
<1>5. /\ R!Members(Name(r))' = R!Members(Name(r))
      /\ R!Registered(R!Members(Name(r)))' = R!Registered(R!Members(Name(r)))
  BY <1>2 DEF R!Members, R!Registered, Name, FailsFacts
<1>6. /\ calls[r] + 1 <= round[r] * n + attempt[r]
      /\ calls[r] + 1 <= (MaxToolRounds + 1) * n
  BY <1>1, Budget
<1>7. CASE attempt[r] < n
  <2>1. attempt'[r] = attempt[r] + 1 /\ pc' = pc /\ result' = result
    BY <1>2, <1>7 DEF FailsFacts
  <2>2. attempt[r] + 1 \in 1..n /\ (attempt[r] + 1) - 1 = attempt[r]
    BY <1>3, <1>7
  <2>3. round[r] * n + (attempt[r] + 1) - 1 = round[r] * n + attempt[r]
    <3>1. round[r] * n \in Int
      BY <1>1, <1>3 DEF TypeOK
    <3> DEFINE a == round[r] * n
    <3> HIDE DEF a
    <3>2. a \in Int => a + (attempt[r] + 1) - 1 = a + attempt[r]
      BY <1>3
    <3> QED
      BY <3>1, <3>2 DEF a
  <2>4. Calling(r)'
    BY <1>1, <1>2, <1>4, <1>5, <1>6, <2>1, <2>2, <2>3 DEF Calling, Each, FailsFacts
  <2> QED
    BY <1>1, <1>2, <2>1, <2>4 DEF Each, Inside, Fresh, Spent, Returned, FailsFacts
<1>8. CASE ~(attempt[r] < n)
  <2>1. attempt[r] = n
    BY <1>3, <1>8
  <2>2. downNow'[r] = ToSet(q)
    BY <1>3, <1>4, <2>1 DEF ToSet
  <2>3. pc'[r] = "done" /\ result'[r] = "empty" /\ last'[r] = "failed" /\ attemptOrder'[r] = q
    BY <1>2, <1>8 DEF FailsFacts
  <2>4. R!Registered(R!Members(Name(r))) \subseteq ToSet(q)
    BY <1>1 DEF Each, Calling
  <2>5. Returned(r)'
    BY <1>5, <2>2, <2>3, <2>4 DEF Returned
  <2>6. Spent(r)'
    BY <1>2, <1>6, <2>3 DEF Spent, FailsFacts
  <2> QED
    BY <2>3, <2>5, <2>6 DEF Each, Inside, Fresh, Calling
<1> QED
  BY <1>7, <1>8

\* Each after a reply that ends the request.
LEMMA OwnSucceeds ==
  ASSUME Standing, NEW r \in Request,
         CallAnswers(r) \/ CallIsBlank(r) \/ StreamAnswers(r) \/ CallThrows(r)
  PROVE  Each(r)'
<1>1. TypeOK /\ Each(r) /\ pc[r] \in {"call", "stream"} /\ on[r] \in Session
  BY DEF Standing, CallAnswers, CallIsBlank, StreamAnswers, CallThrows, Each, Inside
<1>2. /\ UNCHANGED <<on, attemptOrder>> /\ calls'[r] = calls[r] + 1
      /\ \/ pc'[r] = "answer" /\ result' = result
         \/ pc'[r] = "done" /\ result'[r] = "empty" /\ last'[r] = "blank"
         \/ pc'[r] = "done" /\ result'[r] = "exception"
  <2>1. CASE CallAnswers(r)
    BY <1>1, <2>1 DEF CallAnswers, Succeeds, Called, Goto, TypeOK
  <2>2. CASE CallIsBlank(r)
    BY <1>1, <2>2 DEF CallIsBlank, Succeeds, Called, Return, TypeOK
  <2>3. CASE StreamAnswers(r)
    BY <1>1, <2>3 DEF StreamAnswers, Succeeds, Called, Goto, TypeOK
  <2>4. CASE CallThrows(r)
    BY <1>1, <2>4 DEF CallThrows, Called, Return, TypeOK, locals
  <2> QED
    BY <2>1, <2>2, <2>3, <2>4
<1>3. calls[r] + 1 <= (MaxToolRounds + 1) * Len(attemptOrder[r])
  BY <1>1, Budget
<1>4. Spent(r)'
  BY <1>2, <1>3 DEF Spent
<1>5. Returned(r)'
  BY <1>1, <1>2 DEF Returned, Each
<1> QED
  BY <1>1, <1>2, <1>4, <1>5 DEF Each, Inside, Fresh, Calling

\* Each after a reply that asks for tools: a new round, or the end at the
\* limit (ChatSDK.cc:193-211).
LEMMA OwnTools ==
  ASSUME Standing, NEW r \in Request, CallAsksForTools(r)
  PROVE  Each(r)'
<1>1. TypeOK /\ Each(r) /\ pc[r] = "call" /\ on[r] \in Session
  BY DEF Standing, CallAsksForTools, Each, Inside
<1>2. /\ UNCHANGED <<on, attemptOrder>> /\ calls'[r] = calls[r] + 1
      /\ last'[r] \in {"tools", "text_and_tools"}
  BY <1>1 DEF CallAsksForTools, Succeeds, Called, TypeOK
<1> DEFINE n == Len(attemptOrder[r])
<1>3. /\ calls[r] + 1 <= (round[r] + 1) * n /\ calls[r] + 1 <= (MaxToolRounds + 1) * n
      /\ calls[r] \in Nat /\ round[r] \in Nat /\ n \in Nat
  BY <1>1, Budget
<1>4. /\ R!Members(Name(r))' = R!Members(Name(r))
      /\ R!Registered(R!Members(Name(r)))' = R!Registered(R!Members(Name(r)))
  BY <1>2 DEF R!Members, R!Registered, Name
<1>5. CASE round[r] < MaxToolRounds
  <2>1. /\ round'[r] = round[r] + 1 /\ attempt'[r] = 1 /\ downNow'[r] = {}
        /\ pc' = pc /\ result' = result
    BY <1>1, <1>5 DEF CallAsksForTools, TypeOK
  <2>2. 1 \in 1..n /\ {} = {attemptOrder[r][x] : x \in 1..(1 - 1)}
    BY <1>1, <1>3 DEF Each, Calling
  <2>3. calls[r] + 1 <= (round[r] + 1) * n + 1 - 1
    <3> DEFINE a == (round[r] + 1) * n
    <3>1. a \in Int
      BY <1>3
    <3> HIDE DEF a
    <3>2. a + 1 - 1 = a
      BY <3>1
    <3> QED
      BY <1>3, <3>2 DEF a
  <2>4. Calling(r)'
    BY <1>1, <1>2, <1>4, <2>1, <2>2, <2>3 DEF Calling, Each
  <2> QED
    BY <1>1, <1>2, <2>1, <2>4 DEF Each, Inside, Fresh, Spent, Returned
<1>6. CASE ~(round[r] < MaxToolRounds)
  <2>1. round' = round /\ pc'[r] = "done" /\ result'[r] = "empty"
    BY <1>1, <1>6 DEF CallAsksForTools, Return, TypeOK
  <2>2. round[r] = MaxToolRounds
    BY <1>1, <1>6, RoundsAssumption DEF TypeOK
  <2> QED
    BY <1>2, <1>3, <2>1, <2>2 DEF Each, Inside, Fresh, Calling, Spent, Returned
<1> QED
  BY <1>5, <1>6

\* Nobody has started: Standing holds.
LEMMA StandingInit == Init => Standing
<1> SUFFICES ASSUME Init PROVE Standing
  OBVIOUS
<1>1. \A r \in Request : Each(r)
  BY DEF Init, Each, Inside, Fresh, Calling, Spent, Returned
<1> QED
  BY <1>1, TypeInit DEF Standing

\* Every step keeps Standing: the request that acts by its own lemma, the
\* others by Frame.
LEMMA StandingStep == Standing /\ [Next]_vars => Standing'
<1> SUFFICES ASSUME Standing, [Next]_vars PROVE Standing'
  OBVIOUS
<1>1. TypeOK'
  <2>1. TypeOK /\ Placed /\ Aiming
    <3>1. ASSUME NEW r \in Request, pc[r] \in {"call", "stream"}
          PROVE  attempt[r] \in DOMAIN attemptOrder[r]
      <4>1. attempt[r] \in 1..Len(attemptOrder[r]) /\ attemptOrder[r] \in Seq(Model)
        BY <3>1 DEF Standing, Each, Calling, TypeOK
      <4> QED
        BY <4>1
    <3> QED
      BY <3>1 DEF Standing, Each, Inside, Placed, Aiming
  <2> QED
    BY <2>1, TypeStep
<1>2. ASSUME NEW r \in Request, Acts(r), NEW q \in Request PROVE Each(q)'
  <2>1. CASE q # r
    BY <1>2, <2>1, Alone, Frame DEF Standing
  <2>2. CASE q = r
    <3>1. CASE Start(r) \/ NoSuchSession(r) \/ Ask(r) \/ Read(r) \/ Answer(r) \/ Hangs(r)
      BY <2>2, <3>1, OwnStart
    <3>2. CASE Plan(r)
      BY <2>2, <3>2, OwnPlan
    <3>3. CASE CallFails(r) \/ StreamFails(r)
      BY <2>2, <3>3, OwnFails DEF CallFails, StreamFails
    <3>4. CASE CallAnswers(r) \/ CallIsBlank(r) \/ StreamAnswers(r) \/ CallThrows(r)
      BY <2>2, <3>4, OwnSucceeds
    <3>5. CASE CallAsksForTools(r)
      BY <2>2, <3>5, OwnTools
    <3> QED
      BY <1>2, <3>1, <3>2, <3>3, <3>4, <3>5 DEF Acts, Proceed, Hangs
  <2> QED
    BY <2>1, <2>2
<1>3. ASSUME UNCHANGED <<pc, on, attemptOrder, attempt, round, calls, downNow, last, result>>,
             NEW q \in Request
      PROVE  Each(q)'
  BY <1>3, Frame DEF Same, Standing
<1>4. CASE \E r \in Request : Acts(r)
  BY <1>1, <1>2, <1>4 DEF Standing
<1>5. CASE \E s \in Session : Others(s)
  BY <1>1, <1>3, <1>5 DEF Standing, Others, Delete, DeleteRow, GetSession, locals, past
<1>6. CASE Tick
  BY <1>1, <1>3, <1>6 DEF Standing, Tick, locals, past
<1>7. CASE UNCHANGED vars
  BY <1>1, <1>3, <1>7 DEF Standing, vars, locals, past
<1> QED
  BY <1>4, <1>5, <1>6, <1>7 DEF Next, Acts, Others

\* Where requests stand, for every registry, any number of requests and any
\* interleaving: the inductive invariant of the request loop.
THEOREM StandingCorrect == Spec => []Standing
BY StandingInit, StandingStep, PTL DEF Spec

\* Every variable keeps its type.
THEOREM TypeCorrect == Spec => []TypeOK
<1>1. Standing => TypeOK
  BY DEF Standing
<1> QED
  BY <1>1, StandingCorrect, PTL

\* However many requests run, each stays within one call per target and round.
THEOREM WorkCorrect == Spec => []WorkIsBounded
<1>1. Standing => WorkIsBounded
  <2> SUFFICES ASSUME Standing, NEW r \in Request
               PROVE  calls[r] <= (MaxToolRounds + 1) * Len(attemptOrder[r])
    BY DEF WorkIsBounded
  <2>1. TypeOK /\ Each(r)
    BY DEF Standing
  <2>2. CASE pc[r] \in {"idle", "ask", "read", "plan"}
    <3>1. calls[r] = 0 /\ attemptOrder[r] = <<>> /\ (MaxToolRounds + 1) * 0 = 0
      BY <2>1, <2>2, RoundsAssumption DEF Each, Fresh
    <3> QED
      BY <3>1
  <2>3. CASE pc[r] \in {"call", "stream"}
    <3>1. /\ calls[r] + 1 <= (MaxToolRounds + 1) * Len(attemptOrder[r])
          /\ calls[r] \in Nat /\ Len(attemptOrder[r]) \in Nat
      BY <2>1, <2>3, Budget
    <3> DEFINE c == (MaxToolRounds + 1) * Len(attemptOrder[r])
    <3>2. c \in Int
      BY <3>1, RoundsAssumption
    <3> HIDE DEF c
    <3>3. calls[r] + 1 <= c => calls[r] <= c
      BY <3>1, <3>2
    <3> QED
      BY <3>1, <3>3 DEF c
  <2>4. CASE pc[r] \in {"answer", "done", "hung"}
    BY <2>1, <2>4 DEF Each, Spent
  <2> QED
    BY <2>1, <2>2, <2>3, <2>4 DEF TypeOK
<1> QED
  BY <1>1, StandingCorrect, PTL

\* No request repeats a failed target within a round.
THEOREM NoRepeatCorrect == Spec => []NoTargetTwiceInARound
<1>1. Standing => NoTargetTwiceInARound
  <2> SUFFICES ASSUME Standing, NEW r \in Request, pc[r] \in {"call", "stream"},
                      IsInjective(R!Members(Name(r))), Target(r) \in downNow[r]
               PROVE  FALSE
    BY DEF NoTargetTwiceInARound
  <2>1. /\ IsInjective(attemptOrder[r]) /\ attempt[r] \in 1..Len(attemptOrder[r])
        /\ downNow[r] = {attemptOrder[r][x] : x \in 1..(attempt[r] - 1)}
        /\ attemptOrder[r] \in Seq(Model) /\ Len(attemptOrder[r]) \in Nat
    <3>1. attemptOrder[r] \in Seq(Model)
      BY DEF Standing, TypeOK
    <3> QED
      BY <3>1 DEF Standing, Each, Calling
  <2>2. PICK x \in 1..(attempt[r] - 1) : attemptOrder[r][x] = attemptOrder[r][attempt[r]]
    BY <2>1 DEF Target
  <2>3. x \in DOMAIN attemptOrder[r] /\ attempt[r] \in DOMAIN attemptOrder[r] /\ x # attempt[r]
    BY <2>1, <2>2
  <2> QED
    BY <2>1, <2>2, <2>3 DEF IsInjective
<1> QED
  BY <1>1, StandingCorrect, PTL

\* An empty result of a planned request has one of the three reasons.
THEOREM FailureCorrect == Spec => []FailureMeansAllFailed
<1>1. Standing => FailureMeansAllFailed
  BY DEF Standing, Each, Returned, FailureMeansAllFailed
<1> QED
  BY <1>1, StandingCorrect, PTL

-----------------------------------------------------------------------------
(* The conversations. *)

\* Who is in the log of session s has got that far, on that session.
Talk(s) ==
    \A i \in DOMAIN log[s] :
        /\ on[log[s][i].for] = s
        /\ log[s][i].by = "user" => pc[log[s][i].for] \notin {"idle", "ask"}
        /\ log[s][i].by = "assistant" =>
               /\ pc[log[s][i].for] \in {"done", "hung"}
               /\ \E k \in 1..i : log[s][k] = [by |-> "user", for |-> log[s][i].for]

Once(s) == \A i, j \in DOMAIN log[s] : log[s][i] = log[s][j] => i = j

\* What request r has said, and read, is there.
Heard(r) ==
    /\ pc[r] = "idle" => on[r] = NoSession
    /\ pc[r] \notin {"idle", "ask"} /\ on[r] \in live => Has(log[on[r]], "user", r)
    /\ result[r] = "text" /\ on[r] \in live => Has(log[on[r]], "assistant", r)
    /\ pc[r] \in {"plan", "call", "stream", "answer"} /\ on[r] \in live
           => Has(history[r], "user", r)

Talking ==
    /\ \A s \in Session : Talk(s) /\ Once(s)
    /\ \A r \in Request : Heard(r)

\* No step takes a request back, moves it to another session, or brings a
\* session back.
Onward ==
    /\ live' \subseteq live
    /\ \A q \in Request :
         /\ pc[q] # "idle" => on'[q] = on[q]
         /\ pc[q] \notin {"idle", "ask"} => pc'[q] \notin {"idle", "ask"}
         /\ pc[q] \in {"done", "hung"} => pc'[q] \in {"done", "hung"}

\* A request that acts deletes no session, stays on its own once it has one,
\* and does not go back to before its question.
LEMMA GoesOn ==
  ASSUME TypeOK, NEW r \in Request, Acts(r)
  PROVE  /\ live' = live
         /\ pc[r] # "idle" => on'[r] = on[r]
         /\ pc[r] \notin {"done", "hung"} /\ pc'[r] # "idle"
         /\ pc[r] \notin {"idle", "ask"} => pc'[r] \notin {"idle", "ask"}
<1> USE DEF sessions, breakers, metrics, past, locals
<1> pc \in [Request -> Steps] /\ on \in [Request -> Session \cup {NoSession}]
  BY DEF TypeOK, Steps
<1>1. CASE Start(r)
  BY <1>1 DEF Start, Goto
<1>2. CASE NoSuchSession(r)
  BY <1>2 DEF NoSuchSession, Return
<1>3. CASE Ask(r)
  BY <1>3 DEF Ask, Goto, Return
<1>4. CASE Read(r)
  BY <1>4 DEF Read, Goto
<1>5. CASE Plan(r)
  BY <1>5 DEF Plan, Goto, Return
<1>6. CASE Answer(r)
  BY <1>6 DEF Answer, Return
<1>7. CASE CallFails(r) \/ StreamFails(r)
  BY <1>7 DEF CallFails, StreamFails, Fails, Return
<1>8. CASE CallAnswers(r) \/ StreamAnswers(r)
  BY <1>8 DEF CallAnswers, StreamAnswers, Succeeds, Goto
<1>9. CASE CallIsBlank(r) \/ CallThrows(r)
  BY <1>9 DEF CallIsBlank, CallThrows, Succeeds, Return
<1>10. CASE CallAsksForTools(r)
  BY <1>10 DEF CallAsksForTools, Succeeds, Return
<1>11. CASE Hangs(r)
  BY <1>11 DEF Hangs, HangsInGetSession, HangsInAddMessage, HangsInGetHistory, Goto
<1> QED
  BY <1>1, <1>2, <1>3, <1>4, <1>5, <1>6, <1>7, <1>8, <1>9, <1>10, <1>11 DEF Acts, Proceed, Hangs

\* The same, whoever takes the step.
LEMMA NoWayBack ==
  ASSUME TypeOK, [Next]_vars
  PROVE  Onward
<1>1. ASSUME NEW r \in Request, Acts(r) PROVE Onward
  BY <1>1, GoesOn, Alone DEF Onward, Same
<1>2. ASSUME NEW s \in Session, Others(s) PROVE Onward
  BY <1>2 DEF Others, Delete, DeleteRow, GetSession, Onward, locals
<1>3. CASE Tick
  BY <1>3 DEF Tick, Onward, locals, sessions
<1>4. CASE UNCHANGED vars
  BY <1>4 DEF vars, Onward, locals, sessions
<1> QED
  BY <1>1, <1>2, <1>3, <1>4 DEF Next, Acts, Others

\* A log that is not written to stays in order.
LEMMA QuietTalk ==
  ASSUME TypeOK, TypeOK', Onward, NEW s \in Session, Talk(s), Once(s), log'[s] = log[s]
  PROVE  Talk(s)' /\ Once(s)'
<1>0. log[s] \in Seq(Said)
  BY DEF TypeOK
<1>1. ASSUME NEW i \in DOMAIN log[s]
      PROVE  log[s][i].for \in Request /\ log[s][i].by \in {"user", "assistant"}
  <2>1. log[s][i] \in Said
    BY <1>0, <1>1
  <2> QED
    BY <2>1 DEF Said
<1>2. ASSUME NEW i \in DOMAIN log[s]
      PROVE  pc[log[s][i].for] # "idle"
  <2>1. log[s][i].by = "user" \/ log[s][i].by = "assistant"
    BY <1>1, <1>2
  <2> QED
    BY <1>2, <2>1 DEF Talk
<1>3. Once(s)'
  BY DEF Once
<1>4. ASSUME NEW i \in DOMAIN log[s]
      PROVE  /\ on'[log[s][i].for] = s
             /\ log[s][i].by = "user" => pc'[log[s][i].for] \notin {"idle", "ask"}
             /\ log[s][i].by = "assistant" =>
                    /\ pc'[log[s][i].for] \in {"done", "hung"}
                    /\ \E k \in 1..i : log[s][k] = [by |-> "user", for |-> log[s][i].for]
  BY <1>1, <1>2, <1>4 DEF Onward, Talk
<1>5. Talk(s)'
  BY <1>4 DEF Talk
<1> QED
  BY <1>3, <1>5

\* A log that a request adds to, which it has not done before.
LEMMA AddedTalk ==
  ASSUME TypeOK, TypeOK', Onward, NEW s \in Session, Talk(s), Once(s),
         NEW r \in Request, NEW by \in {"user", "assistant"},
         log'[s] = Append(log[s], [by |-> by, for |-> r]),
         on[r] = s, pc[r] \notin {"idle", "done", "hung"},
         by = "user" => pc[r] = "ask" /\ pc'[r] \notin {"idle", "ask"},
         by = "assistant" => pc'[r] \in {"done", "hung"} /\ Has(log[s], "user", r)
  PROVE  Talk(s)' /\ Once(s)'
<1> DEFINE e == [by |-> by, for |-> r]
           n == Len(log[s])
<1>1. /\ log[s] \in Seq(Said) /\ n \in Nat /\ DOMAIN log[s] = 1..n
      /\ \A i \in 1..n : log[s][i] \in Said
  <2>1. log[s] \in Seq(Said)
    BY DEF TypeOK
  <2> QED
    BY <2>1
<1>2. /\ DOMAIN log'[s] = 1..(n + 1) /\ log'[s][n + 1] = e
      /\ \A i \in 1..n : log'[s][i] = log[s][i]
  BY <1>1
<1>3. ASSUME NEW i \in 1..n PROVE log[s][i].for \in Request /\ log[s][i].by \in {"user", "assistant"}
  BY <1>1, <1>3 DEF Said
<1>4. ASSUME NEW i \in 1..n PROVE log[s][i] # e
  <2> SUFFICES ASSUME log[s][i] = e PROVE FALSE
    OBVIOUS
  <2>1. log[s][i].by = by /\ log[s][i].for = r
    OBVIOUS
  <2>2. i \in DOMAIN log[s]
    BY <1>1, <1>4
  <2>3. CASE by = "user"
    BY <2>1, <2>2, <2>3 DEF Talk
  <2>4. CASE by = "assistant"
    BY <2>1, <2>2, <2>4 DEF Talk
  <2> QED
    BY <2>3, <2>4
<1>5. Once(s)'
  <2>1. ASSUME NEW i \in 1..(n + 1), NEW j \in 1..(n + 1), log'[s][i] = log'[s][j]
        PROVE  i = j
    <3>1. CASE i \in 1..n /\ j \in 1..n
      BY <1>1, <1>2, <2>1, <3>1 DEF Once
    <3>2. CASE i = n + 1 \/ j = n + 1
      BY <1>1, <1>2, <1>4, <2>1, <3>2
    <3> QED
      BY <1>1, <2>1, <3>1, <3>2
  <2> QED
    BY <1>2, <2>1 DEF Once
<1>6. ASSUME NEW i \in 1..n
      PROVE  /\ on'[log[s][i].for] = s
             /\ log[s][i].by = "user" => pc'[log[s][i].for] \notin {"idle", "ask"}
             /\ log[s][i].by = "assistant" =>
                    /\ pc'[log[s][i].for] \in {"done", "hung"}
                    /\ \E k \in 1..i : log'[s][k] = [by |-> "user", for |-> log[s][i].for]
  <2>1. i \in DOMAIN log[s] /\ pc[log[s][i].for] # "idle"
    BY <1>1, <1>3, <1>6 DEF Talk
  <2>2. 1..i \subseteq 1..n
    BY <1>1, <1>6
  <2>3. /\ on[log[s][i].for] = s
        /\ log[s][i].by = "user" => pc[log[s][i].for] \notin {"idle", "ask"}
        /\ log[s][i].by = "assistant" =>
               /\ pc[log[s][i].for] \in {"done", "hung"}
               /\ \E k \in 1..i : log[s][k] = [by |-> "user", for |-> log[s][i].for]
    BY <2>1 DEF Talk
  <2>4. /\ on'[log[s][i].for] = s
        /\ log[s][i].by = "user" => pc'[log[s][i].for] \notin {"idle", "ask"}
        /\ log[s][i].by = "assistant" => pc'[log[s][i].for] \in {"done", "hung"}
    BY <1>3, <1>6, <2>1, <2>3 DEF Onward
  <2>5. ASSUME log[s][i].by = "assistant"
        PROVE  \E k \in 1..i : log'[s][k] = [by |-> "user", for |-> log[s][i].for]
    <3>1. PICK k \in 1..i : log[s][k] = [by |-> "user", for |-> log[s][i].for]
      BY <2>3, <2>5
    <3>2. log'[s][k] = log[s][k]
      BY <1>2, <2>2
    <3> QED
      BY <3>1, <3>2
  <2> QED
    BY <2>4, <2>5
<1>7. /\ on'[r] = s
      /\ by = "user" => pc'[r] \notin {"idle", "ask"}
      /\ by = "assistant" =>
             pc'[r] \in {"done", "hung"} /\ \E k \in 1..(n + 1) : log'[s][k] = [by |-> "user", for |-> r]
  <2>1. on'[r] = s
    BY DEF Onward
  <2>2. ASSUME by = "assistant"
        PROVE  \E k \in 1..(n + 1) : log'[s][k] = [by |-> "user", for |-> r]
    <3>1. PICK k \in 1..n : log[s][k] = [by |-> "user", for |-> r]
      BY <1>1, <2>2 DEF Has, ToSet
    <3> QED
      BY <1>1, <1>2, <3>1
  <2> QED
    BY <2>1, <2>2
<1>8. Talk(s)'
  <2>1. ASSUME NEW i \in 1..(n + 1)
        PROVE  /\ on'[log'[s][i].for] = s
               /\ log'[s][i].by = "user" => pc'[log'[s][i].for] \notin {"idle", "ask"}
               /\ log'[s][i].by = "assistant" =>
                    /\ pc'[log'[s][i].for] \in {"done", "hung"}
                    /\ \E k \in 1..i : log'[s][k] = [by |-> "user", for |-> log'[s][i].for]
    <3>1. CASE i \in 1..n
      BY <1>2, <1>6, <3>1
    <3>2. CASE i = n + 1
      BY <1>2, <1>7, <3>2
    <3> QED
      BY <1>1, <2>1, <3>1, <3>2
  <2> QED
    BY <1>2, <2>1 DEF Talk
<1> QED
  BY <1>5, <1>8

\* Planning and calling change no conversation and return no text.
LEMMA InBetween ==
  ASSUME TypeOK, NEW r \in Request, Acts(r),
         ~Start(r), ~NoSuchSession(r), ~Ask(r), ~Read(r), ~Answer(r), ~Hangs(r)
  PROVE  /\ UNCHANGED <<live, log, on, history>>
         /\ pc[r] \in {"plan", "call", "stream"} /\ (result'[r] = "text" => result[r] = "text")
<1> USE DEF sessions, breakers, metrics, past, locals
<1> result \in [Request -> {"none", "empty", "text", "exception"}]
  BY DEF TypeOK
<1>1. CASE Plan(r)
  BY <1>1 DEF Plan, Goto, Return
<1>2. CASE CallFails(r) \/ StreamFails(r)
  BY <1>2 DEF CallFails, StreamFails, Fails, Return
<1>3. CASE CallAnswers(r) \/ StreamAnswers(r)
  BY <1>3 DEF CallAnswers, StreamAnswers, Succeeds, Goto
<1>4. CASE CallIsBlank(r) \/ CallThrows(r)
  BY <1>4 DEF CallIsBlank, CallThrows, Succeeds, Return
<1>5. CASE CallAsksForTools(r)
  BY <1>5 DEF CallAsksForTools, Succeeds, Return
<1> QED
  BY <1>1, <1>2, <1>3, <1>4, <1>5 DEF Acts, Proceed, Hangs

\* A log only grows.
LEMMA HasMore ==
  ASSUME NEW q \in Seq(Said), NEW e \in Said, NEW by, NEW r
  PROVE  /\ Has(q, by, r) => Has(Append(q, e), by, r)
         /\ e = [by |-> by, for |-> r] => Has(Append(q, e), by, r)
<1>1. /\ Len(q) \in Nat /\ DOMAIN q = 1..Len(q)
      /\ DOMAIN Append(q, e) = 1..(Len(q) + 1) /\ Append(q, e)[Len(q) + 1] = e
      /\ \A i \in 1..Len(q) : Append(q, e)[i] = q[i]
  OBVIOUS
<1>2. ASSUME Has(q, by, r) PROVE Has(Append(q, e), by, r)
  <2>1. PICK i \in 1..Len(q) : q[i] = [by |-> by, for |-> r]
    BY <1>1, <1>2 DEF Has, ToSet
  <2>2. i \in DOMAIN Append(q, e) /\ Append(q, e)[i] = [by |-> by, for |-> r]
    BY <1>1, <2>1
  <2> QED
    BY <2>2 DEF Has, ToSet
<1>3. e \in ToSet(Append(q, e))
  <2>1. Len(q) + 1 \in DOMAIN Append(q, e)
    BY <1>1
  <2> QED
    BY <1>1, <2>1 DEF ToSet
<1> QED
  BY <1>2, <1>3 DEF Has

\* What Ask and Answer do, and a write that waits for the database, to the logs.
Added(r, by) ==
    \/ on[r] \notin live /\ log' = log
    \/ /\ on[r] \in live
       /\ log'[on[r]] = Append(log[on[r]], [by |-> by, for |-> r])
       /\ \A s \in Session : s # on[r] => log'[s] = log[s]

\* Say appends one message to a live session and does nothing to a dead one
\* (SessionManager.cc:79-91).
LEMMA SayAdds ==
  ASSUME TypeOK, NEW r \in Request, NEW by, Say(r, by)
  PROVE  Added(r, by)
BY DEF Say, Added, TypeOK

\* What was said stays said, and what is added to a live session is there.
LEMMA AddedKeeps ==
  ASSUME TypeOK, NEW r \in Request, NEW by \in {"user", "assistant"}, Added(r, by),
         NEW s \in Session, NEW who, NEW q
  PROVE  /\ Has(log[s], who, q) => Has(log'[s], who, q)
         /\ on[r] = s /\ s \in live => Has(log'[s], by, r)
<1>1. log[s] \in Seq(Said) /\ [by |-> by, for |-> r] \in Said
  BY DEF TypeOK, Said
<1>2. CASE on[r] = s /\ s \in live
  BY <1>1, <1>2, HasMore DEF Added
<1>3. CASE ~(on[r] = s /\ s \in live)
  BY <1>3 DEF Added
<1> QED
  BY <1>2, <1>3

\* Every step keeps Talking.
LEMMA TalkingStep ==
  ASSUME Standing, Standing', Talking, [Next]_vars
  PROVE  Talking'
<1>1. TypeOK /\ TypeOK' /\ Onward
  BY NoWayBack DEF Standing
<1>2. ASSUME log' = log PROVE \A s \in Session : Talk(s)' /\ Once(s)'
  BY <1>1, <1>2, QuietTalk DEF Talking
<1>3. ASSUME NEW r \in Request, NEW by \in {"user", "assistant"}, Added(r, by),
             pc[r] \notin {"idle", "done", "hung"},
             by = "user" => pc[r] = "ask" /\ pc'[r] \notin {"idle", "ask"},
             by = "assistant" => pc[r] = "answer" /\ pc'[r] \in {"done", "hung"}
      PROVE  \A s \in Session : Talk(s)' /\ Once(s)'
  <2> TAKE s \in Session
  <2>1. Talk(s) /\ Once(s)
    BY DEF Talking
  <2>2. CASE log'[s] = log[s]
    BY <1>1, <2>1, <2>2, QuietTalk
  <2>3. CASE on[r] = s /\ s \in live
    <3>1. log'[s] = Append(log[s], [by |-> by, for |-> r])
      BY <1>3, <2>3 DEF Added
    <3>2. by = "assistant" => Has(log[s], "user", r)
      BY <1>3, <2>3 DEF Talking, Heard
    <3> QED
      BY <1>1, <1>3, <2>1, <2>3, <3>1, <3>2, AddedTalk
  <2> QED
    BY <1>3, <2>2, <2>3 DEF Added
\* The requests other than the one that acts.
<1>4. ASSUME NEW q \in Request, Same(q), history'[q] = history[q],
             \A s \in Session, who \in {"user", "assistant"} : Has(log[s], who, q) => Has(log'[s], who, q)
      PROVE  Heard(q)'
  <2>1. live' \subseteq live /\ live \subseteq Session /\ Heard(q)
    BY <1>1 DEF Onward, TypeOK, Talking
  <2>2. /\ pc'[q] = pc[q] /\ on'[q] = on[q] /\ result'[q] = result[q]
        /\ on[q] \in live' => on[q] \in live /\ on[q] \in Session
    BY <1>4, <2>1 DEF Same
  <2> QED
    BY <1>4, <2>1, <2>2 DEF Heard
<1>5. ASSUME NEW r \in Request, Start(r) \/ NoSuchSession(r) \/ HangsInGetSession(r) PROVE Talking'
  <2>1. log' = log /\ history' = history /\ live' = live
    BY <1>5 DEF Start, NoSuchSession, HangsInGetSession, sessions, locals
  <2>2. Heard(r)'
    <3>1. CASE Start(r)
      BY <1>1, <3>1 DEF Start, Goto, TypeOK, Heard, Standing, Each, Returned
    <3>2. CASE NoSuchSession(r) \/ HangsInGetSession(r)
      <4>1. pc'[r] \in {"done", "hung"} /\ result'[r] # "text" /\ on'[r] = NoSession
        <5>1. pc[r] = "idle" /\ on' = on /\ on[r] = NoSession /\ result[r] = "none"
          BY <3>2 DEF NoSuchSession, HangsInGetSession, locals, Talking, Heard, Standing, Each, Returned
        <5> QED
          BY <1>1, <3>2, <5>1 DEF NoSuchSession, HangsInGetSession, Return, Goto, TypeOK
      <4>2. NoSession \notin live'
        BY <1>1, <2>1, SessionAssumption DEF TypeOK
      <4> QED
        BY <4>1, <4>2 DEF Heard
    <3> QED
      BY <1>5, <3>1, <3>2
  <2>3. \A q \in Request : q # r => Heard(q)'
    BY <1>1, <1>4, <1>5, <2>1, Alone DEF Acts
  <2> QED
    BY <1>2, <2>1, <2>2, <2>3 DEF Talking
<1>6. ASSUME NEW r \in Request, Ask(r) \/ (HangsInAddMessage(r) /\ pc[r] = "ask") PROVE Talking'
  <2>1. /\ Added(r, "user") /\ pc[r] = "ask" /\ pc'[r] \in {"read", "done", "hung"}
        /\ history' = history /\ live' = live /\ on' = on
        /\ result'[r] # "text" /\ on[r] \in Session
    <3>1. result[r] = "none" /\ on[r] \in Session
      BY <1>6 DEF Ask, Standing, Each, Returned, Inside
    <3> QED
      BY <1>1, <1>6, <3>1, SayAdds DEF Ask, HangsInAddMessage, Goto, Return, TypeOK, locals
  <2>2. Heard(r)'
    <3>1. on[r] \in live => Has(log'[on[r]], "user", r)
      BY <1>1, <2>1, AddedKeeps
    <3> QED
      BY <2>1, <3>1 DEF Heard
  <2>3. \A q \in Request : q # r => Heard(q)'
    BY <1>1, <1>4, <1>6, <2>1, Alone, AddedKeeps DEF Acts, Proceed
  <2>4. \A s \in Session : Talk(s)' /\ Once(s)'
    BY <1>3, <2>1
  <2> QED
    BY <2>2, <2>3, <2>4 DEF Talking
<1>7. ASSUME NEW r \in Request, Answer(r) \/ (HangsInAddMessage(r) /\ pc[r] = "answer")
      PROVE  Talking'
  <2>1. /\ Added(r, "assistant") /\ pc[r] = "answer" /\ pc'[r] \in {"done", "hung"}
        /\ history' = history /\ live' = live /\ on' = on /\ on[r] \in Session
    BY <1>1, <1>7, SayAdds DEF Answer, HangsInAddMessage, Goto, Return, TypeOK, locals,
                               Standing, Each, Inside
  <2>2. Heard(r)'
    <3>1. on[r] \in live => Has(log'[on[r]], "assistant", r) /\ Has(log[on[r]], "user", r)
      BY <1>1, <2>1, AddedKeeps DEF Talking, Heard
    <3>2. on[r] \in live => Has(log'[on[r]], "user", r)
      BY <1>1, <2>1, <3>1, AddedKeeps
    <3> QED
      BY <2>1, <3>1, <3>2 DEF Heard
  <2>3. \A q \in Request : q # r => Heard(q)'
    BY <1>1, <1>4, <1>7, <2>1, Alone, AddedKeeps DEF Acts, Proceed
  <2>4. \A s \in Session : Talk(s)' /\ Once(s)'
    BY <1>3, <2>1
  <2> QED
    BY <2>2, <2>3, <2>4 DEF Talking
<1>8. ASSUME NEW r \in Request, Read(r) PROVE Talking'
  <2>1. /\ log' = log /\ live' = live /\ on' = on /\ result' = result
        /\ pc[r] = "read" /\ pc'[r] = "plan"
        /\ on[r] \in live => history'[r] = log[on[r]]
        /\ \A q \in Request : q # r => history'[q] = history[q]
    BY <1>1, <1>8 DEF Read, Goto, TypeOK, sessions
  <2>2. Heard(r)'
    BY <2>1 DEF Talking, Heard
  <2>3. \A q \in Request : q # r => Heard(q)'
    BY <1>1, <1>4, <1>8, <2>1, Alone DEF Acts, Proceed
  <2> QED
    BY <1>2, <2>1, <2>2, <2>3 DEF Talking
<1>9. ASSUME NEW r \in Request, Acts(r),
             ~Start(r), ~NoSuchSession(r), ~Ask(r), ~Read(r), ~Answer(r), ~Hangs(r)
      PROVE  Talking'
  <2>1. /\ UNCHANGED <<live, log, on, history>>
        /\ pc[r] \in {"plan", "call", "stream"} /\ (result'[r] = "text" => result[r] = "text")
    BY <1>1, <1>9, InBetween
  <2>2. Heard(r)'
    <3>1. pc'[r] # "idle"
      BY <1>1, <1>9, GoesOn
    <3> QED
      BY <2>1, <3>1 DEF Talking, Heard
  <2>3. \A q \in Request : q # r => Heard(q)'
    BY <1>1, <1>4, <1>9, <2>1, Alone
  <2> QED
    BY <1>2, <2>1, <2>2, <2>3 DEF Talking
<1>10. ASSUME UNCHANGED <<log, pc, locals, result, past>> PROVE Talking'
  <2>1. \A q \in Request : Heard(q)'
    BY <1>4, <1>10 DEF Same, locals, past
  <2> QED
    BY <1>2, <1>10, <2>1 DEF Talking
<1>15. ASSUME NEW r \in Request, HangsInGetHistory(r) PROVE Talking'
  <2>1. /\ UNCHANGED <<live, log, on, history, result>>
        /\ pc[r] = "read" /\ pc'[r] = "hung"
    BY <1>1, <1>15 DEF HangsInGetHistory, Goto, TypeOK, sessions, locals
  <2>2. Heard(r)'
    BY <2>1 DEF Talking, Heard
  <2>3. \A q \in Request : q # r => Heard(q)'
    BY <1>1, <1>4, <1>15, <2>1, Alone DEF Acts, Proceed
  <2> QED
    BY <1>2, <2>1, <2>2, <2>3 DEF Talking
<1>11. ASSUME NEW r \in Request, Acts(r) PROVE Talking'
  <2>1. CASE Hangs(r)
    <3>1. HangsInAddMessage(r) => pc[r] \in {"ask", "answer"}
      BY DEF HangsInAddMessage
    <3> QED
      BY <1>5, <1>6, <1>7, <1>15, <2>1, <3>1 DEF Hangs
  <2> QED
    BY <1>5, <1>6, <1>7, <1>8, <1>9, <1>11, <2>1
<1>12. (\E s \in Session : Others(s)) => Talking'
  BY <1>10 DEF Others, Delete, DeleteRow, GetSession
<1>13. Tick => Talking'
  BY <1>10 DEF Tick, sessions
<1>14. UNCHANGED vars => Talking'
  BY <1>10 DEF vars, sessions
<1> QED
  BY <1>11, <1>12, <1>13, <1>14 DEF Next, Acts, Others

\* Nobody has spoken: Talking holds.
LEMMA TalkingInit == Init => Talking
BY SessionAssumption DEF Init, Talking, Talk, Once, Heard

\* Who has said what, for every number of requests and sessions and any
\* interleaving: the inductive invariant of the conversations.
THEOREM TalkingCorrect == Spec => []Talking
<1>1. Standing /\ Standing' /\ Talking /\ [Next]_vars => Talking'
  BY TalkingStep
<1> QED
  BY <1>1, TalkingInit, StandingCorrect, PTL DEF Spec

\* Overlapping requests leave every conversation well formed.
THEOREM ConversationsCorrect == Spec => []ConversationsAreWellFormed
<1>1. Talking => ConversationsAreWellFormed
  <2> SUFFICES ASSUME Talking PROVE ConversationsAreWellFormed
    OBVIOUS
  <2>1. ASSUME NEW s \in Session, NEW i \in DOMAIN log[s], NEW j \in DOMAIN log[s]
        PROVE  /\ log[s][i] = log[s][j] => i = j
               /\ log[s][i].by = "assistant" =>
                      \E k \in 1..i : log[s][k] = [by |-> "user", for |-> log[s][i].for]
    BY DEF Talking, Talk, Once
  <2>2. ASSUME NEW r \in Request, result[r] = "text", on[r] \in live
        PROVE  Has(log[on[r]], "assistant", r)
    BY <2>2 DEF Talking, Heard
  <2> QED
    BY <2>1, <2>2 DEF ConversationsAreWellFormed
<1> QED
  BY <1>1, TalkingCorrect, PTL

\* Every history a provider is asked with was read with the question in it.
THEOREM QuestionCorrect == Spec => []QuestionIsRead
<1>1. Talking => QuestionIsRead
  BY DEF Talking, Heard, QuestionIsRead
<1> QED
  BY <1>1, TalkingCorrect, PTL

-----------------------------------------------------------------------------
(* The streams. *)

\* Whose chunks a stream has shown ...
Sourced(r) == \A i \in DOMAIN shown[r] : shown[r][i].from \in downNow[r] \cup {Target(r)}

\* ... and which of them may be followed by another's.
Behind(r) ==
    \A i, j \in DOMAIN shown[r] :
        i < j /\ shown[r][i].from # shown[r][j].from => shown[r][i].from \in downNow[r]

\* The client was told the end by the target that answered.
Closed(r) == shown[r] # <<>> /\ Last(shown[r]) = [from |-> Target(r), is_last |-> TRUE]

Streamed(r) ==
    r \in Streams =>
        /\ pc[r] # "call"
        /\ pc[r] \in {"idle", "ask", "read", "plan"} => shown[r] = <<>>
        /\ Sourced(r) /\ Behind(r)
        /\ pc[r] = "answer" \/ result[r] = "text" => Closed(r)

\* Something of the target was added to what is shown, or nothing.
Extended(r) ==
    \E n \in Nat :
        /\ DOMAIN shown[r] = 1..n
        /\ \A i \in DOMAIN shown'[r] :
             /\ i \in Nat
             /\ i <= n => i \in 1..n /\ shown'[r][i] = shown[r][i]
             /\ i > n => shown'[r][i].from = Target(r)

\* What one provider hands to the callback is the target's, and with an end it
\* ends what is shown (OpenAICompatProvider.cc:200-233).
LEMMA Showing ==
  ASSUME TypeOK, NEW r \in Request, Target(r) \in Model,
         NEW text \in BOOLEAN, NEW ends \in 0..2, Shows(r, text, ends)
  PROVE  /\ Extended(r)
         /\ ends > 0 => /\ shown'[r] # <<>>
                        /\ Last(shown'[r]) = [from |-> Target(r), is_last |-> TRUE]
<1> DEFINE Chunk == [from : Model, is_last : BOOLEAN]
           a == [from |-> Target(r), is_last |-> FALSE]
           z == [from |-> Target(r), is_last |-> TRUE]
           head == IF text THEN <<a>> ELSE <<>>
           tail == [i \in 1..ends |-> z]
           n == Len(shown[r])
           k == Len(head)
<1>1. shown[r] \in Seq(Chunk)
  BY DEF TypeOK
<1>2. a \in Chunk /\ z \in Chunk /\ a.from = Target(r) /\ z.from = Target(r)
  OBVIOUS
<1>3. shown'[r] = (shown[r] \o head) \o tail
  BY DEF Shows, TypeOK
<1> HIDE DEF Chunk, a, z
<1>4. /\ tail \in Seq(Chunk) /\ Len(tail) = ends /\ ends \in Nat
      /\ \A i \in 1..ends : tail[i] = z
  <2>1. tail \in [1..ends -> Chunk] /\ ends \in Nat
    BY <1>2
  <2> QED
    BY <2>1, SeqDef
<1>5. head \in Seq(Chunk) /\ k \in Nat /\ \A i \in 1..k : head[i] = a
  <2>1. CASE text
    BY <1>2, <2>1
  <2>2. CASE ~text
    BY <2>2
  <2> QED
    BY <2>1, <2>2
<1>6. n \in Nat /\ DOMAIN shown[r] = 1..n
  BY <1>1
<1> HIDE DEF head, tail, n, k
<1> DEFINE pre == shown[r] \o head
<1>7. /\ pre \in Seq(Chunk) /\ Len(pre) = n + k
      /\ \A i \in 1..n : pre[i] = shown[r][i]
      /\ \A i \in 1..k : pre[n + i] = head[i]
  BY <1>1, <1>5, <1>6 DEF n, k
<1> HIDE DEF pre
<1>8. /\ pre \o tail \in Seq(Chunk) /\ Len(pre \o tail) = n + k + ends
      /\ DOMAIN (pre \o tail) = 1..(n + k + ends)
      /\ \A i \in 1..(n + k) : (pre \o tail)[i] = pre[i]
      /\ \A i \in 1..ends : (pre \o tail)[n + k + i] = tail[i]
  BY <1>4, <1>5, <1>6, <1>7
<1>9. shown'[r] = pre \o tail
  BY <1>3 DEF pre
<1>10. ASSUME NEW i \in 1..(n + k + ends)
       PROVE  /\ i \in Nat
              /\ i <= n => i \in 1..n /\ shown'[r][i] = shown[r][i]
              /\ i > n => shown'[r][i].from = Target(r)
  <2>1. i \in Nat
    BY <1>4, <1>5, <1>6
  <2>2. CASE i <= n
    <3>1. i \in 1..n /\ i \in 1..(n + k)
      BY <1>4, <1>5, <1>6, <2>2
    <3> QED
      BY <1>6, <1>7, <1>8, <1>9, <2>1, <2>2, <3>1
  <2>3. CASE n < i /\ i <= n + k
    <3>1. i \in 1..(n + k) /\ i - n \in 1..k /\ n + (i - n) = i
      BY <1>5, <1>6, <2>1, <2>3
    <3>2. pre[i] = a
      BY <1>5, <1>7, <3>1
    <3> QED
      BY <1>2, <1>6, <1>8, <1>9, <2>1, <2>3, <3>1, <3>2
  <2>4. CASE n + k < i
    <3>1. i - (n + k) \in 1..ends /\ n + k + (i - (n + k)) = i
      BY <1>4, <1>5, <1>6, <2>1, <2>4
    <3>2. shown'[r][i] = z
      BY <1>4, <1>8, <1>9, <3>1
    <3> QED
      BY <1>2, <1>5, <1>6, <2>1, <2>4, <3>2
  <2> QED
    BY <1>5, <1>6, <2>1, <2>2, <2>3, <2>4
<1>11. Extended(r)
  BY <1>6, <1>8, <1>9, <1>10 DEF Extended
<1>12. ASSUME ends > 0 PROVE shown'[r] # <<>> /\ Last(shown'[r]) = z
  <2>1. ends \in 1..ends /\ n + k + ends > 0
    BY <1>4, <1>5, <1>6, <1>12
  <2>2. (pre \o tail)[n + k + ends] = z
    BY <1>4, <1>8, <2>1
  <2> QED
    BY <1>8, <1>9, <2>1, <2>2 DEF Last
<1> QED
  BY <1>11, <1>12 DEF z

\* What is added is the target's, and what was there of others has failed.
LEMMA ExtendedBehind ==
  ASSUME NEW r \in Request, Sourced(r), Behind(r), Extended(r), downNow[r] \subseteq downNow'[r]
  PROVE  /\ Behind(r)'
         /\ \A i \in DOMAIN shown'[r] : shown'[r][i].from \in downNow'[r] \cup {Target(r)}
<1>1. PICK n \in Nat :
        /\ DOMAIN shown[r] = 1..n
        /\ \A i \in DOMAIN shown'[r] :
             /\ i \in Nat
             /\ i <= n => i \in 1..n /\ shown'[r][i] = shown[r][i]
             /\ i > n => shown'[r][i].from = Target(r)
  BY DEF Extended
<1>2. ASSUME NEW i \in DOMAIN shown'[r]
      PROVE  shown'[r][i].from \in downNow[r] \cup {Target(r)}
  <2>1. CASE i <= n
    BY <1>1, <1>2, <2>1 DEF Sourced
  <2>2. CASE i > n
    BY <1>1, <1>2, <2>2
  <2> QED
    BY <1>1, <1>2, <2>1, <2>2
<1>3. ASSUME NEW i \in DOMAIN shown'[r], NEW j \in DOMAIN shown'[r],
             i < j, shown'[r][i].from # shown'[r][j].from
      PROVE  shown'[r][i].from \in downNow[r]
  <2>0. i \in Nat /\ j \in Nat
    BY <1>1
  <2>1. CASE j <= n
    <3>1. i \in 1..n /\ j \in 1..n /\ shown'[r][i] = shown[r][i] /\ shown'[r][j] = shown[r][j]
      BY <1>1, <1>3, <2>0, <2>1
    <3> QED
      BY <1>1, <1>3, <3>1 DEF Behind
  <2>2. CASE j > n
    BY <1>1, <1>2, <1>3, <2>2
  <2> QED
    BY <2>0, <2>1, <2>2
<1> QED
  BY <1>2, <1>3 DEF Behind

\* Every step keeps what the streams have shown in order.
LEMMA StreamedStep ==
  ASSUME Standing, \A r \in Request : Streamed(r), [Next]_vars
  PROVE  \A r \in Request : Streamed(r)'
<1> USE DEF sessions, breakers, metrics, past, locals
<1>1. TypeOK
  BY DEF Standing
<1>2. ASSUME NEW q \in Request, Same(q), shown'[q] = shown[q] PROVE Streamed(q)'
  BY <1>2 DEF Same, Streamed, Sourced, Behind, Closed, Target
<1>3. ASSUME NEW r \in Request, Acts(r), NEW q \in Request, q # r PROVE Streamed(q)'
  <2>1. shown'[q] = shown[q]
    <3> shown \in [Request -> Seq([from : Model, is_last : BOOLEAN])]
      BY <1>1 DEF TypeOK
    <3>1. CASE Start(r) \/ NoSuchSession(r) \/ Ask(r) \/ Read(r) \/ Plan(r) \/ Answer(r) \/ Hangs(r)
      BY <3>1 DEF Start, NoSuchSession, Ask, Read, Plan, Answer,
                  Hangs, HangsInGetSession, HangsInAddMessage, HangsInGetHistory
    <3>2. CASE CallFails(r) \/ CallAsksForTools(r) \/ CallAnswers(r) \/ CallIsBlank(r)
      BY <3>2 DEF CallFails, CallAsksForTools, CallAnswers, CallIsBlank
    <3>3. CASE StreamFails(r) \/ StreamAnswers(r) \/ CallThrows(r)
      BY <1>3, <3>3 DEF StreamFails, StreamAnswers, CallThrows, Shows
    <3> QED
      BY <1>3, <3>1, <3>2, <3>3 DEF Acts, Proceed, Hangs
  <2> QED
    BY <1>1, <1>2, <1>3, <2>1, Alone
<1>4. ASSUME NEW r \in Request, Acts(r) PROVE Streamed(r)'
  <2> SUFFICES ASSUME r \in Streams PROVE Streamed(r)'
    BY DEF Streamed
  <2>1. /\ pc[r] # "call" /\ (pc[r] # "done" => result[r] = "none")
        /\ pc[r] \in {"idle", "ask", "read", "plan"} => shown[r] = <<>>
        /\ Sourced(r) /\ Behind(r) /\ (pc[r] = "answer" => Closed(r))
    BY DEF Streamed, Standing, Each, Returned
\* Nothing is shown before the call.
  <2>2. CASE Start(r) \/ NoSuchSession(r) \/ Ask(r) \/ Read(r) \/ Plan(r)
             \/ HangsInGetSession(r) \/ HangsInGetHistory(r)
    <3>1. shown'[r] = <<>> /\ pc'[r] \notin {"call", "answer"} /\ result'[r] # "text"
      BY <1>1, <2>1, <2>2 DEF Start, NoSuchSession, Ask, Read, Plan, Goto, Return, TypeOK,
                              HangsInGetSession, HangsInGetHistory
    <3> QED
      BY <3>1 DEF Streamed, Sourced, Behind
  <2>3. CASE CallFails(r) \/ CallAsksForTools(r) \/ CallAnswers(r) \/ CallIsBlank(r)
    BY <2>1, <2>3 DEF CallFails, CallAsksForTools, CallAnswers, CallIsBlank
  <2>4. pc[r] = "stream" => Target(r) \in Model
    <3> SUFFICES ASSUME pc[r] = "stream" PROVE Target(r) \in Model
      OBVIOUS
    <3>1. attempt[r] \in 1..Len(attemptOrder[r]) /\ attemptOrder[r] \in Seq(Model)
      BY <1>1 DEF Standing, Each, Calling, TypeOK
    <3> QED
      BY <3>1 DEF Target
  <2>5. CASE CallThrows(r)
    <3>1. /\ pc[r] = "stream" /\ pc'[r] = "done" /\ result'[r] = "exception"
          /\ downNow' = downNow /\ Target(r)' = Target(r)
      BY <1>1, <2>1, <2>5 DEF CallThrows, Return, TypeOK, Target
    <3>2. Extended(r)
      BY <1>1, <2>1, <2>4, <2>5, <3>1, Showing DEF CallThrows
    <3>3. Behind(r)' /\ Sourced(r)'
      BY <2>1, <3>1, <3>2, ExtendedBehind DEF Sourced
    <3> QED
      BY <3>1, <3>3 DEF Streamed
  <2>6. CASE StreamFails(r)
    <3>1. /\ pc[r] = "stream" /\ pc'[r] \in {"stream", "done"} /\ result'[r] # "text"
          /\ downNow'[r] = downNow[r] \cup {Target(r)}
      BY <1>1, <2>1, <2>6 DEF StreamFails, Fails, Return, TypeOK
    <3>2. Extended(r)
      BY <1>1, <2>4, <2>6, <3>1, Showing DEF StreamFails
    <3>3. /\ Behind(r)'
          /\ \A i \in DOMAIN shown'[r] : shown'[r][i].from \in downNow'[r] \cup {Target(r)}
      BY <2>1, <3>1, <3>2, ExtendedBehind
    <3>4. Sourced(r)'
      BY <3>1, <3>3 DEF Sourced
    <3> QED
      BY <3>1, <3>3, <3>4 DEF Streamed
  <2>7. CASE StreamAnswers(r)
    <3>1. /\ pc'[r] = "answer" /\ result' = result /\ Target(r)' = Target(r)
          /\ pc[r] = "stream" /\ downNow' = downNow
      BY <1>1, <2>7 DEF StreamAnswers, Succeeds, Goto, TypeOK, Target
    <3>2. PICK ends \in 1..2 : Shows(r, TRUE, ends)
      BY <2>7 DEF StreamAnswers
    <3>3. /\ Extended(r) /\ shown'[r] # <<>>
          /\ Last(shown'[r]) = [from |-> Target(r), is_last |-> TRUE]
      <4>1. ends \in 0..2 /\ ends > 0 /\ TRUE \in BOOLEAN
        OBVIOUS
      <4> QED
        BY <1>1, <2>4, <3>1, <3>2, <4>1, Showing
    <3>4. Behind(r)' /\ Sourced(r)'
      BY <2>1, <3>1, <3>3, ExtendedBehind DEF Sourced
    <3>5. Closed(r)'
      BY <3>1, <3>3 DEF Closed
    <3> QED
      BY <2>1, <3>1, <3>4, <3>5 DEF Streamed
  <2>8. CASE Answer(r) \/ HangsInAddMessage(r)
    <3>1. (Closed(r)' <=> Closed(r)) /\ Sourced(r)' /\ Behind(r)' /\ shown' = shown
      BY <2>1, <2>8 DEF Answer, HangsInAddMessage, Closed, Target, Sourced, Behind
    <3>2. /\ pc[r] \in {"ask", "answer"} /\ pc'[r] \in {"done", "hung"}
          /\ result'[r] = "text" => pc[r] = "answer"
      BY <1>1, <2>1, <2>8 DEF Answer, HangsInAddMessage, Goto, Return, TypeOK
    <3> QED
      BY <2>1, <3>1, <3>2 DEF Streamed
  <2> QED
    BY <1>4, <2>2, <2>3, <2>5, <2>6, <2>7, <2>8 DEF Acts, Proceed
<1>5. ASSUME UNCHANGED <<pc, locals, result, past>>, NEW q \in Request PROVE Streamed(q)'
  BY <1>2, <1>5 DEF Same
<1>6. CASE \E r \in Request : Acts(r)
  BY <1>3, <1>4, <1>6
<1>7. CASE (\E s \in Session : Others(s)) \/ Tick \/ UNCHANGED vars
  BY <1>5, <1>7 DEF Others, Delete, DeleteRow, GetSession, Tick, vars
<1> QED
  BY <1>6, <1>7 DEF Next, Acts, Others

\* For any registry and interleaving, nothing of another target follows on a stream's
\* callback but behind one that failed, and a returned text is closed by its target.
THEOREM StreamsCorrect == Spec => []NothingFollowsTheAnswer
<1> DEFINE All == \A r \in Request : Streamed(r)
<1>1. Init => All
  BY DEF Init, Streamed, Sourced, Behind
<1>2. Standing /\ All /\ [Next]_vars => All'
  BY StreamedStep
<1>3. All => NothingFollowsTheAnswer
  BY RequestAssumption DEF Streamed, Behind, Closed, NothingFollowsTheAnswer
<1> HIDE DEF All
<1> QED
  BY <1>1, <1>2, <1>3, StandingCorrect, PTL DEF Spec

-----------------------------------------------------------------------------
(* The metrics. *)

Threw == {r \in Request : last[r] = "threw"}
CameBackEmpty == {r \in Request : result[r] = "empty" /\ attemptOrder[r] # <<>>}

\* Counters agree with the requests, and one that threw is done.
Counted ==
    /\ MetricsAddUp
    /\ \A r \in Request : last[r] = "threw" => pc[r] = "done"

\* Provider calls, and what they came to, before and after a step.
NothingCalled == UNCHANGED <<calls, succeeded, refusals, last>>

CalledOnce(r) ==
    /\ calls' = [calls EXCEPT ![r] = @ + 1]
    /\ \/ /\ \E m \in Model : succeeded' = [succeeded EXCEPT ![m] = @ + 1]
          /\ Threw' = Threw /\ UNCHANGED refusals
       \/ /\ \E m \in Model : refusals' = [refusals EXCEPT ![m] = @ + 1]
          /\ Threw' = Threw /\ UNCHANGED succeeded
       \/ /\ r \notin Threw /\ Threw' = Threw \cup {r}
          /\ UNCHANGED <<succeeded, refusals>>

\* Errors, and the requests that came back with nothing.
NoError == erred' = erred /\ CameBackEmpty' = CameBackEmpty

OneError(r) ==
    /\ \E m \in Model : erred' = [erred EXCEPT ![m] = @ + 1]
    /\ r \notin CameBackEmpty /\ CameBackEmpty' = CameBackEmpty \cup {r}

\* A step of a request books its call once, and only if it calls
\* (ChatSDK.cc:162-187, 286-294).
LEMMA BooksCalls ==
  ASSUME Standing, Counted, NEW r \in Request, Acts(r)
  PROVE  /\ NothingCalled \/ CalledOnce(r)
         /\ \A q \in Request : last'[q] = "threw" => pc'[q] = "done"
<1> USE DEF sessions, breakers, metrics, past, locals
<1>0. TypeOK /\ \A q \in Request : last[q] = "threw" => pc[q] = "done"
  BY DEF Standing, Counted
<1>a. ASSUME NEW q \in Request, q # r PROVE last'[q] = "threw" => pc'[q] = "done"
  BY <1>0, <1>a, Alone DEF Same
<1>b. pc[r] \in {"call", "stream"} => Target(r) \in Model
  <2> SUFFICES ASSUME pc[r] \in {"call", "stream"} PROVE Target(r) \in Model
    OBVIOUS
  <2>1. attempt[r] \in 1..Len(attemptOrder[r]) /\ attemptOrder[r] \in Seq(Model)
    BY DEF Standing, Each, Calling, TypeOK
  <2> QED
    BY <2>1 DEF Target
<1>1. CASE Start(r) \/ NoSuchSession(r) \/ Ask(r) \/ Read(r) \/ Plan(r) \/ Answer(r) \/ Hangs(r)
  <2>1. NothingCalled /\ last[r] # "threw"
    BY <1>0, <1>1 DEF Start, NoSuchSession, Ask, Read, Plan, Answer, NothingCalled,
                      Hangs, HangsInGetSession, HangsInAddMessage, HangsInGetHistory
  <2> QED
    BY <1>a, <2>1 DEF NothingCalled
<1>2. CASE CallFails(r) \/ StreamFails(r)
  <2>1. pc[r] \in {"call", "stream"} /\ Fails(r)
    BY <1>2 DEF CallFails, StreamFails
  <2>2. /\ calls' = [calls EXCEPT ![r] = @ + 1] /\ refusals' = [refusals EXCEPT ![Target(r)] = @ + 1]
        /\ last' = [last EXCEPT ![r] = "failed"] /\ succeeded' = succeeded
    BY <2>1 DEF Fails, Called
  <2>3. last[r] # "threw"
    BY <1>0, <2>1
  <2>4. Threw' = Threw /\ last'[r] = "failed"
    BY <1>0, <2>2, <2>3 DEF Threw, TypeOK
  <2> QED
    BY <1>a, <1>b, <2>1, <2>2, <2>4 DEF CalledOnce
<1>3. CASE CallAsksForTools(r) \/ CallAnswers(r) \/ CallIsBlank(r) \/ StreamAnswers(r)
  <2>1. PICK o \in {"tools", "text_and_tools", "text", "blank"} :
          pc[r] \in {"call", "stream"} /\ Succeeds(r, o)
    BY <1>3 DEF CallAsksForTools, CallAnswers, CallIsBlank, StreamAnswers
  <2>2. /\ calls' = [calls EXCEPT ![r] = @ + 1] /\ succeeded' = [succeeded EXCEPT ![Target(r)] = @ + 1]
        /\ last' = [last EXCEPT ![r] = o] /\ refusals' = refusals
    BY <2>1 DEF Succeeds, Called
  <2>3. last[r] # "threw"
    BY <1>0, <2>1
  <2>4. Threw' = Threw /\ last'[r] # "threw"
    BY <1>0, <2>2, <2>3 DEF Threw, TypeOK
  <2> QED
    BY <1>a, <1>b, <2>1, <2>2, <2>4 DEF CalledOnce
<1>4. CASE CallThrows(r)
  <2>1. /\ pc[r] \in {"call", "stream"} /\ pc'[r] = "done"
        /\ calls' = [calls EXCEPT ![r] = @ + 1] /\ last' = [last EXCEPT ![r] = "threw"]
        /\ UNCHANGED <<succeeded, refusals>>
    BY <1>0, <1>4 DEF CallThrows, Called, Return, TypeOK
  <2>2. last[r] # "threw"
    BY <1>0, <2>1
  <2>3. r \notin Threw /\ Threw' = Threw \cup {r}
    BY <1>0, <2>1, <2>2 DEF Threw, TypeOK
  <2> QED
    BY <1>a, <2>1, <2>3 DEF CalledOnce
<1> QED
  BY <1>1, <1>2, <1>3, <1>4 DEF Acts, Proceed, Hangs

\* A step counts an error exactly when it ends a planned request with nothing
\* (ChatSDK.cc:170-181, 193-197, 218-221).
LEMMA BooksErrors ==
  ASSUME Standing, NEW r \in Request, Acts(r)
  PROVE  NoError \/ OneError(r)
<1> USE DEF sessions, breakers, metrics, past, locals
<1>0. TypeOK /\ Each(r)
  BY DEF Standing
<1>a. \A q \in Request : q # r => result'[q] = result[q] /\ attemptOrder'[q] = attemptOrder[q]
  BY <1>0, Alone DEF Same
<1>b. pc[r] # "done" => r \notin CameBackEmpty
  BY <1>0 DEF CameBackEmpty, Each, Returned
<1>c. r \notin CameBackEmpty /\ erred' = erred
         /\ (result'[r] # "empty" \/ attemptOrder'[r] = <<>>) => NoError
  BY <1>a DEF NoError, CameBackEmpty
<1>d. r \notin CameBackEmpty /\ result'[r] = "empty" /\ attemptOrder'[r] # <<>>
         => CameBackEmpty' = CameBackEmpty \cup {r}
  BY <1>a DEF CameBackEmpty
<1>e. pc[r] \in {"call", "stream"} => Name(r) \in Model /\ attemptOrder[r] # <<>>
  <2> SUFFICES ASSUME pc[r] \in {"call", "stream"} PROVE Name(r) \in Model /\ attemptOrder[r] # <<>>
    OBVIOUS
  <2>1. attempt[r] \in 1..Len(attemptOrder[r]) /\ on[r] \in Session
    BY <1>0 DEF Each, Calling, Inside
  <2> QED
    BY <2>1, SessionAssumption DEF Name
<1>f. result \in [Request -> {"none", "empty", "text", "exception"}]
  BY <1>0 DEF TypeOK
<1>1. CASE Start(r) \/ NoSuchSession(r) \/ Ask(r) \/ Read(r) \/ Answer(r)
  <2>1. pc[r] # "done" /\ erred' = erred /\ attemptOrder' = attemptOrder
    BY <1>1 DEF Start, NoSuchSession, Ask, Read, Answer
  <2>2. CASE Answer(r)
    BY <1>b, <1>c, <1>f, <2>1, <2>2 DEF Answer, Return
  <2>3. CASE ~Answer(r)
    <3>1. attemptOrder[r] = <<>>
      BY <1>0, <1>1, <2>3 DEF Start, NoSuchSession, Ask, Read, Each, Fresh
    <3> QED
      BY <1>b, <1>c, <2>1, <3>1
  <2> QED
    BY <2>2, <2>3
<1>2. CASE Plan(r)
  <2>1. PICK p \in R!Plans(Name(r)) :
          /\ attemptOrder' = [attemptOrder EXCEPT ![r] = p]
          /\ IF p = <<>> THEN Return(r, "empty")
             ELSE Goto(r, IF r \in Streams THEN "stream" ELSE "call")
    BY <1>2 DEF Plan, Name
  <2>2. pc[r] # "done" /\ erred' = erred /\ attemptOrder'[r] = p
    BY <1>0, <1>2, <2>1 DEF Plan, TypeOK
  <2>3. p # <<>> => result'[r] = "none"
    BY <1>0, <2>1, <2>2 DEF Goto, Each, Returned
  <2> QED
    BY <1>b, <1>c, <2>2, <2>3
<1>3. CASE CallFails(r) \/ StreamFails(r)
  <2>1. pc[r] \in {"call", "stream"} /\ Fails(r)
    BY <1>3 DEF CallFails, StreamFails
  <2>2. CASE attempt[r] < Len(attemptOrder[r])
    BY <1>0, <1>b, <1>c, <2>1, <2>2 DEF Fails, Each, Returned
  <2>3. CASE ~(attempt[r] < Len(attemptOrder[r]))
    <3>1. /\ erred' = [erred EXCEPT ![Name(r)] = @ + 1] /\ result'[r] = "empty"
          /\ attemptOrder' = attemptOrder
      BY <1>f, <2>1, <2>3 DEF Fails, Return
    <3> QED
      BY <1>b, <1>d, <1>e, <2>1, <3>1 DEF OneError
  <2> QED
    BY <2>2, <2>3
<1>4. CASE CallAsksForTools(r)
  <2>1. pc[r] = "call" /\ attemptOrder' = attemptOrder
    BY <1>4 DEF CallAsksForTools, Succeeds
  <2>2. CASE round[r] < MaxToolRounds
    BY <1>0, <1>4, <1>b, <1>c, <2>1, <2>2 DEF CallAsksForTools, Each, Returned
  <2>3. CASE ~(round[r] < MaxToolRounds)
    <3>1. erred' = [erred EXCEPT ![Name(r)] = @ + 1] /\ result'[r] = "empty"
      BY <1>4, <1>f, <2>3 DEF CallAsksForTools, Return
    <3> QED
      BY <1>b, <1>d, <1>e, <2>1, <3>1 DEF OneError
  <2> QED
    BY <2>2, <2>3
<1>5. CASE CallIsBlank(r)
  <2>1. /\ pc[r] = "call" /\ attemptOrder' = attemptOrder
        /\ erred' = [erred EXCEPT ![Name(r)] = @ + 1] /\ result'[r] = "empty"
    BY <1>5, <1>f DEF CallIsBlank, Succeeds, Return
  <2> QED
    BY <1>b, <1>d, <1>e, <2>1 DEF OneError
<1>6. CASE CallAnswers(r) \/ StreamAnswers(r)
  <2>1. pc[r] # "done" /\ attemptOrder' = attemptOrder /\ erred' = erred /\ result' = result
    BY <1>6 DEF CallAnswers, StreamAnswers, Succeeds, Goto
  <2> QED
    BY <1>0, <1>b, <1>c, <2>1 DEF Each, Returned
<1>7. CASE CallThrows(r)
  <2>1. pc[r] # "done" /\ erred' = erred /\ result'[r] = "exception"
    BY <1>7, <1>f DEF CallThrows, Return
  <2> QED
    BY <1>b, <1>c, <2>1
<1>8. CASE Hangs(r)
  <2>1. pc[r] # "done" /\ erred' = erred /\ attemptOrder' = attemptOrder /\ result' = result
    BY <1>8 DEF Hangs, HangsInGetSession, HangsInAddMessage, HangsInGetHistory, Goto
  <2> QED
    BY <1>0, <1>b, <1>c, <2>1 DEF Each, Returned
<1> QED
  BY <1>1, <1>2, <1>3, <1>4, <1>5, <1>6, <1>7, <1>8 DEF Acts, Proceed, Hangs

\* The two equations, before and after what a step may book.
LEMMA EquationsKept ==
  ASSUME TypeOK, TypeOK', MetricsAddUp, NEW r \in Request,
         NothingCalled \/ CalledOnce(r), NoError \/ OneError(r)
  PROVE  MetricsAddUp'
<1>1. IsFiniteSet(Request) /\ IsFiniteSet(Model)
  BY RequestAssumption, ModelAssumption
<1>2. /\ calls \in [Request -> Nat] /\ succeeded \in [Model -> Nat]
      /\ refusals \in [Model -> Nat] /\ erred \in [Model -> Nat]
  BY DEF TypeOK
<1>3. /\ IsFiniteSet(Threw) /\ Cardinality(Threw) \in Nat
      /\ IsFiniteSet(CameBackEmpty) /\ Cardinality(CameBackEmpty) \in Nat
  BY <1>1, FS_Subset, FS_CardinalityType DEF Threw, CameBackEmpty
<1>4. /\ r \notin Threw => Cardinality(Threw \cup {r}) = Cardinality(Threw) + 1
      /\ r \notin CameBackEmpty => Cardinality(CameBackEmpty \cup {r}) = Cardinality(CameBackEmpty) + 1
  BY <1>3, FS_AddElement
<1>5. /\ SumFunction(calls) = SumFunction(succeeded) + SumFunction(refusals) + Cardinality(Threw)
      /\ SumFunction(erred) = Cardinality(CameBackEmpty)
  BY DEF MetricsAddUp, Threw, CameBackEmpty
<1>6. /\ SumFunction(calls) \in Nat
      /\ SumFunction([calls EXCEPT ![r] = @ + 1]) = SumFunction(calls) + 1
  BY <1>1, <1>2, SumIncrement
<1>7. ASSUME NEW f \in {succeeded, refusals, erred}, NEW m \in Model
      PROVE  /\ SumFunction(f) \in Nat
             /\ SumFunction([f EXCEPT ![m] = @ + 1]) = SumFunction(f) + 1
  BY <1>1, <1>2, SumIncrement
<1>8. SumFunction(succeeded) \in Nat /\ SumFunction(refusals) \in Nat /\ SumFunction(erred) \in Nat
  BY <1>1, <1>2, SumFunctionType
<1>9. SumFunction(calls') = SumFunction(succeeded') + SumFunction(refusals') + Cardinality(Threw')
  <2>1. CASE NothingCalled
    BY <1>5, <2>1 DEF NothingCalled, Threw
  <2>2. CASE CalledOnce(r)
    BY <1>3, <1>4, <1>5, <1>6, <1>7, <1>8, <2>2 DEF CalledOnce
  <2> QED
    BY <2>1, <2>2
<1>10. SumFunction(erred') = Cardinality(CameBackEmpty')
  BY <1>3, <1>4, <1>5, <1>7, <1>8 DEF NoError, OneError
<1> QED
  BY <1>9, <1>10 DEF MetricsAddUp, Threw, CameBackEmpty

\* Nothing is booked at the start.
LEMMA CountedInit == Init => Counted
<1> SUFFICES ASSUME Init PROVE Counted
  OBVIOUS
<1>1. IsFiniteSet(Request) /\ IsFiniteSet(Model)
  BY RequestAssumption, ModelAssumption
<1>2. SumFunction([m \in Model |-> 0]) = 0 /\ SumFunction([r \in Request |-> 0]) = 0
  BY <1>1, SumOfZeros
<1>3. {r \in Request : last[r] = "threw"} = {}
      /\ {r \in Request : result[r] = "empty" /\ attemptOrder[r] # <<>>} = {}
  BY DEF Init
<1>4. Cardinality({}) = 0
  BY FS_EmptySet
<1>5. /\ calls = [r \in Request |-> 0] /\ succeeded = [m \in Model |-> 0]
      /\ refusals = [m \in Model |-> 0] /\ erred = [m \in Model |-> 0]
  BY DEF Init
<1>6. MetricsAddUp
  <2>1. /\ SumFunction(calls) = 0 /\ SumFunction(succeeded) = 0
        /\ SumFunction(refusals) = 0 /\ SumFunction(erred) = 0
    BY <1>2, <1>5
  <2>2. 0 = 0 + 0 + 0
    OBVIOUS
  <2> QED
    BY <1>3, <1>4, <2>1, <2>2 DEF MetricsAddUp
<1> QED
  BY <1>6 DEF Init, Counted

\* Every step books what it did, once.
LEMMA CountedStep == Standing /\ Standing' /\ Counted /\ [Next]_vars => Counted'
<1> SUFFICES ASSUME Standing, Standing', Counted, [Next]_vars PROVE Counted'
  OBVIOUS
<1>0. TypeOK /\ TypeOK' /\ MetricsAddUp
  BY DEF Standing, Counted
<1>1. CASE \E r \in Request : Acts(r)
  <2>1. PICK r \in Request : Acts(r)
    BY <1>1
  <2> QED
    BY <1>0, <2>1, BooksCalls, BooksErrors, EquationsKept DEF Counted
<1>2. ASSUME UNCHANGED <<metrics, pc, calls, refusals, last, result, attemptOrder>>
      PROVE  Counted'
  BY <1>2 DEF Counted, MetricsAddUp, metrics
<1>3. CASE \E s \in Session : Others(s)
  BY <1>2, <1>3 DEF Others, Delete, DeleteRow, GetSession, locals, past
<1>4. CASE Tick
  BY <1>2, <1>4 DEF Tick, locals, past
<1>5. CASE UNCHANGED vars
  BY <1>2, <1>5 DEF vars, locals, past
<1> QED
  BY <1>1, <1>3, <1>4, <1>5 DEF Next, Acts, Others

\* The metrics add up, for any models and any number of requests at once.
THEOREM MetricsCorrect == Spec => []MetricsAddUp
<1>1. Counted => MetricsAddUp
  BY DEF Counted
<1> QED
  BY <1>1, CountedInit, CountedStep, StandingCorrect, PTL DEF Spec
=============================================================================
