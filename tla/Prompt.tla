------------------------------- MODULE Prompt -------------------------------
(***************************************************************************)
(* What the models are told and what is made of their replies: the fitted  *)
(* history of ContextWindow goes through the rounds of sendMessage and,    *)
(* for each target, through its provider's buildRequestBody; a reply comes *)
(* back through its parseResponse, and its tool calls through the          *)
(* registered Tools.                                                       *)
(*                                                                         *)
(* The three request formats are brought to one shape, a list of turns and *)
(* their parts.  A text is a number, 0 when it is empty, below 0 when it   *)
(* is the error of a tool; an argument is the kind of JSON text it is.     *)
(***************************************************************************)
EXTENDS ContextWindow, Tools

CONSTANTS
    Orders,         \* the families of the targets of a request, in turn
    MaxToolRounds,  \* max_tool_rounds, 5 in the code
    Registrations,  \* the tools a program registers before its first request, in turn
    ToolNames,      \* what models may call
    Replies         \* what a server may reply: sequences of texts and calls

Family == {"openai", "claude", "gemini"}

ReplyPart == [kind : {"text"}] \cup [kind : {"call"}, name : {""} \cup ToolNames, args : Argument]

ASSUME OrdersAssumption == Orders \subseteq Seq(Family) /\ <<>> \notin Orders
ASSUME RoundsAssumption == MaxToolRounds \in Nat
ASSUME RegistrationsAssumption == \A s \in Registrations : s \in Seq(AnyTool)
ASSUME RepliesAssumption == \A r \in Replies : r \in Seq(ReplyPart)

VARIABLES
    phase,          \* of sendMessage
    history,
    tools,          \* toolRegistry_
    order,          \* attempt_order
    at,             \* where in it
    round,
    body            \* the request body of the call that runs

promptVars == <<phase, history, tools, order, at, round, body>>

NoBody == [system |-> <<>>, turns |-> <<>>, tools |-> {}]

Entry(role, text, calls) == [role |-> role, text |-> text, calls |-> calls, of |-> "", name |-> ""]

\* The result of a call, as ToolRegistry::execute returns it: whatever the tool
\* says, or the text of an error.
ToolEntry(call, text) ==
    [role |-> "tool", text |-> text, calls |-> <<>>, of |-> call.id, name |-> call.name]

---------------------------------------------------------------------------
(* The request bodies *)

Turn(role, parts) == [role |-> role, parts |-> parts]
TextPart(text)  == [kind |-> "text", text |-> text]
Call(key, args) == [kind |-> "call", key |-> key, args |-> args]
IsCall(p) == p.kind = "call"
CallsIn(parts) == Picked(parts, {j \in DOMAIN parts : IsCall(parts[j])})
Result(key, text) == [kind |-> "result", key |-> key, text |-> text]

\* One message per message; the text is there even when it is empty.
OpenAITurn(m) ==
    IF m.role = "tool"
    THEN Turn("tool", <<Result(m.of, m.text)>>)
    ELSE Turn(m.role, <<TextPart(m.text)>>
                          \o [j \in DOMAIN m.calls |-> Call(m.calls[j].id, m.calls[j].args)])

OpenAIBody(ms) == [system |-> <<>>, turns |-> [k \in DOMAIN ms |-> OpenAITurn(ms[k])]]

ClaudeInputAsItIs(args) == args

\* The argument parsed, or an object of its own when there is none or it is no JSON.
ClaudeInput(args) == IF args \in {"object", "value"} THEN args ELSE "{}"

ClaudeTurn(m) ==
    IF m.role = "user" \/ m.calls = <<>>
    THEN Turn(m.role, <<TextPart(m.text)>>)
    ELSE Turn("assistant",
              (IF m.text = 0 THEN <<>> ELSE <<TextPart(m.text)>>)
                  \o [j \in DOMAIN m.calls |-> Call(m.calls[j].id, ClaudeInput(m.calls[j].args))])

\* flush_tool_results: the results that wait become one turn of the user's.
Flush(b) ==
    IF b.pending = <<>> THEN b
    ELSE [b EXCEPT !.turns = Append(@, Turn("user", b.pending)), !.pending = <<>>]

ClaudeAddUnflushed(b, m) ==
    CASE m.role = "system" -> [b EXCEPT !.system = Append(@, m.text)]
      [] m.role = "tool"   -> [b EXCEPT !.pending = Append(@, Result(m.of, m.text))]
      [] OTHER             -> [b EXCEPT !.turns = Append(@, ClaudeTurn(m))]

\* Texts of the system go to a field of their own, results wait for the next turn.
ClaudeAdd(b, m) ==
    CASE m.role = "system" -> [b EXCEPT !.system = Append(@, m.text)]
      [] m.role = "tool"   -> [b EXCEPT !.pending = Append(@, Result(m.of, m.text))]
      [] OTHER             -> [Flush(b) EXCEPT !.turns = Append(@, ClaudeTurn(m))]

ClaudeBody(ms) ==
    LET built[k \in 0..Len(ms)] ==
            IF k = 0 THEN [system |-> <<>>, turns |-> <<>>, pending |-> <<>>]
                     ELSE ClaudeAdd(built[k - 1], ms[k])
        b == Flush(built[Len(ms)])
    IN  [system |-> b.system, turns |-> b.turns]

\* parseArgs: what is no JSON is wrapped in an object.
GeminiArgs(args) == IF args \in {"object", "value"} THEN args ELSE "{value}"

\* A call is known by its name; the text next to calls is left out.
GeminiTurn(m) ==
    CASE m.role = "tool"    -> Turn("function", <<Result(m.name, m.text)>>)
      [] m.calls # <<>>     -> Turn("model", [j \in DOMAIN m.calls |->
                                         Call(m.calls[j].name, GeminiArgs(m.calls[j].args))])
      [] m.role = "assistant" /\ m.calls = <<>> -> Turn("model", <<TextPart(m.text)>>)
      [] OTHER              -> Turn(m.role, <<TextPart(m.text)>>)

GeminiBody(ms) ==
    LET said == Picked(ms, {k \in DOMAIN ms : ms[k].role # "system"})
    IN  [system |-> <<>>, turns |-> [k \in DOMAIN said |-> GeminiTurn(said[k])]]

BodyOf(family, ms, defs) ==
    LET said == CASE family = "openai" -> OpenAIBody(ms)
                  [] family = "claude" -> ClaudeBody(ms)
                  [] family = "gemini" -> GeminiBody(ms)
    IN  [system |-> said.system, turns |-> said.turns, tools |-> DeclarationsFor(family, defs)]

\* parseArgs adds a member to whatever the failed parse left behind, and an array
\* that was begun takes none: jsoncpp throws.
BuildThrows(family, ms) ==
    family = "gemini" /\ \E k \in DOMAIN ms : \E j \in DOMAIN ms[k].calls :
                             ms[k].calls[j].args = "open"

---------------------------------------------------------------------------
(* The replies *)

\* Servers give each call an id of its own.
OpenAICalls(reply) ==
    LET calls == CallsIn(reply)
    IN  [j \in DOMAIN calls |->
            [name |-> calls[j].name, args |-> calls[j].args, id |-> <<"call", round, j>>]]

\* The input is written back to text, and so is one that is missing, as null.
ClaudeCalls(reply) ==
    LET calls == CallsIn(reply)
    IN  [j \in DOMAIN calls |->
            [name |-> calls[j].name, id |-> <<"toolu", round, j>>,
             args |-> IF calls[j].args = "object" THEN "object" ELSE "value"]]

\* Only an object is written back; ids count the calls of one reply.
GeminiCalls(reply) ==
    LET calls == CallsIn(reply)
    IN  [j \in DOMAIN calls |->
            [name |-> calls[j].name, id |-> <<"call_gemini", calls[j].name, j - 1>>,
             args |-> IF calls[j].args = "object" THEN "object" ELSE ""]]

\* A call without a name is passed over.
Named(c) == c.name # ""

ToolCalls(family, reply) ==
    LET calls == CASE family = "openai" -> OpenAICalls(reply)
                   [] family = "claude" -> ClaudeCalls(reply)
                   [] family = "gemini" -> GeminiCalls(reply)
    IN  Picked(calls, {j \in DOMAIN calls : Named(calls[j])})

\* A text nobody has said before.
NewText(k) == Len(history) + k

Said(reply) == IF \E j \in DOMAIN reply : ~IsCall(reply[j]) THEN NewText(1) ELSE 0

---------------------------------------------------------------------------
(* sendMessage *)

PromptInit ==
    /\ Init
    /\ phase = "fit"
    /\ history = <<>>
    /\ tools \in {Registered(s) : s \in Registrations}
    /\ order = <<>>
    /\ at = 1 /\ round = 0
    /\ body = NoBody

Fitting ==
    /\ phase = "fit" /\ Next
    /\ UNCHANGED promptVars

\* The messages that fit are the history, and the order of the attempts is planned;
\* what went into the fitting is gone.
Begun ==
    /\ phase = "fit" /\ pc = "done"
    /\ history' = [k \in DOMAIN result |->
                      Entry(result[k].role, IF Bytes(result[k].text) = 0 THEN 0 ELSE k, <<>>)]
    /\ messages' = <<>> /\ budget' = 0 /\ i' = 0 /\ remaining' = 0 /\ result' = <<>>
    /\ order' \in Orders
    /\ phase' = "ask"
    /\ UNCHANGED <<pc, tools, at, round, body>>

Ask ==
    /\ phase = "ask" /\ ~BuildThrows(order[at], history)
    /\ body' = BodyOf(order[at], history, definitions(tools))
    /\ phase' = "wait"
    /\ UNCHANGED <<vars, history, tools, order, at, round>>

AskThrows ==
    /\ phase = "ask" /\ BuildThrows(order[at], history)
    /\ phase' = "thrown"
    /\ UNCHANGED <<vars, history, tools, order, at, round, body>>

\* No connection, another status, JSON that is none or lacks what must be there.
Fails ==
    /\ phase = "wait"
    /\ at' = IF at < Len(order) THEN at + 1 ELSE at
    /\ phase' = IF at < Len(order) THEN "ask" ELSE "done"
    /\ body' = NoBody
    /\ UNCHANGED <<vars, history, tools, order, round>>

\* What the tools may return for the calls of a reply.
Results(calls) ==
    {[j \in DOMAIN calls |-> ToolEntry(calls[j], IF out[j] = "error" THEN -NewText(j + 1)
                                                ELSE NewText(j + 1))] :
        out \in {o \in [DOMAIN calls -> {"result", "error"}] :
                   \A j \in DOMAIN calls : o[j] \in execute(tools, calls[j].name, calls[j].args)}}

\* The tools are run in order and the next round begins with the first target.
AsksForTools(reply) ==
    LET calls == ToolCalls(order[at], reply) IN
    /\ phase = "wait" /\ calls # <<>> /\ round < MaxToolRounds
    /\ \E results \in Results(calls) :
           history' = Append(history, Entry("assistant", Said(reply), calls)) \o results
    /\ round' = round + 1
    /\ at' = 1
    /\ phase' = "ask"
    /\ body' = NoBody
    /\ UNCHANGED <<vars, tools, order>>

Ends(reply) ==
    /\ phase = "wait"
    /\ ToolCalls(order[at], reply) = <<>> \/ round = MaxToolRounds
    /\ phase' = "done"
    /\ body' = NoBody
    /\ UNCHANGED <<vars, history, tools, order, at, round>>

PromptNext ==
    \/ Fitting \/ Begun \/ Ask \/ AskThrows \/ Fails
    \/ \E reply \in Replies : AsksForTools(reply) \/ Ends(reply)

PromptSpec == PromptInit /\ [][PromptNext]_<<vars, promptVars>>

---------------------------------------------------------------------------
(* What the models are promised *)

Parts == FlattenSeq([k \in DOMAIN body.turns |-> body.turns[k].parts])
TextsOf(parts) == [k \in DOMAIN parts |-> parts[k].text]
Told == body.system \o TextsOf(Picked(Parts, {k \in DOMAIN Parts : ~IsCall(Parts[k])}))

\* In every request every call is followed by its result: after the calls of a turn
\* come as many results and nothing between, the j-th under the key of the j-th call.
\* The comment at ClaudeProvider.cc:294 promises it of tool_use and tool_result; the
\* order of the tool loop and each builder's grouping have to agree for it.
EveryCallHasItsResult ==
    \A t \in DOMAIN body.turns :
        LET before == Len(FlattenSeq([k \in 1..t |-> body.turns[k].parts]))
            calls == CallsIn(body.turns[t].parts)
        IN  \A j \in DOMAIN calls :
                /\ before + j <= Len(Parts)
                /\ Parts[before + j].kind = "result"
                /\ Parts[before + j].key = calls[j].key

\* A family's body has the text of an entry, or the result it is.
IsTold(family, m) ==
    CASE family = "openai" -> TRUE
      [] family = "claude" -> m.calls = <<>> \/ m.text # 0
      [] family = "gemini" -> m.role # "system" /\ m.calls = <<>>

\* Every request tells what the history says, in its order and once: all texts and
\* results, but that Gemini's body has no message of the system, and so not the
\* summary of what was cut, and none of the texts that came with calls.
\* In every round it offers the registered tools, no two under one name, each with all
\* the parameters it requires.
TellsTheHistory ==
    phase = "wait"
        => /\ Told = TextsOf(Picked(history, {k \in DOMAIN history : IsTold(order[at], history[k])}))
           /\ LET offered == Declared(order[at], body.tools)
              IN  /\ {d.name : d \in offered} = {t.name : t \in tools}
                  /\ \A d, e \in offered : d.name = e.name => d = e
                  /\ \A d \in offered : ToSet(d.schema.required) \subseteq DOMAIN d.schema.properties

\* An object of arguments is that object in every later request of every family, and a
\* call is never left out: the calls in a body are those in the history.  The others
\* become objects too, as the comment at ClaudeProvider.cc:329 has it, unless they are
\* JSON of another type.  And what came back of a call as a result, a tool of that name
\* returned for those arguments: the rest, what is no object to a calculator for one,
\* comes back as an error, and next to the right call.
ArgumentsSurvive ==
    LET called == FlattenSeq([k \in DOMAIN history |-> history[k].calls])
        calls  == CallsIn(Parts)
    IN  phase = "wait"
            => /\ Len(calls) = Len(called)
               /\ \A j \in DOMAIN calls :
                      /\ called[j].args = "object" <=> calls[j].args = "object"
                      /\ order[at] # "openai" /\ called[j].args # "value"
                             => calls[j].args \in {"object", "{}", "{value}"}
               /\ \A k \in DOMAIN history : \A j \in DOMAIN history[k].calls :
                      history[k + j].text > 0
                          => \E t \in tools : /\ t.name = history[k].calls[j].name
                                              /\ history[k].calls[j].args \in t.answers.result
=============================================================================
