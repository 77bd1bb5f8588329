----------------------------- MODULE MC_Prompt -----------------------------
(* ContextWindow on conversations of up to three messages, and two rounds of tools
   over every pair of families. *)
EXTENDS Prompt

Of(w, n) == <<[w |-> w, n |-> n]>>

\* Nothing, one word, texts of each width that are cut, and one of two widths.
SomeTexts ==
    {<<>>, Of(1, 3), Of(1, 312), Of(2, 120), Of(4, 25), Of(1, 7) \o Of(3, 40) \o Of(1, 2)}

\* No window, one smaller than the answer may be, and budgets from one that pays for
\* less than a message to one that pays for all.
SomeWindows == {<<0, 100>>, <<50, 100>>} \cup {<<100 + b, 100>> : b \in {4, 5, 19, 45, 90, 150}}

TwoFamilies == {<<f>> : f \in Family} \cup {o \in Family \X Family : o[1] # o[2]}

Text == [kind |-> "text"]
ToolCall(args) == [kind |-> "call", name |-> "calculator", args |-> args]
TimeCall == [kind |-> "call", name |-> "get_time", args |-> ""]
Nameless == [kind |-> "call", name |-> "", args |-> "object"]

\* The demo's tools, and a calculator that is registered anew as one that throws and
\* whose parameters are declared twice.
Names == {"calculator", "get_time"}
ThrowingTool ==
    Tool("calculator", <<ToolParameter("a", "string", TRUE), ToolParameter("a", "number", TRUE)>>,
         {}, Argument)
SomeRegistrations ==
    {<<CalculatorTool, TimeTool>>, <<CalculatorTool, NoTool, ThrowingTool>>}

\* A text, nothing, a call with each argument, and calls with a text or another call.
SomeReplies ==
    {<<Text>>, <<>>} \cup {<<ToolCall(a)>> : a \in Argument}
        \cup {<<Text, ToolCall("object")>>, <<ToolCall("object"), TimeCall>>,
              <<Nameless, ToolCall("object"), Text>>}
=============================================================================
