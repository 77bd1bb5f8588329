------------------------------- MODULE Tools --------------------------------
(***************************************************************************)
(* The tools a program registers with the SDK: the registry, what a call   *)
(* of a tool may come to, and how the three families declare the tools to  *)
(* their models.  Descriptions, which only the models read, are left out.  *)
(***************************************************************************)
EXTENDS Integers, Sequences, SequencesExt

\* The elements of s at some of its places, in their order.  (A function in place of
\* SelectSeq and its operator, which the provers cannot look into.)
Picked(s, places) ==
    LET upto[k \in 0..Len(s)] ==
            IF k = 0 THEN <<>>
            ELSE IF k \in places THEN Append(upto[k - 1], s[k])
            ELSE upto[k - 1]
    IN  upto[Len(s)]

\* An object, no text at all, JSON that is not an object, text that is no JSON,
\* and an array that is not closed.
Argument == {"object", "", "value", "broken", "open"}

Parameter == [name : STRING, type : STRING, required : BOOLEAN]

AnyTool ==
    [name : STRING, parameters : Seq(Parameter),
     answers : [result : SUBSET Argument, error : SUBSET Argument]]

ToolParameter(name, type, required) == [name |-> name, type |-> type, required |-> required]

\* answers: the arguments a tool has a result for, and those it has an error for.
Tool(name, parameters, results, errors) ==
    [name |-> name, parameters |-> parameters,
     answers |-> [result |-> results, error |-> errors]]

ToolDefinition(tool) == [name |-> tool.name, parameters |-> tool.parameters]

\* No tool at all: a null pointer.
NoTool == Tool("", <<>>, {}, {})

\* Two numbers and an operator.  What parses is not enough: a division by 0, an
\* unknown operator, and numbers or members that are none (jsoncpp throws) are errors.
CalculatorTool ==
    Tool("calculator",
         <<ToolParameter("a", "number", TRUE), ToolParameter("b", "number", TRUE),
           ToolParameter("op", "string", TRUE)>>,
         {"object"}, Argument)

\* The time, whatever the arguments are.
TimeTool == Tool("get_time", <<>>, Argument, {})

---------------------------------------------------------------------------
(* ToolRegistry: a set of tools with different names *)

\* Mutant: the registered tool stays.
registerToolBeside(tools, tool) ==
    IF tool = NoTool THEN tools ELSE tools \cup {tool}

\* A tool takes the place of an earlier one with its name.
registerTool(tools, tool) ==
    IF tool = NoTool THEN tools ELSE {t \in tools : t.name # tool.name} \cup {tool}

\* What is registered when these tools are, in turn, on an empty registry.
Registered(s) ==
    LET upto[k \in 0..Len(s)] == IF k = 0 THEN {} ELSE registerTool(upto[k - 1], s[k])
    IN  upto[Len(s)]

definitions(tools) == {ToolDefinition(t) : t \in tools}

\* How a call may come out: an exception of the tool becomes the text of an error,
\* and so does a name nobody registered.
execute(tools, name, args) ==
    LET named == {t \in tools : t.name = name}
    IN  IF named = {} THEN {"error"}
        ELSE {out \in {"result", "error"} : \E t \in named : args \in t.answers[out]}

---------------------------------------------------------------------------
(* Declarations *)

\* One property for each name, the last parameter of that name.
Properties(parameters) ==
    [n \in {p.name : p \in ToSet(parameters)} |->
        LET last == CHOOSE k \in DOMAIN parameters :
                        /\ parameters[k].name = n
                        /\ \A l \in DOMAIN parameters : parameters[l].name = n => l <= k
        IN  parameters[last].type]

\* Neither the properties nor the list of the required is written when it is empty.
Schema(parameters) ==
    LET required == Picked(parameters, {k \in DOMAIN parameters : parameters[k].required})
    IN  [type       |-> "object",
         properties |-> Properties(parameters),
         required   |-> [k \in DOMAIN required |-> required[k].name]]

toolToFunction(def) ==
    [type |-> "function", function |-> [name |-> def.name, parameters |-> Schema(def.parameters)]]

toolToToolDef(def) == [name |-> def.name, input_schema |-> Schema(def.parameters)]

toolToFunctionDeclaration(def) == [name |-> def.name, parameters |-> Schema(def.parameters)]

\* Gemini's are one tool with many functions.
DeclarationsFor(family, defs) ==
    CASE family = "openai" -> {toolToFunction(d) : d \in defs}
      [] family = "claude" -> {toolToToolDef(d) : d \in defs}
      [] family = "gemini" -> IF defs = {} THEN {}
                              ELSE {[functionDeclarations |->
                                        {toolToFunctionDeclaration(d) : d \in defs}]}

\* What a body declares, whichever family wrote it.
Declared(family, declarations) ==
    CASE family = "openai" -> {[name |-> d.function.name, schema |-> d.function.parameters]
                                  : d \in declarations}
      [] family = "claude" -> {[name |-> d.name, schema |-> d.input_schema] : d \in declarations}
      [] family = "gemini" -> UNION {{[name |-> f.name, schema |-> f.parameters]
                                         : f \in d.functionDeclarations} : d \in declarations}
=============================================================================
