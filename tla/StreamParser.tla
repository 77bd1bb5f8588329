---------------------------- MODULE StreamParser ----------------------------
(***************************************************************************)
(* sendMessageStream of the three providers, from the request to the text  *)
(* it returns: the response arrives in pieces that the network cuts where  *)
(* it likes, the receiver cuts it again into server-sent events, and what  *)
(* an event says goes to the caller's callback.                            *)
(*                                                                         *)
(* What is sent is a sequence of lines and line ends.  A line is what the  *)
(* parser makes of it: "text" (a delta with text), "blank" (one without),  *)
(* "tail" (text and the finish reason in one), "stop", "done" ([DONE]),    *)
(* "error", "odd" (JSON with a value of another type where the text should *)
(* be) and "note" (a comment or an event: line).  A piece of a line has no *)
(* line end in it, so the receiver cannot tell it from no line at all.     *)
(***************************************************************************)
EXTENDS Integers, Sequences, SequencesExt

CONSTANTS
    Families,   \* the providers to look at, some of Family
    Sent        \* what servers send: sequences of parts, each a sequence of symbols

Family == {"openai", "claude", "gemini"}

Data   == {"text", "blank", "tail", "stop", "done", "error", "odd"}
Symbol == Data \cup {"note", "lf", "cr"}

ASSUME FamiliesAssumption == Families \subseteq Family
ASSUME SentAssumption == \A s \in Sent : s \in Seq(Seq(Symbol)) /\ FlattenSeq(s) \in Seq(Symbol)

VARIABLES
    family,         \* whose sendMessageStream it is
    sent,           \* what its server sends, part by part
    wire,           \* the same in one
    got,            \* how much of it has arrived
    taken,          \* how much of that has left the buffer
    buffer,
    full_content,   \* where on the wire its texts stood
    streamFinish,
    shown,          \* what the callback was called with, and from which line
    pc,
    result          \* "" and a text are "empty" and "text"

vars == <<family, sent, wire, got, taken, buffer, full_content, streamFinish, shown, pc, result>>

\* blank and end are the callback's ("", false) and ("", true), and apology is
\* its (error_msg, true).
Chunk == [what : {"text", "blank", "end", "apology"}, at : Nat]

TypeOK ==
    /\ family \in Family
    /\ sent \in Sent /\ wire = FlattenSeq(sent)
    /\ got \in 0..Len(wire)
    /\ taken \in 0..got
    /\ buffer \in Seq(Symbol)
    /\ full_content \in Seq(Nat)
    /\ streamFinish \in BOOLEAN
    /\ shown \in Seq(Chunk)
    /\ pc \in {"send", "wait", "cut", "done"}
    /\ result \in {"none", "empty", "text", "exception"}

Init ==
    /\ family \in Families
    /\ sent \in Sent
    /\ wire = FlattenSeq(sent)
    /\ got = 0 /\ taken = 0
    /\ buffer = <<>>
    /\ full_content = <<>>
    /\ streamFinish = FALSE
    /\ shown = <<>>
    /\ pc = "send"
    /\ result = "none"

-----------------------------------------------------------------------------
(* What an event says. *)

\* The line that is read: Claude's parser looks for the first data: line, the
\* others read one only if the event starts with it.
DataAt(event) ==
    LET lines == {i \in DOMAIN event : event[i] \in Data /\ (family = "claude" \/ i = 1)}
    IN  {i \in lines : \A j \in lines : i <= j}

\* [DONE] is compared with all that follows data: in the event.
SaysOpenAI(line, event) ==
    CASE line \in {"text", "tail"} -> <<"text">>
      [] line = "blank"            -> <<"blank">>
      [] event = <<"done">>        -> <<"end">>
      [] OTHER                     -> <<>>

SaysClaude(line) ==
    CASE line \in {"text", "tail"}          -> <<"text">>
      [] line = "blank"                     -> <<"blank">>
      [] line \in {"stop", "done", "error"} -> <<"end">>
      [] OTHER                              -> <<>>

\* Mutant: the error message is taken for an answer.
SaysGeminiTheError(line) ==
    CASE line \in {"text", "error"} -> <<"text">>
      [] line = "tail"              -> <<"text", "end">>
      [] line = "stop"              -> <<"end">>
      [] OTHER                      -> <<>>

SaysGemini(line) ==
    CASE line = "text"  -> <<"text">>
      [] line = "tail"  -> <<"text", "end">>
      [] line = "stop"  -> <<"end">>
      [] line = "error" -> <<"apology">>
      [] OTHER          -> <<>>

Says(line, event) ==
    CASE family = "openai" -> SaysOpenAI(line, event)
      [] family = "claude" -> SaysClaude(line)
      [] family = "gemini" -> SaysGemini(line)

-----------------------------------------------------------------------------
(* The receiver. *)

\* Mutant: only line ends of one kind.
SeparatorsOne == {<<"lf", "lf">>}

Separators ==
    IF family = "gemini" THEN {<<"lf", "lf">>, <<"cr", "lf", "cr", "lf">>} ELSE {<<"lf", "lf">>}

\* Where the first separator of a sequence stands, and which one it is.
FirstCut(q) ==
    LET cuts == {c \in (1..Len(q)) \X Separators :
                    IsPrefix(c[2], SubSeq(q, c[1], Len(q)))}
    IN  {c \in cuts : \A d \in cuts : c[1] <= d[1]}

Return(value) == pc' = "done" /\ result' = value

\* The connection could not be made, or the status is not 200.
Refused ==
    /\ pc = "send"
    /\ Return("empty")
    /\ UNCHANGED <<family, sent, wire, got, taken, buffer, full_content, streamFinish, shown>>

Accepted ==
    /\ pc = "send"
    /\ pc' = "wait"
    /\ UNCHANGED <<family, sent, wire, got, taken, buffer, full_content, streamFinish, shown, result>>

\* content_receiver is called with the next piece.
Arrive ==
    /\ pc = "wait"
    /\ \E n \in (got + 1)..Len(wire) :
         /\ buffer' = buffer \o SubSeq(wire, got + 1, n)
         /\ got' = n
    /\ pc' = "cut"
    /\ UNCHANGED <<family, sent, wire, taken, full_content, streamFinish, shown, result>>

\* Mutant: an empty event is left where it is.
EraseWords(c) ==
    IF c[1] = 1 THEN UNCHANGED <<buffer, taken>>
    ELSE /\ buffer' = SubSeq(buffer, c[1] + Len(c[2]), Len(buffer))
         /\ taken' = taken + c[1] + Len(c[2]) - 1

\* The event and its separator leave the buffer.
Erase(c) ==
    /\ buffer' = SubSeq(buffer, c[1] + Len(c[2]), Len(buffer))
    /\ taken' = taken + c[1] + Len(c[2]) - 1

\* processSseEvent, if the event has a line that is read.
Process(event) ==
    \/ \E i \in DataAt(event) :
         LET says == Says(event[i], event)
         IN  /\ event[i] # "odd"
             /\ shown' = shown \o [k \in DOMAIN says |-> [what |-> says[k], at |-> taken + i]]
             /\ full_content' = IF "text" \in ToSet(says) THEN Append(full_content, taken + i)
                                                         ELSE full_content
             /\ streamFinish' = (streamFinish \/ ToSet(says) \cap {"end", "apology"} # {})
    \/ /\ DataAt(event) = {}
       /\ UNCHANGED <<shown, full_content, streamFinish>>

\* Mutant: every receiver leaves the loop at the end.
LeavesLoopAlways == streamFinish'

\* Gemini's receiver leaves the loop once the stream has finished, with what is
\* left in the buffer.
LeavesLoop == family = "gemini" /\ streamFinish'

Cut ==
    /\ pc = "cut"
    /\ \E c \in FirstCut(buffer) : Erase(c) /\ Process(SubSeq(buffer, 1, c[1] - 1))
    /\ pc' = IF LeavesLoop THEN "wait" ELSE "cut"
    /\ UNCHANGED <<family, sent, wire, got, result>>

\* jsoncpp throws out of the receiver, and nothing catches.
CutThrows ==
    /\ pc = "cut"
    /\ \E c \in FirstCut(buffer) : \E i \in DataAt(SubSeq(buffer, 1, c[1] - 1)) : buffer[i] = "odd"
    /\ Return("exception")
    /\ UNCHANGED <<family, sent, wire, got, taken, buffer, full_content, streamFinish, shown>>

NothingToCut ==
    /\ pc = "cut"
    /\ FirstCut(buffer) = {}
    /\ pc' = "wait"
    /\ UNCHANGED <<family, sent, wire, got, taken, buffer, full_content, streamFinish, shown, result>>

\* The connection breaks, or nothing comes for too long.
Broken ==
    /\ pc = "wait"
    /\ Return("empty")
    /\ UNCHANGED <<family, sent, wire, got, taken, buffer, full_content, streamFinish, shown>>

\* Mutant: a stream that ended without saying so is not ended.
CompleteUnended ==
    /\ pc = "wait"
    /\ got = Len(wire)
    /\ Return(IF full_content = <<>> THEN "empty" ELSE "text")
    /\ UNCHANGED <<family, sent, wire, got, taken, buffer, full_content, streamFinish, shown>>

\* The response is complete; what is left in the buffer is not an event.
Complete ==
    /\ pc = "wait"
    /\ got = Len(wire)
    /\ shown' = IF streamFinish THEN shown ELSE Append(shown, [what |-> "end", at |-> 0])
    /\ Return(IF full_content = <<>> THEN "empty" ELSE "text")
    /\ UNCHANGED <<family, sent, wire, got, taken, buffer, full_content, streamFinish>>

Next == Refused \/ Accepted \/ Arrive \/ Cut \/ CutThrows \/ NothingToCut \/ Broken \/ Complete

Spec == Init /\ [][Next]_vars

\* The receiver runs to the end of its loop, and the client waits 30 s for a
\* connection and 60 s for a piece: something always comes of it.
FairSpec == Spec /\ WF_vars(Next)

-----------------------------------------------------------------------------
(* Properties. *)

\* However the network cut the stream, nothing of it is lost, doubled or moved
\* between the wire and the events: the buffer is what has arrived and was not
\* yet cut out.  (OpenAICompatProvider.cc:200-208, GeminiProvider.cc:211-243)
BufferIsTheRest == buffer = SubSeq(wire, taken + 1, got)

\* The texts the callback got are texts of the wire, in the order of the wire
\* and each once, and the text that is returned is what the callback got.
\* (OpenAICompatProvider.cc:380-382, ClaudeProvider.cc:488-490, GeminiProvider.cc:494-499)
AnswerIsWhatWasShown ==
    LET texts == {i \in DOMAIN shown : shown[i].what = "text"}
    IN  /\ ToSet(full_content) = {shown[i].at : i \in texts}
        /\ \A i, j \in DOMAIN full_content : i < j => full_content[i] < full_content[j]
        /\ \A i, j \in texts : i < j => shown[i].at < shown[j].at
        /\ \A p \in ToSet(full_content) : p \in DOMAIN wire /\ wire[p] \in {"text", "tail"}

\* The first and the last position of every event of a sequence.
Events(q) ==
    LET from[p \in 1..(Len(q) + 1)] ==
            UNION {{<<p, p + c[1] - 2>>} \cup from[p + c[1] + Len(c[2]) - 1] :
                        c \in FirstCut(SubSeq(q, p, Len(q)))}
    IN  from[1]

Told(first, last) ==
    LET event == SubSeq(wire, first, last)
    IN  UNION {{[what |-> w, at |-> first + i - 1] : w \in ToSet(Says(event[i], event))} :
                   i \in DataAt(event)}

\* What a stream says does not depend on how the network cut it: between two
\* pieces the callback got what the events of all that has arrived, read at once,
\* say.  Gemini's receiver is excepted after the end: it takes one more event of
\* the buffer for each piece that still comes.
\* (OpenAICompatProvider.cc:199-210, GeminiProvider.cc:211-249)
PiecesDoNotMatter ==
    pc = "wait" /\ (family = "gemini" => ~streamFinish) =>
        ToSet(shown) = UNION {Told(e[1], e[2]) : e \in Events(SubSeq(wire, 1, got))}

\* What a server of the family sends event by event: a line and a blank line,
\* with an event: line before it for Claude, with either line end for Gemini.
Frames ==
    {<<d, "lf", "lf">> : d \in Data \cup {"note"}}
        \cup (IF family = "claude" THEN {<<"note", "lf", d, "lf", "lf">> : d \in Data} ELSE {})
        \cup (IF family = "gemini" THEN {<<d, "cr", "lf", "cr", "lf">> : d \in Data} ELSE {})

Final == {"tail", "stop", "done", "error"}

\* A stream that is framed like that, with its end at the end, arrives in full:
\* the answer is made of all its texts.  (OpenAICompatProvider.cc:199-210,
\* ClaudeProvider.cc:455-468, GeminiProvider.cc:211-249)
EveryTextArrives ==
    /\ result = "text"
    /\ \A i \in DOMAIN sent : sent[i] \in Frames
    /\ \A i, j \in DOMAIN sent : ToSet(sent[i]) \cap Final # {} => j <= i
    => ToSet(full_content) = {i \in DOMAIN wire : wire[i] \in {"text", "tail"}}

\* If the server says nothing more after the end, then neither does the provider,
\* and a stream that brought an answer was ended.  (ChatRequests builds on it:
\* Shows, StreamAnswers.)  (OpenAICompatProvider.cc:229-233, 360-364)
AnswersEnd ==
    result = "text" /\ (\A i, j \in DOMAIN wire :
                           wire[i] \in Final /\ i < j => wire[j] \notin {"text", "tail", "blank"})
    => /\ Last(shown).what \in {"end", "apology"}
       /\ \A i, j \in DOMAIN shown :
             shown[i].what \in {"end", "apology"} /\ i < j => shown[j].what \notin {"text", "blank"}

\* Every stream returns: no event makes the receiver's loop go round for ever.
StreamReturns == <>(pc = "done")
=============================================================================
