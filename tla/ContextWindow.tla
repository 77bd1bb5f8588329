--------------------------- MODULE ContextWindow ---------------------------
(***************************************************************************)
(* ContextManager::fitToBudget, from the budget ChatSDK derives for a      *)
(* model to the messages the provider is given: the newest messages that   *)
(* fit, behind a summary of the rest.                                      *)
(*                                                                         *)
(* A text is a sequence of runs of characters, each as many bytes wide as  *)
(* its w in UTF-8: all that the estimate, the cut of a question and the    *)
(* cut of a summary, which count bytes, can tell apart.                    *)
(***************************************************************************)
EXTENDS Integers, Sequences, SequencesExt

CONSTANTS
    Texts,          \* what a message may say
    MaxMessages,    \* the length of the longest conversation
    Windows         \* pairs of a model's context_window and max_tokens

Run == [w : 1..4, n : Nat]

\* The messages a conversation is made of, and the summary in front of it.
Role == {"user", "assistant", "system"}
Message == [role : Role, text : Seq(Run)]

ASSUME TextsAssumption == \A t \in Texts : t \in Seq(Run)
ASSUME WindowsAssumption == \A w \in Windows : w \in Int \X Int

VARIABLES
    messages,       \* what is to be fitted
    budget,
    pc,
    i,              \* the message the loop looks at
    remaining,
    result

vars == <<messages, budget, pc, i, remaining, result>>

Bytes(t) == SumFunction([j \in DOMAIN t |-> t[j].w * t[j].n])

\* 0.7 for a character of more than one byte, 0.25 for any other, rounded up.
TokensOf(wide, narrow) == (14 * wide + 5 * narrow + 19) \div 20

cjk(t)   == SumFunction([j \in DOMAIN t |-> IF t[j].w = 1 THEN 0 ELSE t[j].n])
ascii(t) == SumFunction([j \in DOMAIN t |-> IF t[j].w = 1 THEN t[j].n ELSE 0])

estimateTokens(t) == TokensOf(cjk(t), ascii(t))

\* MESSAGE_OVERHEAD_TOKENS
Overhead == 4

Cost(m) == estimateTokens(m.text) + Overhead

countMessagesTokens(ms) == SumFunction([j \in DOMAIN ms |-> Cost(ms[j])])

\* How many bytes of the text's j-th run are among its bytes first + 1 .. last.
Within(t, j, first, last) ==
    LET before == Bytes(SubSeq(t, 1, j - 1))
    IN  Max({0, Min({before + t[j].w * t[j].n, last}) - Max({before, first})})

\* The first k bytes: the lead byte of a character cut in two still counts.
FirstBytes(t, k) ==
    [j \in 1..Len(t) |->
        [w |-> t[j].w, n |-> (Within(t, j, 0, k) + t[j].w - 1) \div t[j].w]]

\* What such a character lacks, which is read from the text that comes next.
Lacking(t, k) == Bytes(FirstBytes(t, k)) - Min({k, Bytes(t)})

\* The last k bytes: what is left of a character without its lead byte does not count.
LastBytes(t, k) ==
    [j \in 1..Len(t) |->
        [w |-> t[j].w, n |-> Within(t, j, Bytes(t) - k, Bytes(t)) \div t[j].w]]

\* What summarizeConversation may take, and how much it keeps of either end.
SummaryBudget == 80
HalfBytes == ((SummaryBudget * 3) \div 2) \div 2

Joined(ms) ==
    FlattenSeq([j \in 1..Len(ms) |->
        <<[w |-> 1, n |-> IF ms[j].role = "user" THEN 5 ELSE 10]>>
            \o ms[j].text \o <<[w |-> 1, n |-> 1]>>])

summarizeUncut(ms) == Joined(ms)

\* The head and the tail of what was said; the lead byte that may end the head
\* swallows bytes of the ellipsis.
summarizeConversation(ms) ==
    LET joined == Joined(ms)
        ellipsis == <<[w |-> 1, n |-> 10 - Lacking(joined, HalfBytes)], [w |-> 3, n |-> 2]>>
    IN  IF estimateTokens(joined) <= SummaryBudget
        THEN joined
        ELSE FirstBytes(joined, HalfBytes) \o ellipsis \o LastBytes(joined, HalfBytes)

Summary(ms) ==
    [role |-> "system",
     text |-> <<[w |-> 1, n |-> 3], [w |-> 3, n |-> 6]>> \o summarizeConversation(ms)]

\* A question cut to what is left, three bytes to the token.
Truncated(m, left) == [m EXCEPT !.text = FirstBytes(@, (left - Overhead) * 3)]

MayTruncate(m, left) ==
    m.role = "user" /\ left > Overhead /\ Bytes(Truncated(m, left).text) > 0

---------------------------------------------------------------------------
(* The budget of a request *)

\* What the window leaves for the prompt; a model without a window sets none.
ContextBudget(context_window, max_tokens) ==
    IF context_window > 0 THEN Max({1, context_window - max_tokens}) ELSE 0

\* What a session's history holds: questions and answers.
Histories ==
    UNION {[1..n -> [role : {"user", "assistant"}, text : Texts]] : n \in 0..MaxMessages}

Init ==
    /\ messages \in Histories
    /\ \E window \in Windows : budget = ContextBudget(window[1], window[2])
    /\ pc = "start"
    /\ i = 0 /\ remaining = 0
    /\ result = <<>>

FitsAsItIs == budget <= 0 \/ messages = <<>> \/ countMessagesTokens(messages) <= budget

ReturnAll ==
    /\ pc = "start" /\ FitsAsItIs
    /\ result' = messages
    /\ pc' = "done"
    /\ UNCHANGED <<messages, budget, i, remaining>>

Begin ==
    /\ pc = "start" /\ ~FitsAsItIs
    /\ i' = Len(messages)
    /\ remaining' = budget
    /\ pc' = "loop"
    /\ UNCHANGED <<messages, budget, result>>

FitsStrictly(m) == remaining - Cost(m) > 0

Fits(m) == remaining - Cost(m) >= 0

KeepBackwards ==
    /\ pc = "loop" /\ i > 0 /\ Fits(messages[i])
    /\ result' = Append(result, messages[i])
    /\ remaining' = remaining - Cost(messages[i])
    /\ i' = i - 1
    /\ UNCHANGED <<messages, budget, pc>>

\* The loop keeps one more message.
Keep ==
    /\ pc = "loop" /\ i > 0 /\ Fits(messages[i])
    /\ result' = <<messages[i]>> \o result
    /\ remaining' = remaining - Cost(messages[i])
    /\ i' = i - 1
    /\ UNCHANGED <<messages, budget, pc>>

\* It ends at the first that does not fit; the newest may be cut.
Stop ==
    /\ pc = "loop" /\ (i = 0 \/ ~Fits(messages[i]))
    /\ result' = IF i > 0 /\ result = <<>> /\ MayTruncate(messages[i], remaining)
                 THEN <<Truncated(messages[i], remaining)>>
                 ELSE result
    /\ pc' = "summary"
    /\ UNCHANGED <<messages, budget, i, remaining>>

\* Whatever was not kept is summed up in front.
Behind(overflow, kept) == IF overflow = <<>> THEN kept ELSE <<Summary(overflow)>> \o kept

Summarise ==
    /\ pc = "summary"
    /\ result' = Behind(SubSeq(messages, 1, Len(messages) - Len(result)), result)
    /\ pc' = "done"
    /\ UNCHANGED <<messages, budget, i, remaining>>

Next == ReturnAll \/ Begin \/ Keep \/ Stop \/ Summarise

Spec == Init /\ [][Next]_vars /\ WF_vars(Next)

TypeOK ==
    /\ messages \in Seq(Message) /\ budget \in Int
    /\ pc \in {"start", "loop", "summary", "done"}
    /\ i \in 0..Len(messages)
    /\ remaining \in Int
    /\ result \in Seq(Message)

---------------------------------------------------------------------------
(* What it promises *)

Newest(k) == SubSeq(messages, Len(messages) - k + 1, Len(messages))

\* fitToBudget said at once: the longest run of newest messages that is within
\* the budget, or, when not even the newest is, what may be cut off it.
Fit ==
    LET n == Len(messages)
        kept == Max({k \in 0..n : countMessagesTokens(Newest(k)) <= budget})
        tail == IF kept > 0 THEN Newest(kept)
                ELSE IF MayTruncate(messages[n], budget)
                THEN <<Truncated(messages[n], budget)>> ELSE <<>>
    IN  IF FitsAsItIs THEN messages ELSE Behind(SubSeq(messages, 1, n - Len(tail)), tail)

\* The loop of fitToBudget computes Fit: it keeps the most that the budget
\* allows, in its order and without a gap, and what it summarises is exactly the rest.
LoopIsFit == pc = "done" => result = Fit

\* A question with something in it is not lost when it is the newest message:
\* it is the last message of the result, or the beginning of it is, as the comment at
\* ContextManager.cc:89 has it, unless the budget does not even pay for a message.
QuestionSurvives ==
    LET n == Len(messages)
        kept == result[Len(result)]
    IN  pc = "done" /\ n > 0 /\ (budget <= 0 \/ budget > Overhead)
        /\ messages[n].role = "user" /\ Bytes(messages[n].text) > 0
        => /\ result # <<>>
           /\ kept.role = "user" /\ Bytes(kept.text) > 0
           /\ \E k \in 1..Bytes(messages[n].text) : kept.text = FirstBytes(messages[n].text, k)

\* What the provider is given is over the budget by the summary, which is added when the
\* budget is spent, and by a twentieth, which is what cutting a question by bytes gets
\* wrong when its characters are two bytes wide and the last of them is cut.
SummaryMost == SummaryBudget + 5 + Overhead

OverrunIsBounded ==
    pc = "done" /\ budget > 0
        => countMessagesTokens(result) <= budget + (budget + 22) \div 20 + SummaryMost
=============================================================================
