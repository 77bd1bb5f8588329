---------------------------- MODULE PromptProofs ----------------------------
(***************************************************************************)
(* What fitToBudget returns, for every conversation and every budget, and  *)
(* what the models are told of it, for every reply and in every round.     *)
(*                                                                         *)
(* SplitCorrect says of the fitting without counting: the messages as they *)
(* were, or a summary of the oldest in front of all the others, the only   *)
(* one of which that may have been changed is the newest.  The other three *)
(* count, with SumTheorems: FitCorrect (the loop keeps what the abstract   *)
(* window keeps) is what the invariant Measured is for, and                *)
(* QuestionCorrect and OverrunCorrect follow from the value of that window *)
(* and from what a cut by bytes leaves of a text, proved run by run along  *)
(* the text.  RequestsFit carries them to the requests of Prompt.          *)
(*                                                                         *)
(* Of the bodies, BodyLaid is at the bottom: whatever the family, the      *)
(* parts of the body are the pieces of the history's entries in a row, and *)
(* a turn with calls is one whole piece.  It is proved for each builder by *)
(* following it along the history, with the results that wait as the part  *)
(* of the row that is no turn yet.  What is read off a body, the results   *)
(* behind the calls, the texts, and the calls and their arguments, is then *)
(* read off the row.  PInv says of the rounds that the history they make   *)
(* is Sound: every entry with calls is followed by their results.          *)
(***************************************************************************)
EXTENDS Prompt, SumTheorems, SequenceTheorems, TLAPS

Oldest(k) == SubSeq(messages, 1, k)
After(k)  == SubSeq(messages, k + 1, Len(messages))

Whole == Len(messages)

\* What is returned is the conversation, or a summary of its first k messages with
\* the others behind it, or with nothing behind it but the beginning of the newest.
NothingIsSkipped ==
    pc = "done"
        => \/ result = messages
           \/ \E k \in 0..Whole : result = Behind(Oldest(k), After(k))
           \/ /\ Whole > 0 /\ messages[Whole].role = "user"
              /\ result = Behind(Oldest(Whole - 1), <<Truncated(messages[Whole], budget)>>)

\* The same of the loop: what it has kept is what it has passed, and while that is
\* nothing the whole budget is left.
IInv ==
    /\ messages \in Seq(Message)
    /\ pc = "start" => result = <<>>
    /\ pc = "loop" => i \in 0..Whole /\ result = After(i) /\ (i = Whole => remaining = budget)
    /\ pc = "summary"
        => \/ \E k \in 0..Whole : result = After(k)
           \/ /\ Whole > 0 /\ messages[Whole].role = "user"
              /\ result = <<Truncated(messages[Whole], budget)>>
    /\ NothingIsSkipped

\* A history is a sequence of messages.
LEMMA HistoriesAreMessages == Histories \subseteq Seq(Message)
<1> SUFFICES ASSUME NEW n \in 0..MaxMessages,
                    NEW h \in [1..n -> [role : {"user", "assistant"}, text : Texts]]
             PROVE  h \in Seq(Message)
  BY DEF Histories
<1>1. n \in Nat
  OBVIOUS
<1>2. \A j \in 1..n : h[j] \in Message
  BY TextsAssumption DEF Message, Role
<1>3. h \in [1..n -> Message]
  BY <1>2
<1> QED
  BY <1>1, <1>3, SeqDef

\* What lies behind the first k elements has all the others.
LEMMA RestTyped ==
    ASSUME NEW S, NEW s \in Seq(S), NEW k \in 0..Len(s)
    PROVE  SubSeq(s, k + 1, Len(s)) \in Seq(S) /\ Len(SubSeq(s, k + 1, Len(s))) = Len(s) - k
<1>1. Len(s) \in Nat /\ \A j \in k + 1 .. Len(s) : s[j] \in S
  OBVIOUS
<1> QED
  BY <1>1, SubSeqProperties

\* Putting the k-th element in front of those behind it.
LEMMA KeepOneMore ==
    ASSUME NEW S, NEW s \in Seq(S), NEW k \in 1..Len(s)
    PROVE  <<s[k]>> \o SubSeq(s, k + 1, Len(s)) = SubSeq(s, k, Len(s))
<1>1. SubSeq(s, k, k) \o SubSeq(s, k + 1, Len(s)) = SubSeq(s, k, Len(s))
  <2>1. Len(s) \in Nat /\ k \in 1 .. Len(s) + 1 /\ k \in k - 1 .. Len(s) /\ Len(s) \in k .. Len(s)
    OBVIOUS
  <2> QED
    BY <2>1, ConcatAdjacentSubSeq
<1>2. SubSeq(s, k, k) = <<s[k]>>
  <2>1. \A j \in k .. k : s[j] \in S
    OBVIOUS
  <2>2. SubSeq(s, k, k) \in Seq(S) /\ Len(SubSeq(s, k, k)) = 1 /\ SubSeq(s, k, k)[1] = s[k]
    BY <2>1, SubSeqProperties
  <2>3. <<s[k]>> \in Seq(S) /\ Len(<<s[k]>>) = 1 /\ <<s[k]>>[1] = s[k]
    OBVIOUS
  <2>4. \A j \in 1..Len(SubSeq(s, k, k)) : SubSeq(s, k, k)[j] = <<s[k]>>[j]
    BY <2>2, <2>3
  <2> QED
    BY <2>2, <2>3, <2>4, SeqEqual
<1> QED
  BY <1>1, <1>2

\* The beginning of a call.
LEMMA InitSplits == Init => IInv
<1> SUFFICES ASSUME Init PROVE IInv
  OBVIOUS
<1> QED
  BY HistoriesAreMessages DEF Init, IInv, NothingIsSkipped

\* One step of the call.
LEMMA StepSplits == IInv /\ [Next]_vars => IInv'
<1> SUFFICES ASSUME IInv, [Next]_vars PROVE IInv'
  OBVIOUS
<1>a. messages \in Seq(Message) /\ messages' = messages /\ budget' = budget
  BY DEF IInv, Next, vars, ReturnAll, Begin, Keep, Stop, Summarise
<1>b. \A k \in Int : Oldest(k)' = Oldest(k) /\ After(k)' = After(k)
  BY <1>a DEF Oldest, After
<1>0. /\ messages \in Seq(Message) /\ messages' = messages /\ budget' = budget
      /\ Whole \in Nat /\ Whole' = Whole
      /\ \A k \in Int : Oldest(k)' = Oldest(k) /\ After(k)' = After(k)
  BY <1>a, <1>b DEF Whole
<1>1. CASE ReturnAll
  BY <1>0, <1>1 DEF ReturnAll, IInv, NothingIsSkipped
<1>2. CASE Begin
  <2>1. After(Whole) = <<>>
    BY <1>0, SubSeqEmpty DEF After, Whole
  <2> QED
    BY <1>0, <1>2, <2>1 DEF Begin, IInv, NothingIsSkipped, Whole
<1>3. CASE Keep
  <2>1. i \in 1..Whole /\ result = After(i)
    BY <1>0, <1>3 DEF Keep, IInv
  <2>2. <<messages[i]>> \o After(i) = SubSeq(messages, i, Whole)
    BY <1>0, <2>1, KeepOneMore DEF After, Whole
  <2>3. After(i - 1) = SubSeq(messages, i, Whole)
    BY <1>0, <2>1 DEF After, Whole
  <2>a. result' = <<messages[i]>> \o result /\ i' = i - 1 /\ pc' = "loop"
    BY <1>3, <2>1 DEF Keep, IInv
  <2>b. i' \in 0..Whole /\ i' # Whole
    BY <1>0, <2>1, <2>a
  <2>c. result' = After(i')
    BY <2>1, <2>2, <2>3, <2>a
  <2>4. result' = After(i') /\ i' \in 0..Whole /\ i' # Whole /\ pc' = "loop"
    BY <2>a, <2>b, <2>c
  <2> QED
    BY <1>0, <2>4 DEF IInv, NothingIsSkipped
<1>4. CASE Stop
  <2>1. i \in 0..Whole /\ result = After(i) /\ (i = Whole => remaining = budget) /\ pc' = "summary"
    BY <1>4 DEF Stop, IInv
  <2>2. CASE i > 0 /\ result = <<>> /\ MayTruncate(messages[i], remaining)
    <3>1. i = Whole
      <4>1. Len(After(i)) = Whole - i
        BY <1>0, <2>1, RestTyped DEF After, Whole
      <4>2. Len(After(i)) = 0
        BY <2>1, <2>2
      <4> QED
        BY <1>0, <2>1, <4>1, <4>2
    <3>2. result' = <<Truncated(messages[Whole], budget)>>
      BY <1>4, <2>1, <2>2, <3>1 DEF Stop
    <3>3. Whole > 0 /\ messages[Whole].role = "user"
      BY <2>2, <3>1 DEF MayTruncate
    <3> QED
      BY <1>0, <2>1, <3>2, <3>3 DEF IInv, NothingIsSkipped, Truncated
  <2>3. CASE ~(i > 0 /\ result = <<>> /\ MayTruncate(messages[i], remaining))
    <3>1. result' = After(i)
      BY <1>4, <2>1, <2>3 DEF Stop
    <3> QED
      BY <1>0, <2>1, <3>1 DEF IInv, NothingIsSkipped
  <2> QED
    BY <2>2, <2>3
<1>5. CASE Summarise
  <2>0. pc' = "done" /\ result' = Behind(Oldest(Whole - Len(result)), result)
    BY <1>5 DEF Summarise, Oldest, Whole
  <2>1. CASE \E k \in 0..Whole : result = After(k)
    <3>1. PICK k \in 0..Whole : result = After(k)
      BY <2>1
    <3>2. Whole - Len(result) = k
      BY <1>0, <3>1, RestTyped DEF After, Whole
    <3>3. result' = Behind(Oldest(k), After(k))
      BY <2>0, <3>1, <3>2
    <3>4. Oldest(k)' = Oldest(k) /\ After(k)' = After(k) /\ k \in 0..Whole'
      BY <1>0
    <3>5. \E j \in 0..Whole' : result' = Behind(Oldest(j), After(j))'
      BY <3>3, <3>4
    <3>6. NothingIsSkipped'
      BY <3>5 DEF NothingIsSkipped
    <3> QED
      BY <1>0, <2>0, <3>6 DEF IInv
  <2>2. CASE /\ Whole > 0 /\ messages[Whole].role = "user"
             /\ result = <<Truncated(messages[Whole], budget)>>
    <3>1. Whole - Len(result) = Whole - 1
      BY <1>0, <2>2
    <3>2. result' = Behind(Oldest(Whole - 1), <<Truncated(messages[Whole], budget)>>)
      BY <2>0, <2>2, <3>1
    <3>a. Oldest(Whole - 1)' = Oldest(Whole - 1)
      BY <1>0
    <3>b. result' = Behind(Oldest(Whole - 1), <<Truncated(messages[Whole], budget)>>)'
      BY <1>0, <3>2, <3>a
    <3>c. Whole' > 0 /\ messages'[Whole'].role = "user"
      BY <1>0, <2>2
    <3>3. NothingIsSkipped'
      BY <3>b, <3>c DEF NothingIsSkipped
    <3> QED
      BY <1>0, <2>0, <3>3 DEF IInv
  <2> QED
    BY <1>5, <2>1, <2>2 DEF Summarise, IInv
<1>6. CASE UNCHANGED vars
  BY <1>0, <1>6 DEF vars, IInv, NothingIsSkipped
<1> QED
  BY <1>1, <1>2, <1>3, <1>4, <1>5, <1>6 DEF Next

\* Every call of fitToBudget returns the conversation or splits it in two.
THEOREM SplitCorrect == Spec => []NothingIsSkipped
<1>1. IInv => NothingIsSkipped
  BY DEF IInv
<1> QED
  BY <1>1, InitSplits, StepSplits, PTL DEF Spec

-----------------------------------------------------------------------------
(* What a text and a conversation cost. *)

Widths(t)  == [j \in DOMAIN t |-> t[j].w * t[j].n]
Wides(t)   == [j \in DOMAIN t |-> IF t[j].w = 1 THEN 0 ELSE t[j].n]
Narrows(t) == [j \in DOMAIN t |-> IF t[j].w = 1 THEN t[j].n ELSE 0]
Costs(ms)  == [j \in DOMAIN ms |-> Cost(ms[j])]

\* A function on the places of a sequence is a sequence.
LEMMA Mapped ==
  ASSUME NEW S, NEW T, NEW s \in Seq(S), NEW q \in [DOMAIN s -> T]
  PROVE  q \in Seq(T) /\ Len(q) = Len(s)
<1>1. Len(s) \in Nat /\ DOMAIN s = 1..Len(s)
  OBVIOUS
<1>2. q \in [1..Len(s) -> T]
  BY <1>1
<1>3. q \in Seq(T)
  BY <1>1, <1>2, SeqDef
<1> QED
  BY <1>1, <1>2, <1>3

\* The widths and the counts of a text's runs are rows of numbers, and their sums numbers.
LEMMA RunsCount ==
  ASSUME NEW t \in Seq(Run)
  PROVE  /\ Widths(t) \in Seq(Nat) /\ Wides(t) \in Seq(Nat) /\ Narrows(t) \in Seq(Nat)
         /\ Len(Widths(t)) = Len(t) /\ Len(Wides(t)) = Len(t) /\ Len(Narrows(t)) = Len(t)
         /\ Bytes(t) \in Nat /\ cjk(t) \in Nat /\ ascii(t) \in Nat
<1>1. \A j \in DOMAIN t : t[j].w \in 1..4 /\ t[j].n \in Nat
  <2>1. \A j \in DOMAIN t : t[j] \in Run
    OBVIOUS
  <2> QED
    BY <2>1 DEF Run
<1>2. \A j \in DOMAIN t : t[j].w * t[j].n \in Nat
  <2> TAKE j \in DOMAIN t
  <2>1. \A w \in 1..4, n \in Nat : w * n \in Nat
    OBVIOUS
  <2> QED
    BY <1>1, <2>1
<1>3. /\ Widths(t) \in [DOMAIN t -> Nat] /\ Wides(t) \in [DOMAIN t -> Nat]
      /\ Narrows(t) \in [DOMAIN t -> Nat]
  BY <1>1, <1>2 DEF Widths, Wides, Narrows
<1>4. /\ Widths(t) \in Seq(Nat) /\ Wides(t) \in Seq(Nat) /\ Narrows(t) \in Seq(Nat)
      /\ Len(Widths(t)) = Len(t) /\ Len(Wides(t)) = Len(t) /\ Len(Narrows(t)) = Len(t)
  BY <1>3, Mapped
<1>5. Bytes(t) = SumFunction(Widths(t)) /\ cjk(t) = SumFunction(Wides(t)) /\ ascii(t) = SumFunction(Narrows(t))
  BY DEF Bytes, cjk, ascii, Widths, Wides, Narrows
<1> QED
  BY <1>4, <1>5, SumOfRow

\* A cost is a number.
LEMMA TokensType ==
  ASSUME NEW x \in Nat, NEW y \in Nat
  PROVE  TokensOf(x, y) \in Nat
BY DEF TokensOf

\* A message costs its overhead at least.
LEMMA CostType ==
  ASSUME NEW m \in Message
  PROVE  Cost(m) \in Nat /\ Cost(m) >= Overhead
<1>1. m.text \in Seq(Run)
  BY DEF Message
<1>2. estimateTokens(m.text) \in Nat
  BY <1>1, RunsCount, TokensType DEF estimateTokens
<1> QED
  BY <1>2 DEF Cost, Overhead

\* The cost of a conversation is the sum of a row of costs.
LEMMA CostsType ==
  ASSUME NEW ms \in Seq(Message)
  PROVE  /\ Costs(ms) \in Seq(Nat) /\ Len(Costs(ms)) = Len(ms)
         /\ countMessagesTokens(ms) = SumFunctionOnSet(Costs(ms), 1..Len(ms))
         /\ countMessagesTokens(ms) \in Nat
<1>1. \A j \in DOMAIN ms : Cost(ms[j]) \in Nat
  BY CostType
<1>2. Costs(ms) \in [DOMAIN ms -> Nat]
  BY <1>1 DEF Costs
<1>3. Costs(ms) \in Seq(Nat) /\ Len(Costs(ms)) = Len(ms)
  BY <1>2, Mapped
<1>4. countMessagesTokens(ms) = SumFunction(Costs(ms))
  BY DEF countMessagesTokens, Costs
<1> QED
  BY <1>3, <1>4, SumOfRow

-----------------------------------------------------------------------------
(* The loop keeps as many of the newest messages as the budget pays for. *)

\* What the k newest messages cost, said of the whole conversation.
NewestCost(k) == SumFunctionOnSet(Costs(messages), (Whole - k + 1)..Whole)

\* The k newest messages, one by one.
LEMMA NewestAre ==
  ASSUME messages \in Seq(Message), NEW k \in 0..Whole
  PROVE  /\ Newest(k) \in Seq(Message) /\ Len(Newest(k)) = k
         /\ \A j \in 1..k : Newest(k)[j] = messages[(Whole - k) + j]
<1>1. Whole \in Nat /\ \A j \in 1..Whole : messages[j] \in Message
  BY DEF Whole
<1>2. \A j \in (Whole - k + 1)..Whole : messages[j] \in Message
  BY <1>1
<1>3. /\ Newest(k) \in Seq(Message)
      /\ Len(Newest(k)) = IF Whole - k + 1 <= Whole THEN Whole - (Whole - k + 1) + 1 ELSE 0
      /\ \A j \in 1..(Whole - (Whole - k + 1) + 1) : Newest(k)[j] = messages[(Whole - k + 1) + j - 1]
  BY <1>1, <1>2, SubSeqProperties DEF Newest, Whole
<1> QED
  BY <1>1, <1>3

\* What they cost is the sum over their places in the whole conversation.
LEMMA NewestCosts ==
  ASSUME messages \in Seq(Message), NEW k \in 0..Whole
  PROVE  countMessagesTokens(Newest(k)) = NewestCost(k) /\ NewestCost(k) \in Nat
<1>1. /\ Newest(k) \in Seq(Message) /\ Len(Newest(k)) = k
      /\ \A j \in 1..k : Newest(k)[j] = messages[(Whole - k) + j]
  BY NewestAre
<1>2. /\ countMessagesTokens(Newest(k)) = SumFunctionOnSet(Costs(Newest(k)), 1..k)
      /\ countMessagesTokens(Newest(k)) \in Nat
  BY <1>1, CostsType
<1>3. Whole \in Nat /\ DOMAIN messages = 1..Whole /\ DOMAIN Newest(k) = 1..k
  BY <1>1 DEF Whole
<1>4. \A j \in 1..k : Costs(Newest(k))[j] \in Nat /\ Costs(messages)[(Whole - k) + j] = Costs(Newest(k))[j]
  <2> TAKE j \in 1..k
  <2>1. (Whole - k) + j \in 1..Whole
    BY <1>3
  <2>2. Newest(k)[j] \in Message
    BY <1>1
  <2> QED
    BY <1>1, <1>3, <2>1, <2>2, CostType DEF Costs
<1>5. Shifts(Costs(messages), Whole - k, Costs(Newest(k)), k)
  BY <1>4 DEF Shifts
<1>6. SumFunctionOnSet(Costs(messages), ((Whole - k) + 1)..((Whole - k) + k)) = SumFunctionOnSet(Costs(Newest(k)), 1..k)
  <2>1. Whole - k \in Int /\ k \in Nat
    BY <1>3
  <2> QED
    BY <1>5, <2>1, SumShift
<1>7. (Whole - k) + k = Whole
  BY <1>3
<1> QED
  BY <1>2, <1>6, <1>7 DEF NewestCost

\* One more message costs its own cost more.
LEMMA OneMoreCosts ==
  ASSUME messages \in Seq(Message), NEW k \in 0..Whole, k < Whole
  PROVE  /\ NewestCost(k + 1) = Cost(messages[Whole - k]) + NewestCost(k)
         /\ Cost(messages[Whole - k]) \in Nat
<1>1. Whole \in Nat /\ DOMAIN messages = 1..Whole /\ Whole - k \in 1..Whole
  BY DEF Whole
<1>2. \A j \in 1..Whole : Costs(messages)[j] \in Nat /\ Costs(messages)[j] = Cost(messages[j])
  BY <1>1, CostType DEF Costs
<1>3. SumFunctionOnSet(Costs(messages), (Whole - k)..Whole)
        = Costs(messages)[Whole - k] + SumFunctionOnSet(Costs(messages), ((Whole - k) + 1)..Whole)
  <2>1. /\ Whole - k \in Int /\ Whole \in Int /\ Whole - k <= Whole
        /\ \A j \in (Whole - k)..Whole : Costs(messages)[j] \in Nat
    BY <1>1, <1>2
  <2> QED
    BY <2>1, SumFromTheBottom
<1>4. Whole - (k + 1) + 1 = Whole - k
  BY <1>1
<1> QED
  BY <1>1, <1>2, <1>3, <1>4 DEF NewestCost

\* More messages cost no less.
LEMMA MoreCosts ==
  ASSUME messages \in Seq(Message), NEW k \in 0..Whole, NEW l \in 0..Whole, k <= l
  PROVE  NewestCost(k) <= NewestCost(l)
<1> DEFINE X == {d \in Nat : k + d <= Whole => NewestCost(k) <= NewestCost(k + d)}
<1>0. Whole \in Nat
  BY DEF Whole
<1>1. 0 \in X
  BY NewestCosts
<1>2. ASSUME NEW d \in Nat, d \in X, k + (d + 1) <= Whole
      PROVE  NewestCost(k) <= NewestCost(k + (d + 1))
  <2>1. k + d \in 0..Whole /\ k + d < Whole /\ k + (d + 1) = (k + d) + 1
    BY <1>0, <1>2
  <2>2. /\ NewestCost((k + d) + 1) = Cost(messages[Whole - (k + d)]) + NewestCost(k + d)
        /\ Cost(messages[Whole - (k + d)]) \in Nat
    BY <2>1, OneMoreCosts
  <2>3. NewestCost(k) \in Nat /\ NewestCost(k + d) \in Nat /\ NewestCost(k) <= NewestCost(k + d)
    BY <1>2, <2>1, NewestCosts
  <2> QED
    BY <2>1, <2>2, <2>3
<1>3. \A d \in Nat : d \in X => d + 1 \in X
  BY <1>2
<1> HIDE DEF X
<1>4. \A d \in Nat : d \in X
  BY <1>1, <1>3, Induction
<1>5. l - k \in Nat /\ k + (l - k) = l
  BY <1>0
<1> QED
  BY <1>4, <1>5 DEF X

\* The k newest messages are within the budget, one more is not.
Most(k) ==
    /\ k \in 0..Whole /\ NewestCost(k) <= budget
    /\ k < Whole => NewestCost(k + 1) > budget

\* What is kept when that is k messages.
TailOf(k) ==
    IF k > 0 THEN Newest(k)
    ELSE IF MayTruncate(messages[Whole], budget)
    THEN <<Truncated(messages[Whole], budget)>> ELSE <<>>

\* The most that the budget pays for is the maximum that Fit takes.
LEMMA MostIsMax ==
  ASSUME messages \in Seq(Message), budget \in Int, NEW k, Most(k)
  PROVE  Max({l \in 0..Whole : countMessagesTokens(Newest(l)) <= budget}) = k
<1> DEFINE S == {l \in 0..Whole : countMessagesTokens(Newest(l)) <= budget}
<1>0. Whole \in Nat /\ k \in 0..Whole /\ NewestCost(k) <= budget
  BY DEF Most, Whole
<1>1. k \in S
  BY <1>0, NewestCosts
<1>2. ASSUME NEW l \in S, l > k PROVE FALSE
  <2>1. l \in 0..Whole /\ NewestCost(l) <= budget /\ NewestCost(l) \in Nat
    BY NewestCosts
  <2>2. k < Whole /\ k + 1 \in 0..Whole /\ k + 1 <= l
    BY <1>0, <1>2, <2>1
  <2>3. NewestCost(k + 1) > budget
    BY <2>2 DEF Most
  <2>4. NewestCost(k + 1) <= NewestCost(l) /\ NewestCost(k + 1) \in Nat
    BY <2>1, <2>2, MoreCosts, NewestCosts
  <2> QED
    BY <2>1, <2>3, <2>4
<1>3. \A l \in S : k >= l /\ l \in Int
  BY <1>0, <1>2
<1> HIDE DEF S
<1>4. \A x \in S : (\A y \in S : x >= y) => x = k
  BY <1>0, <1>1, <1>3
<1>5. Max(S) = k
  BY <1>1, <1>3, <1>4 DEF Max
<1> QED
  BY <1>5 DEF S

\* The abstract window, when the most it can keep is known.
LEMMA FitOf ==
  ASSUME messages \in Seq(Message), budget \in Int, ~FitsAsItIs, NEW k, Most(k)
  PROVE  Fit = Behind(SubSeq(messages, 1, Whole - Len(TailOf(k))), TailOf(k))
<1>1. Max({l \in 0..Whole : countMessagesTokens(Newest(l)) <= budget}) = k
  BY MostIsMax
<1> QED
  BY <1>1 DEF Fit, TailOf, Whole

\* Where the loop stands: it has kept the newest messages, paid for them, and is still
\* within the budget.
Measured ==
    /\ messages \in Seq(Message) /\ budget \in Int
    /\ pc \in {"start", "loop", "summary", "done"}
    /\ pc = "start" => result = <<>>
    /\ pc = "loop" =>
          /\ ~FitsAsItIs /\ i \in 0..Whole /\ result = Newest(Whole - i)
          /\ remaining = budget - NewestCost(Whole - i) /\ remaining >= 0
    /\ pc = "summary" => ~FitsAsItIs /\ \E k \in 0..Whole : Most(k) /\ result = TailOf(k)
    /\ pc = "done" =>
          /\ result = Fit
          /\ FitsAsItIs \/ \E k \in 0..Whole : Most(k)

\* The beginning of a call.
LEMMA MeasuredInit == Init => Measured
<1> SUFFICES ASSUME Init PROVE Measured
  OBVIOUS
<1>1. messages \in Seq(Message)
  BY HistoriesAreMessages DEF Init
<1>2. PICK w \in Windows : budget = ContextBudget(w[1], w[2])
  BY DEF Init
<1>3. w[1] \in Int /\ w[2] \in Int
  BY WindowsAssumption
<1>4. ASSUME NEW x \in Int PROVE Max({1, x}) \in Int
  <2>1. \E m \in {1, x} : \A y \in {1, x} : m >= y
    BY <1>4
  <2> QED
    BY <1>4, <2>1 DEF Max
<1>5. budget \in Int
  BY <1>2, <1>3, <1>4 DEF ContextBudget
<1> QED
  BY <1>1, <1>5 DEF Init, Measured

\* Nothing is kept at the start of the loop.
LEMMA NothingKept ==
  ASSUME messages \in Seq(Message)
  PROVE  Newest(0) = <<>> /\ NewestCost(0) = 0 /\ Whole \in Nat
<1>1. Whole \in Nat /\ 0 \in 0..Whole
  BY DEF Whole
<1>2. Newest(0) \in Seq(Message) /\ Len(Newest(0)) = 0
  BY <1>1, NewestAre
<1>3. (Whole - 0 + 1)..Whole = {}
  BY <1>1
<1>4. NewestCost(0) = 0
  BY <1>3, SumOfNone DEF NewestCost
<1> QED
  BY <1>1, <1>2, <1>4, EmptySeq

\* One step of the call.
LEMMA MeasuredStep == Measured /\ [Next]_vars => Measured'
<1> SUFFICES ASSUME Measured, [Next]_vars PROVE Measured'
  OBVIOUS
<1>0. /\ messages \in Seq(Message) /\ budget \in Int
      /\ messages' = messages /\ budget' = budget
  BY DEF Measured, Next, vars, ReturnAll, Begin, Keep, Stop, Summarise
<1>a. /\ Whole' = Whole /\ Fit' = Fit /\ (FitsAsItIs <=> FitsAsItIs')
      /\ \A k : Newest(k)' = Newest(k) /\ NewestCost(k)' = NewestCost(k)
      /\ \A k : TailOf(k)' = TailOf(k) /\ (Most(k) <=> Most(k)')
  BY <1>0 DEF Whole, Newest, NewestCost, TailOf, Most, Fit, FitsAsItIs, Costs
<1>b. Whole \in Nat /\ Newest(0) = <<>> /\ NewestCost(0) = 0
  BY <1>0, NothingKept
<1>1. CASE ReturnAll
  BY <1>0, <1>1, <1>a DEF ReturnAll, Measured, Fit
<1>2. CASE Begin
  <2>1. budget > 0
    BY <1>0, <1>2 DEF Begin, FitsAsItIs
  <2>2. /\ i' = Whole /\ remaining' = budget /\ pc' = "loop" /\ result' = <<>> /\ ~FitsAsItIs
    BY <1>2 DEF Begin, Measured, Whole
  <2>3. Whole - Whole = 0 /\ budget = budget - 0
    BY <1>0, <1>b
  <2> QED
    BY <1>0, <1>a, <1>b, <2>1, <2>2, <2>3 DEF Measured
<1>3. CASE Keep
  <2> DEFINE k == Whole - i
  <2>1. /\ i \in 1..Whole /\ result = Newest(k) /\ remaining = budget - NewestCost(k)
        /\ remaining - Cost(messages[i]) >= 0 /\ ~FitsAsItIs
    BY <1>b, <1>3 DEF Keep, Measured, Fits
  <2>2. k \in 0..Whole /\ k < Whole /\ Whole - k = i /\ Whole - (i - 1) = k + 1
    BY <1>b, <2>1
  <2> HIDE DEF k
  <2>3. /\ NewestCost(k + 1) = Cost(messages[i]) + NewestCost(k)
        /\ Cost(messages[i]) \in Nat /\ NewestCost(k) \in Nat
    BY <1>0, <2>2, OneMoreCosts, NewestCosts
  <2>4. <<messages[i]>> \o Newest(k) = Newest(k + 1)
    <3>1. <<messages[i]>> \o SubSeq(messages, i + 1, Len(messages)) = SubSeq(messages, i, Len(messages))
      BY <1>0, <2>1, KeepOneMore DEF Whole
    <3>2. Len(messages) - k + 1 = i + 1 /\ Len(messages) - (k + 1) + 1 = i
      BY <1>b, <2>1, <2>2 DEF Whole
    <3> QED
      BY <3>1, <3>2 DEF Newest
  <2>5. /\ result' = Newest(k + 1) /\ i' = i - 1 /\ pc' = "loop"
        /\ remaining' = budget - NewestCost(k + 1) /\ remaining' >= 0
    BY <1>0, <1>3, <2>1, <2>3, <2>4 DEF Keep, Measured
  <2>6. i - 1 \in 0..Whole
    BY <1>b, <2>1
  <2> QED
    BY <1>0, <1>a, <2>1, <2>2, <2>5, <2>6 DEF Measured
<1>4. CASE Stop
  <2> DEFINE k == Whole - i
  <2>1. /\ i \in 0..Whole /\ result = Newest(k) /\ remaining = budget - NewestCost(k)
        /\ remaining >= 0 /\ ~FitsAsItIs /\ (i = 0 \/ ~(remaining - Cost(messages[i]) >= 0))
    BY <1>4 DEF Stop, Measured, Fits
  <2>2. k \in 0..Whole /\ (k < Whole <=> i > 0) /\ Whole - k = i /\ (k > 0 <=> i # Whole)
    BY <1>b, <2>1
  <2> HIDE DEF k
  <2>3. NewestCost(k) \in Nat /\ NewestCost(k) <= budget
    BY <1>0, <2>1, <2>2, NewestCosts
  <2>4. Most(k)
    <3>1. ASSUME k < Whole PROVE NewestCost(k + 1) > budget
      <4>1. NewestCost(k + 1) = Cost(messages[i]) + NewestCost(k) /\ Cost(messages[i]) \in Nat
        BY <1>0, <2>2, <3>1, OneMoreCosts
      <4>2. ~(remaining - Cost(messages[i]) >= 0)
        BY <2>1, <2>2, <3>1
      <4> QED
        BY <1>0, <2>1, <2>3, <4>1, <4>2
    <3> QED
      BY <2>2, <2>3, <3>1 DEF Most
  <2>5. result' = TailOf(k)
    <3>1. CASE k > 0
      <4>1. Len(Newest(k)) = k
        BY <1>0, <2>2, NewestAre
      <4>2. result # <<>>
        BY <2>1, <3>1, <4>1
      <4> QED
        BY <1>4, <2>1, <3>1, <4>2 DEF Stop, TailOf
    <3>2. CASE ~(k > 0)
      <4>1. k = 0 /\ i = Whole /\ result = <<>> /\ remaining = budget
        BY <1>0, <1>b, <2>1, <2>2, <3>2
      <4>2. Whole > 0
        BY <1>b, <2>1 DEF FitsAsItIs, Whole
      <4> QED
        BY <1>4, <3>2, <4>1, <4>2 DEF Stop, TailOf
    <3> QED
      BY <3>1, <3>2
  <2>6. pc' = "summary"
    BY <1>4 DEF Stop
  <2> QED
    BY <1>0, <1>a, <2>1, <2>2, <2>4, <2>5, <2>6 DEF Measured
<1>5. CASE Summarise
  <2>1. PICK k \in 0..Whole : Most(k) /\ result = TailOf(k) /\ ~FitsAsItIs
    BY <1>5 DEF Summarise, Measured
  <2>2. result' = Fit
    BY <1>0, <1>5, <2>1, FitOf DEF Summarise, Whole
  <2>3. pc' = "done"
    BY <1>5 DEF Summarise
  <2> QED
    BY <1>0, <1>a, <2>1, <2>2, <2>3 DEF Measured
<1>6. CASE UNCHANGED vars
  BY <1>0, <1>6, <1>a DEF vars, Measured
<1> QED
  BY <1>1, <1>2, <1>3, <1>4, <1>5, <1>6 DEF Next

\* For every conversation and every budget the loop keeps the longest run of newest messages
\* that the budget pays for (ContextManager.cc:63-118).
THEOREM FitCorrect == Spec => []LoopIsFit
<1>1. Measured => LoopIsFit
  BY DEF Measured, LoopIsFit
<1> QED
  BY <1>1, MeasuredInit, MeasuredStep, PTL DEF Spec

-----------------------------------------------------------------------------
(* What a cut leaves of a text. *)

\* The bytes of the first j runs of a text.
UpTo(t, j) == SumFunctionOnSet(Widths(t), 1..j)

\* A run of a text.
LEMMA RunOf ==
  ASSUME NEW t \in Seq(Run), NEW j \in 1..Len(t)
  PROVE  t[j].w \in 1..4 /\ t[j].n \in Nat /\ t[j] = [w |-> t[j].w, n |-> t[j].n]
         /\ t[j].w * t[j].n \in Nat /\ Widths(t)[j] = t[j].w * t[j].n /\ j \in DOMAIN t
<1>1. t[j] \in Run /\ j \in DOMAIN t
  OBVIOUS
<1>2. t[j].w \in 1..4 /\ t[j].n \in Nat /\ t[j] = [w |-> t[j].w, n |-> t[j].n]
  BY <1>1 DEF Run
<1>3. \A w \in 1..4, n \in Nat : w * n \in Nat
  OBVIOUS
<1> QED
  BY <1>1, <1>2, <1>3 DEF Widths

\* One run after the other adds its bytes.
LEMMA UpToGrows ==
  ASSUME NEW t \in Seq(Run)
  PROVE  /\ UpTo(t, 0) = 0 /\ UpTo(t, Len(t)) = Bytes(t) /\ Len(t) \in Nat
         /\ \A j \in 0..Len(t) : UpTo(t, j) \in Nat
         /\ \A j \in 1..Len(t) : UpTo(t, j) = UpTo(t, j - 1) + t[j].w * t[j].n
<1>0. Len(t) \in Nat
  OBVIOUS
<1>1. \A j \in 1..Len(t) : Widths(t)[j] = t[j].w * t[j].n /\ Widths(t)[j] \in Nat
  BY RunOf
<1>2. UpTo(t, 0) = 0
  <2>1. 1..0 = {}
    OBVIOUS
  <2> QED
    BY <2>1, SumOfNone DEF UpTo
<1>3. \A j \in 0..Len(t) : UpTo(t, j) \in Nat
  <2> TAKE j \in 0..Len(t)
  <2>1. 1 \in Int /\ j \in Int /\ \A x \in 1..j : Widths(t)[x] \in Nat
    BY <1>0, <1>1
  <2> QED
    BY <2>1, SumOnInterval DEF UpTo
<1>4. \A j \in 1..Len(t) : UpTo(t, j) = UpTo(t, j - 1) + t[j].w * t[j].n
  <2> TAKE j \in 1..Len(t)
  <2>1. 1 \in Int /\ j \in Int /\ 1 <= j /\ \A x \in 1..j : Widths(t)[x] \in Nat
    BY <1>0, <1>1
  <2>2. SumFunctionOnSet(Widths(t), 1..j) = SumFunctionOnSet(Widths(t), 1..(j - 1)) + Widths(t)[j]
    BY <2>1, SumFromTheTop
  <2> QED
    BY <1>1, <2>2 DEF UpTo
<1>5. UpTo(t, Len(t)) = Bytes(t)
  <2>1. Widths(t) \in Seq(Nat) /\ Len(Widths(t)) = Len(t)
    BY RunsCount
  <2>2. Bytes(t) = SumFunction(Widths(t))
    BY DEF Bytes, Widths
  <2> QED
    BY <2>1, <2>2, SumOfRow DEF UpTo
<1> QED
  BY <1>0, <1>2, <1>3, <1>4, <1>5

\* No more than the whole text.
LEMMA UpToAll ==
  ASSUME NEW t \in Seq(Run), NEW j \in 0..Len(t)
  PROVE  UpTo(t, j) <= Bytes(t)
<1> DEFINE n == Len(t)
           X == {d \in Nat : d <= n => UpTo(t, n - d) <= UpTo(t, n)}
<1>0. /\ n \in Nat /\ \A x \in 0..n : UpTo(t, x) \in Nat
      /\ \A x \in 1..n : UpTo(t, x) = UpTo(t, x - 1) + t[x].w * t[x].n
      /\ UpTo(t, n) = Bytes(t)
  BY UpToGrows
<1>1. 0 \in X
  BY <1>0
<1>2. ASSUME NEW d \in Nat, d \in X, d + 1 <= n
      PROVE  UpTo(t, n - (d + 1)) <= UpTo(t, n)
  <2>1. n - d \in 1..n /\ (n - d) - 1 = n - (d + 1) /\ d <= n /\ n - (d + 1) \in 0..n
    BY <1>0, <1>2
  <2>2. UpTo(t, n - d) = UpTo(t, n - (d + 1)) + t[n - d].w * t[n - d].n
    BY <1>0, <2>1
  <2>3. t[n - d].w * t[n - d].n \in Nat
    BY <2>1, RunOf
  <2>4. UpTo(t, n - d) <= UpTo(t, n) /\ UpTo(t, n) \in Nat /\ UpTo(t, n - (d + 1)) \in Nat
    BY <1>0, <1>2, <2>1
  <2> HIDE DEF n
  <2> QED
    BY <2>2, <2>3, <2>4
<1>3. \A d \in Nat : d \in X => d + 1 \in X
  BY <1>2
<1> HIDE DEF X
<1>4. \A d \in Nat : d \in X
  BY <1>1, <1>3, Induction
<1>5. n - j \in Nat /\ n - j <= n /\ n - (n - j) = j
  BY <1>0
<1> QED
  BY <1>0, <1>4, <1>5 DEF X

\* The runs before the j-th, taken as a text of their own.
LEMMA BytesBefore ==
  ASSUME NEW t \in Seq(Run), NEW j \in 1..Len(t)
  PROVE  Bytes(SubSeq(t, 1, j - 1)) = UpTo(t, j - 1)
<1> DEFINE s == SubSeq(t, 1, j - 1)
<1>0. Len(t) \in Nat /\ j - 1 \in Nat /\ j - 1 <= Len(t)
  OBVIOUS
<1>1. s \in Seq(Run) /\ Len(s) = j - 1 /\ \A x \in 1..(j - 1) : s[x] = t[x]
  BY <1>0
<1> HIDE DEF s
<1>2. Bytes(s) = UpTo(s, Len(s))
  BY <1>1, UpToGrows
<1>3. \A x \in 1..(j - 1) : Widths(s)[x] \in Nat /\ Widths(t)[0 + x] = Widths(s)[x]
  <2> TAKE x \in 1..(j - 1)
  <2>1. x \in 1..Len(s) /\ x \in 1..Len(t) /\ 0 + x = x
    BY <1>0, <1>1
  <2>2. Widths(s)[x] = s[x].w * s[x].n /\ s[x].w * s[x].n \in Nat
    BY <1>1, <2>1, RunOf
  <2>3. Widths(t)[x] = t[x].w * t[x].n /\ s[x] = t[x]
    BY <1>1, <2>1, RunOf
  <2> QED
    BY <2>1, <2>2, <2>3
<1>4. Shifts(Widths(t), 0, Widths(s), j - 1)
  BY <1>3 DEF Shifts
<1>5. SumFunctionOnSet(Widths(t), (0 + 1)..(0 + (j - 1))) = SumFunctionOnSet(Widths(s), 1..(j - 1))
  BY <1>0, <1>4, SumShift
<1>6. (0 + 1)..(0 + (j - 1)) = 1..(j - 1)
  BY <1>0
<1> QED
  BY <1>1, <1>2, <1>5, <1>6 DEF UpTo, s

\* The greater and the lesser of two numbers.
LEMMA OfTwo ==
  ASSUME NEW x \in Int, NEW y \in Int
  PROVE  Max({x, y}) = (IF x >= y THEN x ELSE y) /\ Min({x, y}) = (IF x <= y THEN x ELSE y)
<1>1. CASE x >= y
  <2>1. \A z \in {x, y} : (\A a \in {x, y} : z >= a) => z = x
    BY <1>1
  <2>2. \A z \in {x, y} : (\A a \in {x, y} : z =< a) => z = y
    BY <1>1
  <2>3. (\A a \in {x, y} : x >= a) /\ (\A a \in {x, y} : y =< a)
    BY <1>1
  <2>4. Max({x, y}) = x
    BY <2>1, <2>3 DEF Max
  <2>5. Min({x, y}) = y
    BY <2>2, <2>3 DEF Min
  <2> QED
    BY <1>1, <2>4, <2>5
<1>2. CASE x < y
  <2>1. \A z \in {x, y} : (\A a \in {x, y} : z >= a) => z = y
    BY <1>2
  <2>2. \A z \in {x, y} : (\A a \in {x, y} : z =< a) => z = x
    BY <1>2
  <2>3. (\A a \in {x, y} : y >= a) /\ (\A a \in {x, y} : x =< a)
    BY <1>2
  <2>4. Max({x, y}) = y
    BY <2>1, <2>3 DEF Max
  <2>5. Min({x, y}) = x
    BY <2>2, <2>3 DEF Min
  <2> QED
    BY <1>2, <2>4, <2>5
<1> QED
  BY <1>1, <1>2

\* What of the j-th run lies between two places, by where it begins and ends.
LEMMA WithinIs ==
  ASSUME NEW t \in Seq(Run), NEW j \in 1..Len(t), NEW first \in Int, NEW last \in Int
  PROVE  LET begin == UpTo(t, j - 1)
             end   == UpTo(t, j)
             from  == IF begin >= first THEN begin ELSE first
             to    == IF end <= last THEN end ELSE last
         IN  Within(t, j, first, last) = IF to - from > 0 THEN to - from ELSE 0
<1> DEFINE begin == UpTo(t, j - 1)
           end   == UpTo(t, j)
           from  == IF begin >= first THEN begin ELSE first
           to    == IF end <= last THEN end ELSE last
<1>1. begin \in Nat /\ end \in Nat /\ end = begin + t[j].w * t[j].n
  <2>1. Len(t) \in Nat /\ j - 1 \in 0..Len(t) /\ j \in 0..Len(t)
    OBVIOUS
  <2> QED
    BY <2>1, UpToGrows
<1>2. Bytes(SubSeq(t, 1, j - 1)) = begin
  BY BytesBefore
<1> HIDE DEF begin, end
<1>3. Max({begin, first}) = from /\ Min({end, last}) = to /\ to - from \in Int
  <2>1. begin \in Int /\ end \in Int
    BY <1>1
  <2>2. Max({begin, first}) = from
    BY <2>1, OfTwo
  <2>3. Min({end, last}) = to
    BY <2>1, OfTwo
  <2>4. from \in Int /\ to \in Int
    BY <2>1
  <2> QED
    BY <2>2, <2>3, <2>4
<1>4. Within(t, j, first, last) = Max({0, to - from})
  BY <1>1, <1>2, <1>3 DEF Within
<1> HIDE DEF from, to
<1>5. Max({0, to - from}) = IF to - from > 0 THEN to - from ELSE 0
  <2>1. Max({0, to - from}) = IF 0 >= to - from THEN 0 ELSE to - from
    BY <1>3, OfTwo
  <2> QED
    BY <1>3, <2>1
<1> QED
  BY <1>4, <1>5 DEF from, to, begin, end

-----------------------------------------------------------------------------
(* What a text weighs, and what the first k bytes of it are, run by run. *)

\* Twenty times what the first j runs of a text cost, before it is rounded up.
Weight(w, n) == IF w = 1 THEN 5 * n ELSE 14 * n

WeightTo(t, j) ==
    14 * SumFunctionOnSet(Wides(t), 1..j) + 5 * SumFunctionOnSet(Narrows(t), 1..j)

\* One run after the other adds its weight, and the whole text's is what its cost is made of.
LEMMA WeightGrows ==
  ASSUME NEW t \in Seq(Run)
  PROVE  /\ WeightTo(t, 0) = 0 /\ WeightTo(t, Len(t)) = 14 * cjk(t) + 5 * ascii(t)
         /\ \A j \in 0..Len(t) : WeightTo(t, j) \in Nat
         /\ \A j \in 1..Len(t) : WeightTo(t, j) = WeightTo(t, j - 1) + Weight(t[j].w, t[j].n)
<1>0. Len(t) \in Nat
  OBVIOUS
<1>1. \A j \in 1..Len(t) :
         /\ Wides(t)[j] \in Nat /\ Narrows(t)[j] \in Nat
         /\ 14 * Wides(t)[j] + 5 * Narrows(t)[j] = Weight(t[j].w, t[j].n)
  <2> TAKE j \in 1..Len(t)
  <2>1. t[j].n \in Nat /\ j \in DOMAIN t
    BY RunOf
  <2>2. /\ Wides(t)[j] = IF t[j].w = 1 THEN 0 ELSE t[j].n
        /\ Narrows(t)[j] = IF t[j].w = 1 THEN t[j].n ELSE 0
    BY <2>1 DEF Wides, Narrows
  <2> QED
    BY <2>1, <2>2 DEF Weight
<1>2. WeightTo(t, 0) = 0
  <2>1. 1..0 = {}
    OBVIOUS
  <2> QED
    BY <2>1, SumOfNone DEF WeightTo
<1>3. \A j \in 0..Len(t) : /\ SumFunctionOnSet(Wides(t), 1..j) \in Nat
                           /\ SumFunctionOnSet(Narrows(t), 1..j) \in Nat
  <2> TAKE j \in 0..Len(t)
  <2>1. 1 \in Int /\ j \in Int /\ \A x \in 1..j : Wides(t)[x] \in Nat /\ Narrows(t)[x] \in Nat
    BY <1>0, <1>1
  <2> QED
    BY <2>1, SumOnInterval
<1>4. \A j \in 1..Len(t) : WeightTo(t, j) = WeightTo(t, j - 1) + Weight(t[j].w, t[j].n)
  <2> TAKE j \in 1..Len(t)
  <2>1. /\ 1 \in Int /\ j \in Int /\ 1 <= j
        /\ \A x \in 1..j : Wides(t)[x] \in Nat /\ Narrows(t)[x] \in Nat
    BY <1>0, <1>1
  <2>2. SumFunctionOnSet(Wides(t), 1..j) = SumFunctionOnSet(Wides(t), 1..(j - 1)) + Wides(t)[j]
    BY <2>1, SumFromTheTop
  <2>3. SumFunctionOnSet(Narrows(t), 1..j) = SumFunctionOnSet(Narrows(t), 1..(j - 1)) + Narrows(t)[j]
    BY <2>1, SumFromTheTop
  <2>4. j - 1 \in 0..Len(t)
    BY <1>0
  <2>5. /\ SumFunctionOnSet(Wides(t), 1..(j - 1)) \in Nat
        /\ SumFunctionOnSet(Narrows(t), 1..(j - 1)) \in Nat
    BY <1>3, <2>4
  <2>6. Wides(t)[j] \in Nat /\ Narrows(t)[j] \in Nat
    BY <1>1
  <2> QED
    BY <1>1, <2>2, <2>3, <2>5, <2>6 DEF WeightTo
<1>5. WeightTo(t, Len(t)) = 14 * cjk(t) + 5 * ascii(t)
  <2>1. /\ Wides(t) \in Seq(Nat) /\ Len(Wides(t)) = Len(t)
        /\ Narrows(t) \in Seq(Nat) /\ Len(Narrows(t)) = Len(t)
    BY RunsCount
  <2>2. cjk(t) = SumFunction(Wides(t)) /\ ascii(t) = SumFunction(Narrows(t))
    BY DEF cjk, ascii, Wides, Narrows
  <2> QED
    BY <2>1, <2>2, SumOfRow DEF WeightTo
<1>6. \A j \in 0..Len(t) : WeightTo(t, j) \in Nat
  BY <1>3 DEF WeightTo
<1> QED
  BY <1>2, <1>4, <1>5, <1>6

\* How many characters x bytes of a run are, when the one that is cut counts.
LEMMA RoundedUp ==
  ASSUME NEW w \in 1..4, NEW x \in Nat, NEW q, q = (x + w - 1) \div w
  PROVE  /\ q \in Nat /\ w * q >= x /\ w * q <= x + 3 /\ Weight(w, q) <= 7 * x + 7
         /\ Weight(w, q) \in Nat /\ w * q \in Nat /\ (x = 0 => q = 0)
<1>1. CASE w = 1
  BY <1>1 DEF Weight
<1>2. CASE w = 2
  BY <1>2 DEF Weight
<1>3. CASE w = 3
  BY <1>3 DEF Weight
<1>4. CASE w = 4
  BY <1>4 DEF Weight
<1> QED
  BY <1>1, <1>2, <1>3, <1>4

\* All the bytes of a run are all its characters.
LEMMA RoundedNot ==
  ASSUME NEW w \in 1..4, NEW n \in Nat
  PROVE  /\ (w * n + w - 1) \div w = n /\ w * n \in Nat
         /\ Weight(w, n) <= 7 * (w * n) /\ Weight(w, n) \in Nat
<1>1. CASE w = 1
  BY <1>1 DEF Weight
<1>2. CASE w = 2
  BY <1>2 DEF Weight
<1>3. CASE w = 3
  BY <1>3 DEF Weight
<1>4. CASE w = 4
  BY <1>4 DEF Weight
<1> QED
  BY <1>1, <1>2, <1>3, <1>4

\* No bytes are no characters.
LEMMA RoundedNone ==
  ASSUME NEW w \in 1..4
  PROVE  (0 + w - 1) \div w = 0
<1>1. w = 1 \/ w = 2 \/ w = 3 \/ w = 4
  OBVIOUS
<1> QED
  BY <1>1

\* How many they are, when the one that is cut does not count.
LEMMA RoundedDown ==
  ASSUME NEW w \in 1..4, NEW x \in Nat, NEW q, q = x \div w
  PROVE  q \in Nat /\ Weight(w, q) <= 7 * x /\ Weight(w, q) \in Nat /\ (x = 0 => q = 0)
<1>1. CASE w = 1
  BY <1>1 DEF Weight
<1>2. CASE w = 2
  BY <1>2 DEF Weight
<1>3. CASE w = 3
  BY <1>3 DEF Weight
<1>4. CASE w = 4
  BY <1>4 DEF Weight
<1> QED
  BY <1>1, <1>2, <1>3, <1>4

\* A text made of one run for every place.
Formed(n, w, m) == \A j \in 1..n : w[j] \in 1..4 /\ m[j] \in Nat

\* Such a text, run by run.
LEMMA TextOf ==
  ASSUME NEW n \in Nat, NEW w, NEW m, Formed(n, w, m),
         NEW s, s = [j \in 1..n |-> [w |-> w[j], n |-> m[j]]]
  PROVE  s \in Seq(Run) /\ Len(s) = n /\ \A j \in 1..n : s[j].w = w[j] /\ s[j].n = m[j]
<1>1. \A j \in 1..n : [w |-> w[j], n |-> m[j]] \in Run
  BY DEF Run, Formed
<1>2. s \in [1..n -> Run]
  BY <1>1
<1>3. s \in Seq(Run) /\ DOMAIN s = 1..n
  BY <1>2, SeqDef
<1> QED
  BY <1>3

\* The first k bytes of a text, run by run.
LEMMA FirstRuns ==
  ASSUME NEW t \in Seq(Run), NEW k \in Nat
  PROVE  /\ FirstBytes(t, k) \in Seq(Run) /\ Len(FirstBytes(t, k)) = Len(t)
         /\ \A j \in 1..Len(t) : FirstBytes(t, k)[j].w = t[j].w
         /\ \A j \in 1..Len(t) : UpTo(t, j) <= k => FirstBytes(t, k)[j] = t[j]
         /\ \A j \in 1..Len(t) : UpTo(t, j - 1) > k => FirstBytes(t, k)[j].n = 0
         /\ \A j \in 1..Len(t) : UpTo(t, j - 1) <= k /\ k < UpTo(t, j)
               => FirstBytes(t, k)[j].n = ((k - UpTo(t, j - 1)) + t[j].w - 1) \div t[j].w
<1> DEFINE part(j) == Within(t, j, 0, k)
           m == [j \in 1..Len(t) |-> (part(j) + t[j].w - 1) \div t[j].w]
           w == [j \in 1..Len(t) |-> t[j].w]
<1>0. Len(t) \in Nat /\ \A j \in 1..Len(t) : j - 1 \in 0..Len(t) /\ j \in 0..Len(t)
  OBVIOUS
<1>1. \A j \in 1..Len(t) : /\ UpTo(t, j - 1) \in Nat /\ UpTo(t, j) \in Nat
                           /\ UpTo(t, j) = UpTo(t, j - 1) + t[j].w * t[j].n
  BY <1>0, UpToGrows
<1>2. \A j \in 1..Len(t) : t[j].w \in 1..4 /\ t[j].n \in Nat /\ t[j].w * t[j].n \in Nat
  BY RunOf
<1>3. \A j \in 1..Len(t) :
         /\ part(j) \in Nat
         /\ UpTo(t, j) <= k => part(j) = t[j].w * t[j].n
         /\ UpTo(t, j - 1) > k => part(j) = 0
         /\ UpTo(t, j - 1) <= k /\ k < UpTo(t, j) => part(j) = k - UpTo(t, j - 1)
  <2> TAKE j \in 1..Len(t)
  <2> DEFINE b == UpTo(t, j - 1)
             e == UpTo(t, j)
             p == t[j].w * t[j].n
  <2>1. part(j) = LET from == IF b >= 0 THEN b ELSE 0
                      to   == IF e <= k THEN e ELSE k
                  IN  IF to - from > 0 THEN to - from ELSE 0
    BY WithinIs
  <2>2. b \in Nat /\ e \in Nat /\ e = b + p /\ p \in Nat
    BY <1>1, <1>2
  <2> HIDE DEF b, e, p, part
  <2>3. part(j) = LET to == IF e <= k THEN e ELSE k IN IF to - b > 0 THEN to - b ELSE 0
    BY <2>1, <2>2
  <2>4. /\ part(j) \in Nat
        /\ e <= k => part(j) = p
        /\ b > k => part(j) = 0
        /\ b <= k /\ k < e => part(j) = k - b
    BY <2>2, <2>3
  <2> QED
    BY <2>4 DEF b, e, p
<1> HIDE DEF part
<1>4. \A j \in 1..Len(t) : w[j] \in 1..4 /\ m[j] \in Nat
  <2> TAKE j \in 1..Len(t)
  <2>1. t[j].w \in 1..4 /\ part(j) \in Nat
    BY <1>2, <1>3
  <2>2. (part(j) + t[j].w - 1) \div t[j].w \in Nat
    BY <2>1, RoundedUp
  <2> QED
    BY <2>1, <2>2
<1>5. FirstBytes(t, k) = [j \in 1..Len(t) |-> [w |-> w[j], n |-> m[j]]]
  BY DEF FirstBytes, part
<1>6. /\ FirstBytes(t, k) \in Seq(Run) /\ Len(FirstBytes(t, k)) = Len(t)
      /\ \A j \in 1..Len(t) : FirstBytes(t, k)[j].w = w[j] /\ FirstBytes(t, k)[j].n = m[j]
  <2>1. Formed(Len(t), w, m)
    BY <1>4 DEF Formed
  <2> HIDE DEF w, m
  <2> QED
    BY <1>0, <1>5, <2>1, TextOf
<1>7. ASSUME NEW j \in 1..Len(t), UpTo(t, j) <= k
      PROVE  FirstBytes(t, k)[j] = t[j]
  <2>1. part(j) = t[j].w * t[j].n
    BY <1>3, <1>7
  <2>2. m[j] = t[j].n
    BY <1>2, <2>1, RoundedNot
  <2>3. FirstBytes(t, k)[j] = [w |-> w[j], n |-> m[j]]
    BY <1>5
  <2> QED
    BY <2>2, <2>3, RunOf
<1>8. ASSUME NEW j \in 1..Len(t), UpTo(t, j - 1) > k
      PROVE  FirstBytes(t, k)[j].n = 0
  <2>1. part(j) = 0
    BY <1>3, <1>8
  <2>2. t[j].w \in 1..4 /\ 0 \in Nat
    BY <1>2
  <2>3. (0 + t[j].w - 1) \div t[j].w = 0
    BY <2>2, RoundedNone
  <2> QED
    BY <1>6, <2>1, <2>3
<1>9. ASSUME NEW j \in 1..Len(t), UpTo(t, j - 1) <= k, k < UpTo(t, j)
      PROVE  FirstBytes(t, k)[j].n = ((k - UpTo(t, j - 1)) + t[j].w - 1) \div t[j].w
  BY <1>3, <1>6, <1>9
<1>10. \A j \in 1..Len(t) : FirstBytes(t, k)[j].w = t[j].w
  BY <1>6
<1> QED
  BY <1>6, <1>7, <1>8, <1>9, <1>10

-----------------------------------------------------------------------------
(* What is left of a text: the first k bytes. *)

\* The first k bytes of the first j runs: all of them as long as they are within the k
\* bytes, and from there on k bytes, the rest of a character, and what that weighs.
HeadIs(t, k, j) ==
    LET head == FirstBytes(t, k)
    IN  /\ UpTo(t, j) <= k => UpTo(head, j) = UpTo(t, j) /\ WeightTo(head, j) <= 7 * UpTo(t, j)
        /\ k < UpTo(t, j) => /\ k <= UpTo(head, j) /\ UpTo(head, j) <= k + 3
                             /\ WeightTo(head, j) <= 7 * k + 7

\* One run more.
LEMMA HeadGrows ==
  ASSUME NEW t \in Seq(Run), NEW k \in Nat, NEW j \in 1..Len(t), HeadIs(t, k, j - 1)
  PROVE  HeadIs(t, k, j)
<1> DEFINE head == FirstBytes(t, k)
           b == UpTo(t, j - 1)
           e == UpTo(t, j)
           x == UpTo(head, j - 1)
           y == UpTo(head, j)
           u == WeightTo(head, j - 1)
           v == WeightTo(head, j)
           w == t[j].w
           n == t[j].n
           q == head[j].n
<1>0. Len(t) \in Nat /\ j - 1 \in 0..Len(t) /\ j \in 0..Len(t)
  OBVIOUS
<1>1. head \in Seq(Run) /\ Len(head) = Len(t) /\ head[j].w = w
  BY FirstRuns
<1>2. /\ e <= k => head[j] = t[j]
      /\ b > k => q = 0
      /\ b <= k /\ k < e => q = ((k - b) + w - 1) \div w
  BY FirstRuns
<1>3. b \in Nat /\ e \in Nat /\ e = b + w * n
  BY <1>0, UpToGrows
<1>4. w \in 1..4 /\ n \in Nat
  BY RunOf
<1> HIDE DEF head
<1>5. x \in Nat /\ y \in Nat /\ y = x + head[j].w * head[j].n
  BY <1>0, <1>1, UpToGrows
<1>6. u \in Nat /\ v \in Nat /\ v = u + Weight(head[j].w, head[j].n)
  BY <1>0, <1>1, WeightGrows
<1>7. /\ b <= k => x = b /\ u <= 7 * b
      /\ k < b => k <= x /\ x <= k + 3 /\ u <= 7 * k + 7
  BY DEF HeadIs, head
<1>8. y = x + w * q /\ v = u + Weight(w, q)
  BY <1>1, <1>5, <1>6
<1>9. w * n \in Nat
  BY <1>4, RoundedNot
<1> SUFFICES /\ e <= k => y = e /\ v <= 7 * e
             /\ k < e => k <= y /\ y <= k + 3 /\ v <= 7 * k + 7
  BY DEF HeadIs, head
<1> HIDE DEF b, e, x, y, u, v, w, n
<1>10. CASE e <= k
  <2>1. q = n
    BY <1>2, <1>10 DEF n
  <2> HIDE DEF q
  <2>2. Weight(w, n) \in Nat /\ Weight(w, n) <= 7 * (w * n)
    BY <1>4, RoundedNot
  <2> DEFINE p == w * n
             g == Weight(w, n)
  <2>3. y = x + p /\ v = u + g /\ e = b + p /\ g \in Nat /\ g <= 7 * p /\ p \in Nat
    BY <1>3, <1>8, <1>9, <2>1, <2>2
  <2> HIDE DEF p, g
  <2> QED
    BY <1>3, <1>5, <1>6, <1>7, <1>10, <2>3
<1>11. CASE k < b
  <2>1. q = 0
    BY <1>2, <1>3, <1>11
  <2> HIDE DEF q
  <2>2. w * q = 0 /\ Weight(w, q) = 0
    BY <1>4, <2>1 DEF Weight
  <2> DEFINE p == w * n
  <2>3. y = x /\ v = u /\ e = b + p /\ p \in Nat
    BY <1>3, <1>5, <1>6, <1>8, <1>9, <2>2
  <2> HIDE DEF p
  <2> QED
    BY <1>3, <1>5, <1>6, <1>7, <1>11, <2>3
<1>12. CASE b <= k /\ k < e
  <2> DEFINE z == k - b
  <2>1. z \in Nat /\ q = (z + w - 1) \div w
    BY <1>2, <1>3, <1>12
  <2> HIDE DEF q, z
  <2>2. /\ q \in Nat /\ w * q >= z /\ w * q <= z + 3 /\ Weight(w, q) <= 7 * z + 7
        /\ Weight(w, q) \in Nat /\ w * q \in Nat
    BY <1>4, <2>1, RoundedUp
  <2> DEFINE p == w * q
             g == Weight(w, q)
  <2>3. /\ y = x + p /\ v = u + g /\ p \in Nat /\ g \in Nat
        /\ p >= z /\ p <= z + 3 /\ g <= 7 * z + 7 /\ z \in Nat
    BY <1>8, <2>1, <2>2
  <2> HIDE DEF p, g
  <2>4. z = k - b
    BY DEF z
  <2> QED
    BY <1>3, <1>5, <1>6, <1>7, <1>12, <2>3, <2>4
<1> QED
  BY <1>3, <1>10, <1>11, <1>12

\* Of the whole text.
LEMMA HeadOf ==
  ASSUME NEW t \in Seq(Run), NEW k \in Nat
  PROVE  HeadIs(t, k, Len(t))
<1> DEFINE n == Len(t)
           X == {d \in Nat : d <= n => HeadIs(t, k, d)}
<1>0. n \in Nat /\ FirstBytes(t, k) \in Seq(Run)
  BY FirstRuns
<1>1. 0 \in X
  <2>1. UpTo(t, 0) = 0 /\ UpTo(FirstBytes(t, k), 0) = 0 /\ WeightTo(FirstBytes(t, k), 0) = 0
    BY <1>0, UpToGrows, WeightGrows
  <2> QED
    BY <2>1 DEF HeadIs
<1>2. ASSUME NEW d \in Nat, d \in X, d + 1 <= n
      PROVE  HeadIs(t, k, d + 1)
  <2>1. d + 1 \in 1..Len(t) /\ (d + 1) - 1 = d /\ d <= n
    BY <1>0, <1>2
  <2>2. HeadIs(t, k, (d + 1) - 1)
    BY <1>2, <2>1
  <2> HIDE DEF X, n
  <2> QED
    BY <2>1, <2>2, HeadGrows
<1>3. \A d \in Nat : d \in X => d + 1 \in X
  BY <1>2
<1> HIDE DEF X
<1>4. \A d \in Nat : d \in X
  BY <1>1, <1>3, Induction
<1> QED
  BY <1>0, <1>4 DEF X

\* The first k bytes of a text.
LEMMA HeadBytes ==
  ASSUME NEW t \in Seq(Run), NEW k \in Nat
  PROVE  /\ FirstBytes(t, k) \in Seq(Run)
         /\ Bytes(t) \in Nat /\ Bytes(FirstBytes(t, k)) \in Nat
         /\ Bytes(t) <= k => FirstBytes(t, k) = t
         /\ k < Bytes(t) => /\ k <= Bytes(FirstBytes(t, k)) /\ Bytes(FirstBytes(t, k)) <= k + 3
         /\ 14 * cjk(FirstBytes(t, k)) + 5 * ascii(FirstBytes(t, k)) <= 7 * k + 7
<1> DEFINE head == FirstBytes(t, k)
<1>1. head \in Seq(Run) /\ Len(head) = Len(t)
  BY FirstRuns
<1>2. HeadIs(t, k, Len(t))
  BY HeadOf
<1>3. Bytes(t) = UpTo(t, Len(t)) /\ Bytes(t) \in Nat
  BY UpToGrows, RunsCount
<1>4. Bytes(head) = UpTo(head, Len(t)) /\ Bytes(head) \in Nat
  BY <1>1, UpToGrows, RunsCount
<1>5. 14 * cjk(head) + 5 * ascii(head) = WeightTo(head, Len(t))
  BY <1>1, WeightGrows
<1>6. ASSUME Bytes(t) <= k PROVE head = t
  <2>1. \A j \in 1..Len(t) : UpTo(t, j) <= k
    <3> TAKE j \in 1..Len(t)
    <3>1. UpTo(t, j) <= Bytes(t) /\ UpTo(t, j) \in Nat
      <4>1. j \in 0..Len(t)
        OBVIOUS
      <4> QED
        BY <4>1, UpToAll, UpToGrows
    <3> QED
      BY <1>3, <1>6, <3>1
  <2>2. \A j \in 1..Len(t) : head[j] = t[j]
    BY <2>1, FirstRuns
  <2> HIDE DEF head
  <2> QED
    BY <1>1, <2>2, SeqEqual
<1>7. /\ Bytes(t) <= k => WeightTo(head, Len(t)) <= 7 * Bytes(t)
      /\ k < Bytes(t) => /\ k <= Bytes(head) /\ Bytes(head) <= k + 3
                         /\ WeightTo(head, Len(t)) <= 7 * k + 7
  BY <1>2, <1>3, <1>4 DEF HeadIs
<1>8. WeightTo(head, Len(t)) \in Nat
  <2>1. Len(head) \in Nat /\ Len(t) \in 0..Len(head)
    BY <1>1
  <2> QED
    BY <1>1, <2>1, WeightGrows
<1>9. WeightTo(head, Len(t)) <= 7 * k + 7
  <2> DEFINE z == WeightTo(head, Len(t))
  <2> HIDE DEF z
  <2>1. z \in Nat /\ (Bytes(t) <= k => z <= 7 * Bytes(t)) /\ (k < Bytes(t) => z <= 7 * k + 7)
    BY <1>7, <1>8 DEF z
  <2>2. z <= 7 * k + 7
    BY <1>3, <2>1
  <2> QED
    BY <2>2 DEF z
<1> QED
  BY <1>1, <1>3, <1>4, <1>5, <1>6, <1>7, <1>9

-----------------------------------------------------------------------------
(* The newest question survives. *)

\* What stays behind a summary keeps its last message.
LEMMA LastBehind ==
  ASSUME NEW o, NEW ms \in Seq(Message), ms # <<>>
  PROVE  Behind(o, ms) # <<>> /\ Behind(o, ms)[Len(Behind(o, ms))] = ms[Len(ms)]
<1>1. Len(ms) \in Nat /\ Len(ms) > 0
  BY EmptySeq
<1>2. CASE o = <<>>
  BY <1>2 DEF Behind
<1>3. CASE o # <<>>
  <2> DEFINE s == Summary(o)
             all == <<s>> \o ms
  <2>1. Behind(o, ms) = all
    BY <1>3 DEF Behind
  <2> HIDE DEF s
  <2>2. <<s>> \in Seq(Message \cup {s}) /\ ms \in Seq(Message \cup {s}) /\ Len(<<s>>) = 1
    <3>1. ms \in Seq(Message \cup {s})
      <4>1. \A j \in 1..Len(ms) : ms[j] \in Message \cup {s}
        OBVIOUS
      <4>2. ms \in [1..Len(ms) -> Message \cup {s}]
        BY <1>1, <4>1
      <4> QED
        BY <1>1, <4>2, SeqDef
    <3> QED
      BY <3>1
  <2>3. /\ all \in Seq(Message \cup {s}) /\ Len(all) = 1 + Len(ms)
        /\ \A j \in 1..Len(all) : all[j] = IF j <= 1 THEN <<s>>[j] ELSE ms[j - 1]
    BY <2>2, ConcatProperties
  <2>4. all[Len(all)] = ms[Len(ms)] /\ Len(all) # 0
    BY <1>1, <2>3
  <2> QED
    BY <2>1, <2>4
<1> QED
  BY <1>2, <1>3

\* A text is its own beginning.
LEMMA AllOfIt ==
  ASSUME NEW t \in Seq(Run), Bytes(t) > 0
  PROVE  \E k \in 1..Bytes(t) : t = FirstBytes(t, k)
<1>1. Bytes(t) \in Nat
  BY RunsCount
<1>2. t = FirstBytes(t, Bytes(t))
  BY <1>1, HeadBytes
<1>3. Bytes(t) \in 1..Bytes(t)
  BY <1>1
<1> QED
  BY <1>2, <1>3

\* A cut that begins with something leaves something.
LEMMA SomeOfIt ==
  ASSUME NEW t \in Seq(Run), Bytes(t) > 0, NEW c \in Nat, c > 0
  PROVE  /\ Bytes(FirstBytes(t, c)) > 0
         /\ \E k \in 1..Bytes(t) : FirstBytes(t, c) = FirstBytes(t, k)
<1>1. Bytes(t) \in Nat /\ Bytes(FirstBytes(t, c)) \in Nat
  BY HeadBytes
<1>2. CASE Bytes(t) <= c
  <2>1. FirstBytes(t, c) = t
    BY <1>2, HeadBytes
  <2> QED
    BY <2>1, AllOfIt
<1>3. CASE c < Bytes(t)
  <2>1. c <= Bytes(FirstBytes(t, c)) /\ c \in 1..Bytes(t)
    BY <1>1, <1>3, HeadBytes
  <2> QED
    BY <1>1, <2>1
<1> QED
  BY <1>1, <1>2, <1>3

\* Of the invariant.
LEMMA MeasuredSurvives == Measured => QuestionSurvives
<1> SUFFICES ASSUME Measured, pc = "done", Whole > 0, budget <= 0 \/ budget > Overhead,
                    messages[Whole].role = "user", Bytes(messages[Whole].text) > 0
             PROVE  /\ result # <<>> /\ result[Len(result)].role = "user"
                    /\ Bytes(result[Len(result)].text) > 0
                    /\ \E k \in 1..Bytes(messages[Whole].text) :
                         result[Len(result)].text = FirstBytes(messages[Whole].text, k)
  BY DEF QuestionSurvives, Whole
<1> DEFINE last == messages[Whole]
           kept == result[Len(result)]
<1>0. /\ messages \in Seq(Message) /\ budget \in Int /\ Whole \in Nat /\ Whole = Len(messages)
      /\ result = Fit /\ (FitsAsItIs \/ \E k \in 0..Whole : Most(k))
  BY DEF Measured, Whole
<1>1. last \in Message /\ last.text \in Seq(Run)
  <2>1. last \in Message
    BY <1>0
  <2> QED
    BY <2>1 DEF Message
<1>2. ASSUME result # <<>>, kept = last PROVE result # <<>> /\ kept.role = "user"
         /\ Bytes(kept.text) > 0 /\ \E k \in 1..Bytes(last.text) : kept.text = FirstBytes(last.text, k)
  BY <1>1, <1>2, AllOfIt
<1>3. CASE FitsAsItIs
  <2>1. result = messages
    BY <1>0, <1>3 DEF Fit
  <2> QED
    BY <1>0, <1>2, <2>1
<1>4. CASE ~FitsAsItIs
  <2>1. PICK k \in 0..Whole : Most(k)
    BY <1>0, <1>4
  <2>2. result = Behind(SubSeq(messages, 1, Whole - Len(TailOf(k))), TailOf(k))
    BY <1>0, <1>4, <2>1, FitOf
  <2>3. CASE k > 0
    <3>1. /\ Newest(k) \in Seq(Message) /\ Len(Newest(k)) = k
          /\ \A j \in 1..k : Newest(k)[j] = messages[(Whole - k) + j]
      BY <1>0, NewestAre
    <3>2. Newest(k)[k] = last /\ Newest(k) # <<>>
      BY <1>0, <2>3, <3>1
    <3>3. TailOf(k) = Newest(k)
      BY <2>3 DEF TailOf
    <3>4. result # <<>> /\ kept = Newest(k)[k]
      BY <2>2, <3>1, <3>2, <3>3, LastBehind
    <3> QED
      BY <1>2, <3>2, <3>4
  <2>4. CASE ~(k > 0)
    <3>1. budget > 4 /\ Overhead = 4
      BY <1>0, <1>4 DEF FitsAsItIs, Overhead
    <3> DEFINE c == (budget - Overhead) * 3
               cut == Truncated(last, budget)
    <3>2. c \in Nat /\ c > 0
      BY <1>0, <3>1
    <3>3. cut.role = "user" /\ cut.text = FirstBytes(last.text, c)
      BY <1>1 DEF Truncated, Message
    <3> HIDE DEF c
    <3>4. /\ Bytes(cut.text) > 0
          /\ \E j \in 1..Bytes(last.text) : cut.text = FirstBytes(last.text, j)
      BY <1>1, <3>2, <3>3, SomeOfIt
    <3>5. MayTruncate(last, budget)
      BY <3>1, <3>4 DEF MayTruncate
    <3>6. cut \in Message
      <4>1. FirstBytes(last.text, c) \in Seq(Run)
        BY <1>1, <3>2, HeadBytes
      <4> QED
        BY <1>1, <4>1 DEF Truncated, Message, c
    <3>7. TailOf(k) = <<cut>>
      BY <2>4, <3>5 DEF TailOf
    <3> HIDE DEF cut
    <3>8. <<cut>> \in Seq(Message) /\ <<cut>> # <<>> /\ Len(<<cut>>) = 1 /\ <<cut>>[1] = cut
      BY <3>6
    <3>9. result # <<>> /\ kept = cut
      BY <2>2, <3>7, <3>8, LastBehind
    <3> QED
      BY <3>3, <3>4, <3>9
  <2> QED
    BY <2>3, <2>4
<1> QED
  BY <1>3, <1>4

\* For every conversation and every budget a question that is the newest message is not
\* lost: it, or its beginning, is the last thing the model reads (ContextManager.cc:86-101).
THEOREM QuestionCorrect == Spec => []QuestionSurvives
<1> QED
  BY MeasuredInit, MeasuredStep, MeasuredSurvives, PTL DEF Spec

-----------------------------------------------------------------------------
(* What is left of a text: the last k bytes. *)

\* Where the last k bytes of a text begin.
Start(t, k) == Bytes(t) - k

\* The last k bytes of the first j runs weigh seven for each byte, or less.
TailIs(t, k, j) ==
    LET tail == LastBytes(t, k)
    IN  /\ UpTo(t, j) <= Start(t, k) => WeightTo(tail, j) = 0
        /\ Start(t, k) < UpTo(t, j) => WeightTo(tail, j) <= 7 * (UpTo(t, j) - Start(t, k))

\* The last k bytes of a text, run by run.
LEMMA LastRuns ==
  ASSUME NEW t \in Seq(Run), NEW k \in Nat
  PROVE  /\ LastBytes(t, k) \in Seq(Run) /\ Len(LastBytes(t, k)) = Len(t)
         /\ \A j \in 1..Len(t) :
              LET before == UpTo(t, j - 1)
                  from == IF before >= Start(t, k) THEN before ELSE Start(t, k)
                  part == IF UpTo(t, j) - from > 0 THEN UpTo(t, j) - from ELSE 0
              IN  /\ LastBytes(t, k)[j].w = t[j].w /\ LastBytes(t, k)[j].n = part \div t[j].w
                  /\ part \in Nat
<1> DEFINE part(j) == Within(t, j, Start(t, k), Bytes(t))
           from(j) == IF UpTo(t, j - 1) >= Start(t, k) THEN UpTo(t, j - 1) ELSE Start(t, k)
           m == [j \in 1..Len(t) |-> part(j) \div t[j].w]
           w == [j \in 1..Len(t) |-> t[j].w]
<1>0. Len(t) \in Nat /\ \A j \in 1..Len(t) : j - 1 \in 0..Len(t) /\ j \in 0..Len(t)
  OBVIOUS
<1>1. Bytes(t) \in Nat /\ Start(t, k) \in Int
  BY RunsCount DEF Start
<1>2. \A j \in 1..Len(t) :
         /\ part(j) = IF UpTo(t, j) - from(j) > 0 THEN UpTo(t, j) - from(j) ELSE 0
         /\ part(j) \in Nat
  <2> TAKE j \in 1..Len(t)
  <2> DEFINE b == UpTo(t, j - 1)
             e == UpTo(t, j)
  <2>1. part(j) = LET to == IF e <= Bytes(t) THEN e ELSE Bytes(t)
                  IN  IF to - from(j) > 0 THEN to - from(j) ELSE 0
    BY <1>1, WithinIs
  <2>2. b \in Nat /\ e \in Nat /\ e <= Bytes(t)
    BY <1>0, UpToGrows, UpToAll
  <2> HIDE DEF b, e, part
  <2>3. part(j) = IF e - from(j) > 0 THEN e - from(j) ELSE 0
    BY <2>1, <2>2
  <2>4. from(j) \in Int
    BY <1>1, <2>2 DEF b
  <2> HIDE DEF from
  <2>5. part(j) \in Nat
    BY <2>2, <2>3, <2>4
  <2> QED
    BY <2>3, <2>5 DEF e
<1> HIDE DEF part
<1>3. \A j \in 1..Len(t) : w[j] \in 1..4 /\ m[j] \in Nat
  <2> TAKE j \in 1..Len(t)
  <2>1. t[j].w \in 1..4 /\ part(j) \in Nat
    BY <1>2, RunOf
  <2>2. part(j) \div t[j].w \in Nat
    BY <2>1, RoundedDown
  <2> QED
    BY <2>1, <2>2
<1>4. Formed(Len(t), w, m)
  BY <1>3 DEF Formed
<1>5. LastBytes(t, k) = [j \in 1..Len(t) |-> [w |-> w[j], n |-> m[j]]]
  BY DEF LastBytes, part, Start
<1>6. /\ LastBytes(t, k) \in Seq(Run) /\ Len(LastBytes(t, k)) = Len(t)
      /\ \A j \in 1..Len(t) : LastBytes(t, k)[j].w = w[j] /\ LastBytes(t, k)[j].n = m[j]
  <2> HIDE DEF w, m
  <2> QED
    BY <1>0, <1>4, <1>5, TextOf
<1>7. \A j \in 1..Len(t) : /\ LastBytes(t, k)[j].w = t[j].w
                           /\ LastBytes(t, k)[j].n = part(j) \div t[j].w
  BY <1>6
<1> HIDE DEF w, m
<1> QED
  BY <1>2, <1>6, <1>7

\* One run more.
LEMMA TailGrows ==
  ASSUME NEW t \in Seq(Run), NEW k \in Nat, NEW j \in 1..Len(t), TailIs(t, k, j - 1)
  PROVE  TailIs(t, k, j)
<1> DEFINE tail == LastBytes(t, k)
           s == Start(t, k)
           b == UpTo(t, j - 1)
           e == UpTo(t, j)
           from == IF b >= s THEN b ELSE s
           part == IF e - from > 0 THEN e - from ELSE 0
           u == WeightTo(tail, j - 1)
           v == WeightTo(tail, j)
           w == t[j].w
           q == tail[j].n
           g == Weight(w, q)
<1>0. Len(t) \in Nat /\ j - 1 \in 0..Len(t) /\ j \in 0..Len(t)
  OBVIOUS
<1>1. tail \in Seq(Run) /\ Len(tail) = Len(t) /\ tail[j].w = w /\ q = part \div w /\ part \in Nat
  BY LastRuns
<1>2. b \in Nat /\ e \in Nat /\ e = b + t[j].w * t[j].n /\ t[j].w * t[j].n \in Nat /\ w \in 1..4
  BY <1>0, UpToGrows, RunOf
<1>3. b <= e
  BY <1>2
<1>4. s \in Int
  BY RunsCount DEF Start
<1> HIDE DEF tail
<1>5. u \in Nat /\ v \in Nat /\ v = u + Weight(tail[j].w, tail[j].n)
  BY <1>0, <1>1, WeightGrows
<1>6. v = u + g
  BY <1>1, <1>5
<1>7. (b <= s => u = 0) /\ (s < b => u <= 7 * (b - s))
  BY DEF TailIs, tail
<1> HIDE DEF part
<1>8. g <= 7 * part /\ g \in Nat /\ (part = 0 => q = 0)
  <2> HIDE DEF q, w
  <2> QED
    BY <1>1, <1>2, RoundedDown
<1>9. part = 0 => g = 0
  BY <1>8 DEF Weight
<1> SUFFICES (e <= s => v = 0) /\ (s < e => v <= 7 * (e - s))
  BY DEF TailIs, tail
<1>10. part = IF e - from > 0 THEN e - from ELSE 0
  BY DEF part
<1>11. b \in Nat /\ e \in Nat
  BY <1>2
<1> HIDE DEF b, e, s, u, v, w, q, g
<1>12. CASE e <= s
  BY <1>3, <1>4, <1>5, <1>6, <1>7, <1>9, <1>10, <1>11, <1>12
<1>13. CASE s < e
  <2>1. CASE b >= s
    <3>1. part = e - b
      BY <1>3, <1>4, <1>10, <1>11, <2>1
    <3>2. u <= 7 * (b - s)
      BY <1>4, <1>7, <1>11, <2>1
    <3> QED
      BY <1>1, <1>4, <1>5, <1>6, <1>8, <1>11, <3>1, <3>2
  <2>2. CASE b < s
    <3>1. part = e - s /\ u = 0
      BY <1>4, <1>7, <1>10, <1>11, <1>13, <2>2
    <3> QED
      BY <1>1, <1>4, <1>5, <1>6, <1>8, <1>11, <3>1
  <2> QED
    BY <1>4, <1>11, <2>1, <2>2
<1> QED
  BY <1>4, <1>11, <1>12, <1>13

\* Of the whole text.
LEMMA TailOfText ==
  ASSUME NEW t \in Seq(Run), NEW k \in Nat
  PROVE  TailIs(t, k, Len(t))
<1> DEFINE n == Len(t)
           X == {d \in Nat : d <= n => TailIs(t, k, d)}
<1>0. n \in Nat /\ LastBytes(t, k) \in Seq(Run) /\ Bytes(t) \in Nat
  BY LastRuns, RunsCount
<1>1. 0 \in X
  <2>1. UpTo(t, 0) = 0 /\ WeightTo(LastBytes(t, k), 0) = 0
    BY <1>0, UpToGrows, WeightGrows
  <2> QED
    BY <1>0, <2>1 DEF TailIs, Start
<1>2. ASSUME NEW d \in Nat, d \in X, d + 1 <= n
      PROVE  TailIs(t, k, d + 1)
  <2>1. d + 1 \in 1..Len(t) /\ (d + 1) - 1 = d /\ d <= n
    BY <1>0, <1>2
  <2>2. TailIs(t, k, (d + 1) - 1)
    BY <1>2, <2>1
  <2> HIDE DEF X, n
  <2> QED
    BY <2>1, <2>2, TailGrows
<1>3. \A d \in Nat : d \in X => d + 1 \in X
  BY <1>2
<1> HIDE DEF X
<1>4. \A d \in Nat : d \in X
  BY <1>1, <1>3, Induction
<1> QED
  BY <1>0, <1>4 DEF X

\* The last k bytes of a text.
LEMMA TailBytes ==
  ASSUME NEW t \in Seq(Run), NEW k \in Nat
  PROVE  /\ LastBytes(t, k) \in Seq(Run)
         /\ 14 * cjk(LastBytes(t, k)) + 5 * ascii(LastBytes(t, k)) <= 7 * k
<1> DEFINE tail == LastBytes(t, k)
<1>1. tail \in Seq(Run) /\ Len(tail) = Len(t)
  BY LastRuns
<1>2. TailIs(t, k, Len(t))
  BY TailOfText
<1>3. UpTo(t, Len(t)) = Bytes(t) /\ Bytes(t) \in Nat
  BY UpToGrows, RunsCount
<1>4. 14 * cjk(tail) + 5 * ascii(tail) = WeightTo(tail, Len(t))
  BY <1>1, WeightGrows
<1> DEFINE z == WeightTo(tail, Len(t))
<1>5. (Bytes(t) <= Bytes(t) - k => z = 0) /\ (Bytes(t) - k < Bytes(t) => z <= 7 * (Bytes(t) - (Bytes(t) - k)))
  BY <1>2, <1>3 DEF TailIs, Start
<1> HIDE DEF z
<1>6. z <= 7 * k
  BY <1>3, <1>5
<1> QED
  BY <1>1, <1>4, <1>6 DEF z

-----------------------------------------------------------------------------
(* Texts and their weights put together. *)

\* Twenty times what a text costs, before it is rounded up.
WeightOf(t) == 14 * cjk(t) + 5 * ascii(t)

\* One text behind another.
LEMMA WeightOfConcat ==
  ASSUME NEW a \in Seq(Run), NEW b \in Seq(Run)
  PROVE  a \o b \in Seq(Run) /\ WeightOf(a \o b) = WeightOf(a) + WeightOf(b)
<1> DEFINE c == a \o b
<1>1. /\ c \in Seq(Run) /\ Len(c) = Len(a) + Len(b) /\ Len(a) \in Nat /\ Len(b) \in Nat
      /\ DOMAIN c = 1..Len(c) /\ DOMAIN a = 1..Len(a) /\ DOMAIN b = 1..Len(b)
      /\ \A j \in 1..Len(c) : c[j] = IF j <= Len(a) THEN a[j] ELSE b[j - Len(a)]
  BY ConcatProperties
<1> HIDE DEF c
<1>2. /\ Wides(a) \in Seq(Nat) /\ Wides(b) \in Seq(Nat) /\ Wides(c) \in Seq(Nat)
      /\ Narrows(a) \in Seq(Nat) /\ Narrows(b) \in Seq(Nat) /\ Narrows(c) \in Seq(Nat)
      /\ Len(Wides(a)) = Len(a) /\ Len(Wides(b)) = Len(b) /\ Len(Wides(c)) = Len(c)
      /\ Len(Narrows(a)) = Len(a) /\ Len(Narrows(b)) = Len(b) /\ Len(Narrows(c)) = Len(c)
  BY <1>1, RunsCount
<1>3. Wides(c) = Wides(a) \o Wides(b)
  <2>1. /\ Wides(a) \o Wides(b) \in Seq(Nat) /\ Len(Wides(a) \o Wides(b)) = Len(c)
        /\ \A j \in 1..Len(c) :
             (Wides(a) \o Wides(b))[j] = IF j <= Len(a) THEN Wides(a)[j] ELSE Wides(b)[j - Len(a)]
    <3> DEFINE x == Wides(a)
               y == Wides(b)
    <3>1. /\ x \in Seq(Nat) /\ y \in Seq(Nat) /\ Len(x) = Len(a) /\ Len(y) = Len(b)
          /\ Len(x) + Len(y) = Len(c)
      BY <1>1, <1>2
    <3> HIDE DEF x, y
    <3>2. /\ x \o y \in Seq(Nat) /\ Len(x \o y) = Len(x) + Len(y)
          /\ \A j \in 1..(Len(x) + Len(y)) : (x \o y)[j] = IF j <= Len(x) THEN x[j] ELSE y[j - Len(x)]
      BY <3>1, ConcatProperties
    <3> QED
      BY <3>1, <3>2 DEF x, y
  <2>2. ASSUME NEW j \in 1..Len(c) PROVE Wides(c)[j] = (Wides(a) \o Wides(b))[j]
    <3>1. j <= Len(a) => j \in DOMAIN a
      BY <1>1
    <3>2. ~(j <= Len(a)) => j - Len(a) \in DOMAIN b
      BY <1>1
    <3> QED
      BY <1>1, <2>1, <3>1, <3>2 DEF Wides
  <2> QED
    BY <1>2, <2>1, <2>2, SeqEqual
<1>4. Narrows(c) = Narrows(a) \o Narrows(b)
  <2>1. /\ Narrows(a) \o Narrows(b) \in Seq(Nat) /\ Len(Narrows(a) \o Narrows(b)) = Len(c)
        /\ \A j \in 1..Len(c) :
             (Narrows(a) \o Narrows(b))[j] = IF j <= Len(a) THEN Narrows(a)[j] ELSE Narrows(b)[j - Len(a)]
    <3> DEFINE x == Narrows(a)
               y == Narrows(b)
    <3>1. /\ x \in Seq(Nat) /\ y \in Seq(Nat) /\ Len(x) = Len(a) /\ Len(y) = Len(b)
          /\ Len(x) + Len(y) = Len(c)
      BY <1>1, <1>2
    <3> HIDE DEF x, y
    <3>2. /\ x \o y \in Seq(Nat) /\ Len(x \o y) = Len(x) + Len(y)
          /\ \A j \in 1..(Len(x) + Len(y)) : (x \o y)[j] = IF j <= Len(x) THEN x[j] ELSE y[j - Len(x)]
      BY <3>1, ConcatProperties
    <3> QED
      BY <3>1, <3>2 DEF x, y
  <2>2. ASSUME NEW j \in 1..Len(c) PROVE Narrows(c)[j] = (Narrows(a) \o Narrows(b))[j]
    <3>1. j <= Len(a) => j \in DOMAIN a
      BY <1>1
    <3>2. ~(j <= Len(a)) => j - Len(a) \in DOMAIN b
      BY <1>1
    <3> QED
      BY <1>1, <2>1, <3>1, <3>2 DEF Narrows
  <2> QED
    BY <1>2, <2>1, <2>2, SeqEqual
<1>5. /\ SumFunction(Wides(c)) = SumFunction(Wides(a)) + SumFunction(Wides(b))
      /\ SumFunction(Narrows(c)) = SumFunction(Narrows(a)) + SumFunction(Narrows(b))
  BY <1>2, <1>3, <1>4, SumOfConcat
<1>6. \A t : cjk(t) = SumFunction(Wides(t)) /\ ascii(t) = SumFunction(Narrows(t))
  BY DEF cjk, ascii, Wides, Narrows
<1>7. cjk(c) = cjk(a) + cjk(b) /\ ascii(c) = ascii(a) + ascii(b)
  BY <1>5, <1>6
<1>8. cjk(a) \in Nat /\ cjk(b) \in Nat /\ ascii(a) \in Nat /\ ascii(b) \in Nat
  BY RunsCount
<1>9. WeightOf(c) = WeightOf(a) + WeightOf(b)
  BY <1>7, <1>8 DEF WeightOf
<1> QED
  BY <1>1, <1>9 DEF c

\* A text of one run, and of two.
LEMMA WeightOfOne ==
  ASSUME NEW w \in 1..4, NEW n \in Nat
  PROVE  /\ <<[w |-> w, n |-> n]>> \in Seq(Run)
         /\ WeightOf(<<[w |-> w, n |-> n]>>) = Weight(w, n)
<1> DEFINE t == <<[w |-> w, n |-> n]>>
<1>1. t \in Seq(Run) /\ Len(t) = 1 /\ t[1].w = w /\ t[1].n = n
  BY DEF Run
<1> HIDE DEF t
<1>2. /\ WeightTo(t, 0) = 0 /\ WeightTo(t, 1) = WeightOf(t)
      /\ WeightTo(t, 1) = WeightTo(t, 1 - 1) + Weight(t[1].w, t[1].n)
  <2>1. 1 \in 1..Len(t)
    BY <1>1
  <2> QED
    BY <1>1, <2>1, WeightGrows DEF WeightOf
<1>3. Weight(w, n) \in Nat
  BY RoundedNot
<1>4. WeightTo(t, 1) = WeightTo(t, 0) + Weight(w, n)
  BY <1>1, <1>2
<1>5. WeightOf(t) = Weight(w, n)
  BY <1>2, <1>3, <1>4
<1> QED
  BY <1>1, <1>5 DEF t

\* A text of two runs.
LEMMA WeightOfTwo ==
  ASSUME NEW v \in 1..4, NEW m \in Nat, NEW w \in 1..4, NEW n \in Nat
  PROVE  /\ <<[w |-> v, n |-> m], [w |-> w, n |-> n]>> \in Seq(Run)
         /\ WeightOf(<<[w |-> v, n |-> m], [w |-> w, n |-> n]>>) = Weight(v, m) + Weight(w, n)
<1> DEFINE a == <<[w |-> v, n |-> m]>>
           b == <<[w |-> w, n |-> n]>>
<1>1. /\ a \in Seq(Run) /\ b \in Seq(Run)
      /\ WeightOf(a) = Weight(v, m) /\ WeightOf(b) = Weight(w, n)
  BY WeightOfOne
<1>2. a \o b = <<[w |-> v, n |-> m], [w |-> w, n |-> n]>>
  <2>1. Len(a) = 1 /\ Len(b) = 1 /\ a[1] = [w |-> v, n |-> m] /\ b[1] = [w |-> w, n |-> n]
    OBVIOUS
  <2> DEFINE c == <<[w |-> v, n |-> m], [w |-> w, n |-> n]>>
  <2>2. c \in Seq(Run) /\ Len(c) = 2 /\ c[1] = [w |-> v, n |-> m] /\ c[2] = [w |-> w, n |-> n]
    BY DEF Run
  <2> HIDE DEF a, b, c
  <2>3. /\ a \o b \in Seq(Run) /\ Len(a \o b) = 2
        /\ \A j \in 1..2 : (a \o b)[j] = IF j <= 1 THEN a[j] ELSE b[j - 1]
    <3>1. /\ a \o b \in Seq(Run) /\ Len(a \o b) = Len(a) + Len(b)
          /\ \A j \in 1..(Len(a) + Len(b)) : (a \o b)[j] = IF j <= Len(a) THEN a[j] ELSE b[j - Len(a)]
      BY <1>1, ConcatProperties
    <3>2. Len(a) + Len(b) = 2
      BY <2>1
    <3> QED
      BY <2>1, <3>1, <3>2
  <2>4. \A j \in 1..2 : (a \o b)[j] = c[j]
    BY <2>1, <2>2, <2>3
  <2> QED
    BY <2>2, <2>3, <2>4, SeqEqual DEF c
<1> HIDE DEF a, b
<1> QED
  BY <1>1, <1>2, WeightOfConcat

\* Flattening texts gives a text.
AreTexts(s) == Len(s) \in Nat /\ \A j \in 1..Len(s) : s[j] \in Seq(Run)

\* What it leaves at the last row is a text.
LEMMA FlattenIsText ==
  ASSUME NEW s, AreTexts(s), Len(s) > 0
  PROVE  FlattenSeq(s) \in Seq(Run)
<1> DEFINE f == CHOOSE f : Flattens(f, s)
           X == {d \in Nat : d + 1 <= Len(s) => f[d + 1] \in Seq(Run)}
<1>0. Len(s) \in Nat /\ \A j \in 1..Len(s) : s[j] \in Seq(Run)
  BY DEF AreTexts
<1>1. Flattens(f, s)
  BY <1>0, FlattensExists
<1>2. FlattenSeq(s) = f[Len(s)]
  BY DEF FlattenSeq, Flattens
<1> HIDE DEF f
<1>3. \A j \in 1..Len(s) : f[j] = IF j = 1 THEN s[j] ELSE f[j - 1] \o s[j]
  BY <1>1 DEF Flattens
<1>4. 0 \in X
  BY <1>0, <1>3
<1>5. ASSUME NEW d \in Nat, d \in X, (d + 1) + 1 <= Len(s)
      PROVE  f[(d + 1) + 1] \in Seq(Run)
  <2>1. (d + 1) + 1 \in 1..Len(s) /\ (d + 1) + 1 # 1 /\ ((d + 1) + 1) - 1 = d + 1 /\ d + 1 <= Len(s)
    BY <1>0, <1>5
  <2>2. f[(d + 1) + 1] = f[d + 1] \o s[(d + 1) + 1]
    BY <1>3, <2>1
  <2>3. f[d + 1] \in Seq(Run) /\ s[(d + 1) + 1] \in Seq(Run)
    BY <1>0, <1>5, <2>1
  <2> QED
    BY <2>2, <2>3, ConcatProperties
<1>6. \A d \in Nat : d \in X => d + 1 \in X
  BY <1>5
<1> HIDE DEF X
<1>7. \A d \in Nat : d \in X
  BY <1>4, <1>6, Induction
<1>8. Len(s) - 1 \in Nat /\ (Len(s) - 1) + 1 = Len(s) /\ (Len(s) - 1) + 1 <= Len(s)
  BY <1>0
<1>9. f[(Len(s) - 1) + 1] \in Seq(Run)
  <2>1. Len(s) - 1 \in X
    BY <1>7, <1>8
  <2> QED
    BY <1>8, <2>1 DEF X
<1> QED
  BY <1>2, <1>8, <1>9

-----------------------------------------------------------------------------
(* What a summary and a cut question cost. *)

\* What is said in messages, joined.
LEMMA JoinedIsText ==
  ASSUME NEW ms \in Seq(Message), ms # <<>>
  PROVE  Joined(ms) \in Seq(Run)
<1> DEFINE said(j) == <<[w |-> 1, n |-> IF ms[j].role = "user" THEN 5 ELSE 10]>>
                        \o ms[j].text \o <<[w |-> 1, n |-> 1]>>
           s == [j \in 1..Len(ms) |-> said(j)]
<1>1. Len(ms) \in Nat /\ Len(ms) > 0
  BY EmptySeq
<1>2. \A j \in 1..Len(ms) : said(j) \in Seq(Run)
  <2> TAKE j \in 1..Len(ms)
  <2> DEFINE a == <<[w |-> 1, n |-> IF ms[j].role = "user" THEN 5 ELSE 10]>>
             b == <<[w |-> 1, n |-> 1]>>
             text == ms[j].text
  <2>1. a \in Seq(Run) /\ b \in Seq(Run)
    BY DEF Run
  <2>2. text \in Seq(Run)
    <3>1. ms[j] \in Message
      OBVIOUS
    <3> QED
      BY <3>1 DEF Message
  <2>3. said(j) = a \o text \o b
    OBVIOUS
  <2> HIDE DEF a, b, text, said
  <2>4. a \o text \in Seq(Run)
    BY <2>1, <2>2, ConcatProperties
  <2>5. (a \o text) \o b \in Seq(Run)
    BY <2>1, <2>4, ConcatProperties
  <2> QED
    BY <2>3, <2>5
<1> HIDE DEF said
<1>3. Len(s) = Len(ms) /\ \A j \in 1..Len(ms) : s[j] = said(j)
  <2>1. s \in [1..Len(ms) -> Seq(Run)]
    BY <1>2
  <2>2. s \in Seq(Seq(Run)) /\ DOMAIN s = 1..Len(ms)
    BY <1>1, <2>1, SeqDef
  <2> QED
    BY <1>1, <2>2
<1>4. AreTexts(s) /\ Len(s) > 0
  BY <1>1, <1>2, <1>3 DEF AreTexts
<1>5. Joined(ms) = FlattenSeq(s)
  BY DEF Joined, said
<1> HIDE DEF s
<1> QED
  BY <1>4, <1>5, FlattenIsText

\* A text that costs c weighs twenty times that or less.
LEMMA CostOfWeight ==
  ASSUME NEW t \in Seq(Run)
  PROVE  WeightOf(t) \in Nat /\ estimateTokens(t) = (WeightOf(t) + 19) \div 20
<1>1. cjk(t) \in Nat /\ ascii(t) \in Nat
  BY RunsCount
<1> QED
  BY <1>1 DEF WeightOf, estimateTokens, TokensOf

\* What a summary says weighs no more than 1600, which costs SummaryBudget.
LEMMA SummarySays ==
  ASSUME NEW ms \in Seq(Message), ms # <<>>
  PROVE  summarizeConversation(ms) \in Seq(Run) /\ WeightOf(summarizeConversation(ms)) <= 1600
<1> DEFINE joined == Joined(ms)
           lacks == Lacking(joined, HalfBytes)
           ellipsis == <<[w |-> 1, n |-> 10 - lacks], [w |-> 3, n |-> 2]>>
           head == FirstBytes(joined, HalfBytes)
           tail == LastBytes(joined, HalfBytes)
<1>1. joined \in Seq(Run)
  BY JoinedIsText
<1> HIDE DEF joined
<1>2. WeightOf(joined) \in Nat /\ estimateTokens(joined) = (WeightOf(joined) + 19) \div 20
  BY <1>1, CostOfWeight
<1>3. HalfBytes = 60 /\ SummaryBudget = 80 /\ 60 \in Nat
  BY DEF HalfBytes, SummaryBudget
<1>4. CASE estimateTokens(joined) <= 80
  <2>1. summarizeConversation(ms) = joined
    BY <1>3, <1>4 DEF summarizeConversation, joined
  <2>2. WeightOf(joined) <= 1600
    BY <1>2, <1>4
  <2> QED
    BY <1>1, <2>1, <2>2
<1>5. CASE ~(estimateTokens(joined) <= 80)
  <2>1. /\ head \in Seq(Run) /\ Bytes(joined) \in Nat /\ Bytes(head) \in Nat
        /\ Bytes(joined) <= 60 => head = joined
        /\ 60 < Bytes(joined) => 60 <= Bytes(head) /\ Bytes(head) <= 63
        /\ 14 * cjk(head) + 5 * ascii(head) <= 427
    <3> DEFINE k == HalfBytes
    <3>1. k \in Nat /\ k = 60
      BY <1>3
    <3> HIDE DEF k
    <3>a. FirstBytes(joined, k) \in Seq(Run)
      BY <1>1, <3>1, HeadBytes
    <3>b. Bytes(joined) \in Nat /\ Bytes(FirstBytes(joined, k)) \in Nat
      BY <1>1, <3>a, RunsCount
    <3>c. Bytes(joined) <= k => FirstBytes(joined, k) = joined
      BY <1>1, <3>1, HeadBytes
    <3>2. /\ FirstBytes(joined, k) \in Seq(Run)
          /\ Bytes(joined) \in Nat /\ Bytes(FirstBytes(joined, k)) \in Nat
          /\ Bytes(joined) <= k => FirstBytes(joined, k) = joined
      BY <3>a, <3>b, <3>c
    <3>3. k < Bytes(joined) => /\ k <= Bytes(FirstBytes(joined, k))
                               /\ Bytes(FirstBytes(joined, k)) <= k + 3
      BY <1>1, <3>1, HeadBytes
    <3>4. 14 * cjk(FirstBytes(joined, k)) + 5 * ascii(FirstBytes(joined, k)) <= 7 * k + 7
      BY <1>1, <3>1, HeadBytes
    <3>5. k + 3 = 63 /\ 7 * k + 7 = 427
      BY <3>1
    <3>6. head = FirstBytes(joined, k)
      BY DEF k
    <3> HIDE DEF head
    <3> QED
      BY <3>1, <3>2, <3>3, <3>4, <3>5, <3>6
  <2>2. lacks \in 0..3
    <3>1. Min({60, Bytes(joined)}) = IF 60 <= Bytes(joined) THEN 60 ELSE Bytes(joined)
      <4>1. 60 \in Int /\ Bytes(joined) \in Int
        BY <2>1
      <4> QED
        BY <4>1, OfTwo
    <3>2. lacks = Bytes(head) - Min({60, Bytes(joined)})
      BY <1>3 DEF Lacking
    <3> QED
      BY <2>1, <3>1, <3>2
  <2>3. tail \in Seq(Run) /\ WeightOf(tail) <= 420 /\ WeightOf(tail) \in Nat
    <3> DEFINE k == HalfBytes
    <3>1. k \in Nat /\ 7 * k = 420
      BY <1>3
    <3> HIDE DEF k
    <3>2. LastBytes(joined, k) \in Seq(Run) /\ WeightOf(LastBytes(joined, k)) <= 7 * k
      BY <1>1, <3>1, TailBytes DEF WeightOf
    <3>3. tail = LastBytes(joined, k)
      BY DEF k
    <3> HIDE DEF tail
    <3> QED
      BY <3>1, <3>2, <3>3, CostOfWeight
  <2>4. WeightOf(head) <= 427 /\ WeightOf(head) \in Nat
    BY <2>1, CostOfWeight DEF WeightOf
  <2>5. ellipsis \in Seq(Run) /\ WeightOf(ellipsis) <= 78 /\ WeightOf(ellipsis) \in Nat
    <3> HIDE DEF lacks
    <3>1. 10 - lacks \in Nat
      BY <2>2
    <3>2. ellipsis \in Seq(Run) /\ WeightOf(ellipsis) = Weight(1, 10 - lacks) + Weight(3, 2)
      BY <3>1, WeightOfTwo
    <3>3. Weight(1, 10 - lacks) = 5 * (10 - lacks) /\ Weight(3, 2) = 28
      BY DEF Weight
    <3> QED
      BY <2>2, <3>2, <3>3
  <2> HIDE DEF head, tail, ellipsis
  <2>6. head \o ellipsis \in Seq(Run) /\ WeightOf(head \o ellipsis) = WeightOf(head) + WeightOf(ellipsis)
    BY <2>1, <2>5, WeightOfConcat
  <2>7. /\ (head \o ellipsis) \o tail \in Seq(Run)
        /\ WeightOf((head \o ellipsis) \o tail) = WeightOf(head \o ellipsis) + WeightOf(tail)
    BY <2>3, <2>6, WeightOfConcat
  <2>8. summarizeConversation(ms) = (head \o ellipsis) \o tail
    BY <1>3, <1>5 DEF summarizeConversation, head, tail, ellipsis, joined
  <2>9. WeightOf((head \o ellipsis) \o tail) <= 1600
    BY <2>3, <2>4, <2>5, <2>6, <2>7
  <2> QED
    BY <2>7, <2>8, <2>9
<1> QED
  BY <1>4, <1>5

\* The message in front of the others costs SummaryMost, or less.
LEMMA SummaryCosts ==
  ASSUME NEW ms \in Seq(Message), ms # <<>>
  PROVE  Summary(ms) \in Message /\ Cost(Summary(ms)) <= SummaryMost /\ Cost(Summary(ms)) \in Nat
<1> DEFINE mark == <<[w |-> 1, n |-> 3], [w |-> 3, n |-> 6]>>
           said == summarizeConversation(ms)
           t == mark \o said
<1>1. mark \in Seq(Run) /\ WeightOf(mark) = 99
  <2>1. mark \in Seq(Run) /\ WeightOf(mark) = Weight(1, 3) + Weight(3, 6)
    BY WeightOfTwo
  <2>2. Weight(1, 3) = 15 /\ Weight(3, 6) = 84
    BY DEF Weight
  <2> QED
    BY <2>1, <2>2
<1>2. said \in Seq(Run) /\ WeightOf(said) <= 1600 /\ WeightOf(said) \in Nat
  BY SummarySays, CostOfWeight
<1> HIDE DEF mark, said
<1>3. t \in Seq(Run) /\ WeightOf(t) = 99 + WeightOf(said)
  BY <1>1, <1>2, WeightOfConcat
<1>4. Summary(ms) = [role |-> "system", text |-> t]
  BY DEF Summary, mark, said
<1> HIDE DEF t
<1>5. estimateTokens(t) = (WeightOf(t) + 19) \div 20 /\ WeightOf(t) \in Nat
  BY <1>3, CostOfWeight
<1>6. estimateTokens(t) <= 85
  BY <1>2, <1>3, <1>5
<1>7. estimateTokens(t) \in Nat
  BY <1>5
<1>8. Cost(Summary(ms)) = estimateTokens(t) + 4
  BY <1>4 DEF Cost, Overhead
<1>9. Summary(ms) \in Message
  BY <1>3, <1>4 DEF Message, Role
<1>10. SummaryMost = 89
  BY DEF SummaryMost, SummaryBudget, Overhead
<1> QED
  BY <1>6, <1>7, <1>8, <1>9, <1>10

\* A question cut to what is left of the budget is over it by a twentieth, or less.
LEMMA TruncatedCosts ==
  ASSUME NEW m \in Message, NEW b \in Int, b > Overhead
  PROVE  /\ Truncated(m, b) \in Message
         /\ Cost(Truncated(m, b)) <= b + (b + 22) \div 20
<1> DEFINE c == (b - Overhead) * 3
           t == FirstBytes(m.text, c)
<1>1. c \in Nat /\ c = 3 * b - 12
  BY DEF Overhead
<1> HIDE DEF c
<1>2. m.text \in Seq(Run)
  BY DEF Message
<1>3. t \in Seq(Run) /\ WeightOf(t) <= 7 * c + 7
  BY <1>1, <1>2, HeadBytes DEF WeightOf
<1>4. Truncated(m, b) \in Message /\ Truncated(m, b).text = t
  BY <1>3 DEF Truncated, Message, c
<1> HIDE DEF t
<1>5. estimateTokens(t) = (WeightOf(t) + 19) \div 20 /\ WeightOf(t) \in Nat
  BY <1>3, CostOfWeight
<1>6. Cost(Truncated(m, b)) = estimateTokens(t) + 4
  BY <1>4 DEF Cost, Overhead
<1> DEFINE x == WeightOf(t)
<1> HIDE DEF x
<1>7. x \in Nat /\ x <= 21 * b - 77 /\ estimateTokens(t) = (x + 19) \div 20
  BY <1>1, <1>3, <1>5 DEF x
<1>8. (x + 19) \div 20 + 4 <= b + (b + 22) \div 20
  BY <1>7
<1> QED
  BY <1>4, <1>6, <1>7, <1>8

-----------------------------------------------------------------------------
(* What the model reads is over the budget by little. *)

\* One message in front of others costs its own cost more.
LEMMA OneInFront ==
  ASSUME NEW m \in Message, NEW ms \in Seq(Message)
  PROVE  countMessagesTokens(<<m>> \o ms) = Cost(m) + countMessagesTokens(ms)
<1> DEFINE all == <<m>> \o ms
           c == <<Cost(m)>>
<1>1. /\ <<m>> \in Seq(Message) /\ Len(<<m>>) = 1 /\ <<m>>[1] = m /\ Len(ms) \in Nat
      /\ DOMAIN ms = 1..Len(ms)
  OBVIOUS
<1>2. /\ all \in Seq(Message) /\ Len(all) = 1 + Len(ms)
      /\ \A j \in 1..(1 + Len(ms)) : all[j] = IF j <= 1 THEN m ELSE ms[j - 1]
  <2> DEFINE x == <<m>>
  <2>1. x \in Seq(Message) /\ Len(x) = 1 /\ x[1] = m
    BY <1>1
  <2> HIDE DEF x
  <2>2. /\ x \o ms \in Seq(Message) /\ Len(x \o ms) = Len(x) + Len(ms)
        /\ \A j \in 1..(Len(x) + Len(ms)) : (x \o ms)[j] = IF j <= Len(x) THEN x[j] ELSE ms[j - Len(x)]
    BY <2>1, ConcatProperties
  <2>3. all = x \o ms
    BY DEF x
  <2> HIDE DEF all
  <2> QED
    BY <1>1, <2>1, <2>2, <2>3
<1>3. Cost(m) \in Nat
  BY CostType
<1>4. c \in Seq(Nat) /\ Len(c) = 1 /\ c[1] = Cost(m)
  BY <1>3
<1>5. /\ Costs(all) \in Seq(Nat) /\ Len(Costs(all)) = 1 + Len(ms)
      /\ Costs(ms) \in Seq(Nat) /\ Len(Costs(ms)) = Len(ms)
  BY <1>2, CostsType
<1> HIDE DEF all, c
<1>6. Costs(all) = c \o Costs(ms)
  <2>1. /\ c \o Costs(ms) \in Seq(Nat) /\ Len(c \o Costs(ms)) = Len(c) + Len(Costs(ms))
        /\ \A j \in 1..(Len(c) + Len(Costs(ms))) :
             (c \o Costs(ms))[j] = IF j <= Len(c) THEN c[j] ELSE Costs(ms)[j - Len(c)]
    <3> DEFINE y == Costs(ms)
    <3>1. c \in Seq(Nat) /\ y \in Seq(Nat)
      BY <1>4, <1>5
    <3> HIDE DEF y
    <3>2. /\ c \o y \in Seq(Nat) /\ Len(c \o y) = Len(c) + Len(y)
          /\ \A j \in 1..(Len(c) + Len(y)) : (c \o y)[j] = IF j <= Len(c) THEN c[j] ELSE y[j - Len(c)]
      BY <3>1, ConcatProperties
    <3> QED
      BY <3>2 DEF y
  <2>2. /\ Len(c \o Costs(ms)) = 1 + Len(ms)
        /\ \A j \in 1..(1 + Len(ms)) :
             (c \o Costs(ms))[j] = IF j <= 1 THEN c[j] ELSE Costs(ms)[j - 1]
    BY <1>1, <1>4, <1>5, <2>1
  <2>3. ASSUME NEW j \in 1..(1 + Len(ms)) PROVE Costs(all)[j] = (c \o Costs(ms))[j]
    <3>1. DOMAIN all = 1..(1 + Len(ms))
      BY <1>1, <1>2
    <3>2. Costs(all)[j] = Cost(all[j])
      BY <3>1 DEF Costs
    <3>3. j <= 1 => j = 1 /\ all[j] = m
      BY <1>2
    <3>4. ~(j <= 1) => j - 1 \in DOMAIN ms /\ all[j] = ms[j - 1] /\ Costs(ms)[j - 1] = Cost(ms[j - 1])
      BY <1>1, <1>2 DEF Costs
    <3> QED
      BY <1>4, <2>2, <3>2, <3>3, <3>4
  <2> QED
    BY <1>5, <2>1, <2>2, <2>3, SeqEqual
<1>7. SumFunction(Costs(all)) = SumFunction(c) + SumFunction(Costs(ms))
  BY <1>4, <1>5, <1>6, SumOfConcat
<1>8. SumFunction(c) = Cost(m)
  BY <1>3, SumOfSingleton DEF c
<1>9. /\ countMessagesTokens(all) = SumFunction(Costs(all))
      /\ countMessagesTokens(ms) = SumFunction(Costs(ms))
  BY DEF countMessagesTokens, Costs
<1> QED
  BY <1>7, <1>8, <1>9 DEF all

\* No message costs nothing, and one message its own cost.
LEMMA FewCost ==
  /\ countMessagesTokens(<<>>) = 0
  /\ \A m \in Message : countMessagesTokens(<<m>>) = Cost(m)
<1>1. countMessagesTokens(<<>>) = 0
  <2> DEFINE ms == <<>>
  <2>1. ms \in Seq(Message) /\ Len(ms) = 0
    OBVIOUS
  <2>2. countMessagesTokens(ms) = SumFunctionOnSet(Costs(ms), 1..Len(ms))
    BY <2>1, CostsType
  <2>3. 1..Len(ms) = {}
    BY <2>1
  <2> HIDE DEF ms
  <2>4. countMessagesTokens(ms) = 0
    BY <2>2, <2>3, SumOfNone
  <2> QED
    BY <2>4 DEF ms
<1>2. ASSUME NEW m \in Message PROVE countMessagesTokens(<<m>>) = Cost(m)
  <2>1. <<m>> \o <<>> = <<m>>
    BY ConcatEmptySeq
  <2>2. countMessagesTokens(<<m>> \o <<>>) = Cost(m) + countMessagesTokens(<<>>)
    <3>1. <<>> \in Seq(Message)
      OBVIOUS
    <3> QED
      BY <3>1, OneInFront
  <2>3. Cost(m) \in Nat
    BY CostType
  <2> QED
    BY <1>1, <2>1, <2>2, <2>3
<1> QED
  BY <1>1, <1>2

\* A summary adds SummaryMost, or less.
LEMMA BehindCosts ==
  ASSUME NEW o \in Seq(Message), NEW ms \in Seq(Message)
  PROVE  countMessagesTokens(Behind(o, ms)) <= countMessagesTokens(ms) + SummaryMost
<1>1. countMessagesTokens(ms) \in Nat /\ SummaryMost = 89
  BY CostsType DEF SummaryMost, SummaryBudget, Overhead
<1>2. CASE o = <<>>
  BY <1>1, <1>2 DEF Behind
<1>3. CASE o # <<>>
  <2>1. Summary(o) \in Message /\ Cost(Summary(o)) <= SummaryMost /\ Cost(Summary(o)) \in Nat
    BY <1>3, SummaryCosts
  <2>2. countMessagesTokens(<<Summary(o)>> \o ms) = Cost(Summary(o)) + countMessagesTokens(ms)
    BY <2>1, OneInFront
  <2> QED
    BY <1>1, <1>3, <2>1, <2>2 DEF Behind
<1> QED
  BY <1>2, <1>3

\* Of the invariant.
LEMMA MeasuredIsBounded == Measured => OverrunIsBounded
<1> SUFFICES ASSUME Measured, pc = "done", budget > 0
             PROVE  countMessagesTokens(result) <= budget + (budget + 22) \div 20 + SummaryMost
  BY DEF OverrunIsBounded
<1>0. /\ messages \in Seq(Message) /\ budget \in Int /\ Whole \in Nat /\ Whole = Len(messages)
      /\ result = Fit /\ (FitsAsItIs \/ \E k \in 0..Whole : Most(k))
  BY DEF Measured, Whole
<1>1. SummaryMost = 89
  BY DEF SummaryMost, SummaryBudget, Overhead
<1>2. (budget + 22) \div 20 \in Nat
  BY <1>0
<1>3. CASE FitsAsItIs
  <2>1. result = messages
    BY <1>0, <1>3 DEF Fit
  <2>2. countMessagesTokens(messages) <= budget
    BY <1>0, <1>3, FewCost DEF FitsAsItIs
  <2>3. countMessagesTokens(messages) \in Nat
    BY <1>0, CostsType
  <2> HIDE DEF SummaryMost
  <2> QED
    BY <1>0, <1>1, <1>2, <2>1, <2>2, <2>3
<1>4. CASE ~FitsAsItIs
  <2>1. PICK k \in 0..Whole : Most(k)
    BY <1>0, <1>4
  <2> DEFINE tail == TailOf(k)
             o == SubSeq(messages, 1, Whole - Len(tail))
  <2>2. result = Behind(o, tail)
    BY <1>0, <1>4, <2>1, FitOf
  <2>3. /\ tail \in Seq(Message) /\ Len(tail) <= Whole
        /\ countMessagesTokens(tail) <= budget + (budget + 22) \div 20
    <3>1. CASE k > 0
      <4>1. tail = Newest(k)
        BY <3>1 DEF TailOf
      <4>2. Newest(k) \in Seq(Message) /\ Len(Newest(k)) = k
        BY <1>0, NewestAre
      <4>3. countMessagesTokens(Newest(k)) = NewestCost(k) /\ NewestCost(k) \in Nat /\ NewestCost(k) <= budget
        BY <1>0, <2>1, NewestCosts DEF Most
      <4> HIDE DEF tail
      <4> QED
        BY <1>0, <1>2, <4>1, <4>2, <4>3
    <3>2. CASE ~(k > 0) /\ MayTruncate(messages[Whole], budget)
      <4>1. Whole > 0
        <5>1. messages # <<>>
          BY <1>4 DEF FitsAsItIs
        <5> QED
          BY <1>0, <5>1, EmptySeq
      <4> DEFINE cut == Truncated(messages[Whole], budget)
      <4>2. messages[Whole] \in Message
        BY <1>0, <4>1
      <4>3. budget > Overhead
        BY <3>2 DEF MayTruncate
      <4>4. cut \in Message /\ Cost(cut) <= budget + (budget + 22) \div 20
        BY <1>0, <4>2, <4>3, TruncatedCosts
      <4>5. tail = <<cut>>
        BY <3>2 DEF TailOf
      <4> HIDE DEF cut, tail
      <4>6. countMessagesTokens(<<cut>>) = Cost(cut)
        BY <4>4, FewCost
      <4>7. <<cut>> \in Seq(Message) /\ Len(<<cut>>) = 1 /\ 1 <= Whole
        BY <1>0, <4>1, <4>4
      <4> QED
        BY <4>4, <4>5, <4>6, <4>7
    <3>3. CASE ~(k > 0) /\ ~MayTruncate(messages[Whole], budget)
      <4>1. tail = <<>>
        BY <3>3 DEF TailOf
      <4> HIDE DEF tail
      <4>2. <<>> \in Seq(Message) /\ Len(<<>>) = 0
        OBVIOUS
      <4>3. 0 <= budget + (budget + 22) \div 20
        BY <1>0, <1>2
      <4> QED
        BY <1>0, <4>1, <4>2, <4>3, FewCost
    <3> QED
      BY <3>1, <3>2, <3>3
  <2> HIDE DEF tail
  <2>4. o \in Seq(Message)
    <3>1. Len(tail) \in Nat
      BY <2>3
    <3>2. Whole - Len(tail) \in 0..Len(messages)
      BY <1>0, <2>3, <3>1
    <3>3. \A j \in 1..(Whole - Len(tail)) : messages[j] \in Message
      BY <1>0, <3>2
    <3> QED
      BY <1>0, <3>2, <3>3, SubSeqProperties
  <2> HIDE DEF o
  <2>5. countMessagesTokens(result) <= countMessagesTokens(tail) + SummaryMost
    BY <2>2, <2>3, <2>4, BehindCosts
  <2>6. countMessagesTokens(tail) \in Nat
    BY <2>3, CostsType
  <2>7. countMessagesTokens(result) \in Int
    <3>1. CASE o = <<>>
      BY <2>2, <2>6, <3>1 DEF Behind
    <3>2. CASE o # <<>>
      <4>1. Summary(o) \in Message /\ Cost(Summary(o)) \in Nat
        BY <2>4, <3>2, SummaryCosts
      <4>2. countMessagesTokens(<<Summary(o)>> \o tail) = Cost(Summary(o)) + countMessagesTokens(tail)
        BY <2>3, <4>1, OneInFront
      <4> QED
        BY <2>2, <2>6, <3>2, <4>1, <4>2 DEF Behind
    <3> QED
      BY <3>1, <3>2
  <2> DEFINE x == countMessagesTokens(result)
             y == countMessagesTokens(tail)
             d == (budget + 22) \div 20
             s == SummaryMost
  <2>8. x <= y + s /\ y <= budget + d /\ x \in Int /\ y \in Int /\ d \in Int /\ s \in Int
    BY <1>1, <1>2, <2>3, <2>5, <2>6, <2>7
  <2> HIDE DEF x, y, d, s
  <2>9. x <= budget + d + s
    BY <1>0, <2>8
  <2> QED
    BY <2>9 DEF x, d, s
<1> QED
  BY <1>3, <1>4

\* For every conversation and every budget what the model reads is over the budget by a
\* summary and a twentieth, or less (ContextManager.cc:86-118, 129-155).
THEOREM OverrunCorrect == Spec => []OverrunIsBounded
<1> QED
  BY MeasuredInit, MeasuredStep, MeasuredIsBounded, PTL DEF Spec

-----------------------------------------------------------------------------
(* Types *)

LEMMA TypeStarts == Init => TypeOK
<1> SUFFICES ASSUME Init PROVE TypeOK
  OBVIOUS
<1>1. messages \in Seq(Message) /\ budget \in Int
  BY MeasuredInit DEF Measured
<1>2. 0 \in 0..Len(messages) /\ <<>> \in Seq(Message) /\ 0 \in Int
  BY <1>1
<1> QED
  BY <1>1, <1>2 DEF Init, TypeOK

LEMMA TypeSteps == TypeOK /\ [Next]_vars => TypeOK'
<1> SUFFICES ASSUME TypeOK, [Next]_vars PROVE TypeOK'
  OBVIOUS
<1>1. /\ messages \in Seq(Message) /\ budget \in Int /\ remaining \in Int
      /\ result \in Seq(Message) /\ Len(messages) \in Nat /\ i \in 0..Len(messages)
      /\ \A k \in 1..Len(messages) : messages[k] \in Message
  BY DEF TypeOK
<1>2. messages' = messages /\ budget' = budget
  BY DEF Next, vars, ReturnAll, Begin, Keep, Stop, Summarise
<1>3. ASSUME NEW m \in Message, NEW ms \in Seq(Message) PROVE <<m>> \o ms \in Seq(Message)
  OBVIOUS
<1>4. CASE ReturnAll
  BY <1>1, <1>2, <1>4 DEF ReturnAll, TypeOK
<1>5. CASE Begin
  <2>1. Len(messages) \in 0..Len(messages)
    BY <1>1
  <2> QED
    BY <1>1, <1>2, <1>5, <2>1 DEF Begin, TypeOK
<1>6. CASE Keep
  <2>1. i \in 1..Len(messages) /\ i - 1 \in 0..Len(messages)
    BY <1>1, <1>6 DEF Keep
  <2>2. messages[i] \in Message
    BY <1>1, <2>1
  <2>3. Cost(messages[i]) \in Int
    BY <2>2, CostType
  <2>4. remaining - Cost(messages[i]) \in Int /\ <<messages[i]>> \o result \in Seq(Message)
    BY <1>1, <1>3, <2>2, <2>3
  <2> QED
    BY <1>1, <1>2, <1>6, <2>1, <2>4 DEF Keep, TypeOK
<1>7. CASE Stop
  <2>1. i > 0 /\ MayTruncate(messages[i], remaining)
            => <<Truncated(messages[i], remaining)>> \in Seq(Message)
    <3> SUFFICES ASSUME i > 0, MayTruncate(messages[i], remaining)
                 PROVE  Truncated(messages[i], remaining) \in Message
      OBVIOUS
    <3>1. messages[i] \in Message
      BY <1>1
    <3> QED
      BY <1>1, <3>1, TruncatedCosts DEF MayTruncate
  <2>2. result' \in Seq(Message)
    BY <1>1, <1>7, <2>1 DEF Stop
  <2> QED
    BY <1>1, <1>2, <1>7, <2>2 DEF Stop, TypeOK
<1>8. CASE Summarise
  <2> DEFINE overflow == SubSeq(messages, 1, Len(messages) - Len(result))
  <2>1. overflow \in Seq(Message)
    <3>1. Len(messages) - Len(result) \in Int /\ Len(messages) - Len(result) <= Len(messages)
      BY <1>1
    <3>2. \A k \in 1..(Len(messages) - Len(result)) : messages[k] \in Message
      BY <1>1, <3>1
    <3> QED
      BY <3>1, <3>2, SubSeqProperties
  <2>2. result' = Behind(overflow, result)
    BY <1>8 DEF Summarise
  <2> HIDE DEF overflow
  <2>3. overflow # <<>> => Summary(overflow) \in Message
    BY <2>1, SummaryCosts
  <2>4. result' \in Seq(Message)
    BY <1>1, <1>3, <2>2, <2>3 DEF Behind
  <2> QED
    BY <1>1, <1>2, <1>8, <2>4 DEF Summarise, TypeOK
<1>9. CASE UNCHANGED vars
  BY <1>9 DEF vars, TypeOK
<1> QED
  BY <1>4, <1>5, <1>6, <1>7, <1>8, <1>9 DEF Next

\* The fitting stays within its types: what it keeps, cuts and writes are messages.
THEOREM TypeCorrect == Spec => []TypeOK
BY TypeStarts, TypeSteps, PTL DEF Spec

-----------------------------------------------------------------------------
(* Picking elements, and putting sequences in a row *)

\* Putting an element behind a row of two.
Adds(a, b, e) == Append(a \o b, e) = a \o Append(b, e)

LEMMA AppendBehind ==
  ASSUME NEW S, NEW a \in Seq(S), NEW b \in Seq(S), NEW e \in S
  PROVE  Adds(a, b, e)
<1>1. a \o b \in Seq(S) /\ <<e>> \in Seq(S)
  OBVIOUS
<1>2. Append(a \o b, e) = (a \o b) \o <<e>> /\ Append(b, e) = b \o <<e>>
  BY <1>1, AppendIsConcat
<1> QED
  BY <1>1, <1>2, ConcatAssociative DEF Adds

\* F[k] are the elements picked among the first k.
PicksUpTo(F, s, I) ==
    /\ F[0] = <<>>
    /\ \A k \in 1..Len(s) : F[k] = IF k \in I THEN Append(F[k - 1], s[k]) ELSE F[k - 1]

\* The function in Picked exists.
LEMMA PickedUnfolds ==
  ASSUME NEW S, NEW s \in Seq(S), NEW I
  PROVE  \E F \in [0..Len(s) -> Seq(S)] : PicksUpTo(F, s, I) /\ Picked(s, I) = F[Len(s)]
<1> DEFINE n == Len(s)
           Is(f) == f = [k \in 0..n |-> IF k = 0 THEN <<>>
                                        ELSE IF k \in I THEN Append(f[k - 1], s[k])
                                        ELSE f[k - 1]]
           step == [x \in (1..n) \X Seq(S) |-> IF x[1] \in I THEN Append(x[2], s[x[1]]) ELSE x[2]]
<1>1. n \in Nat /\ \A k \in 1..n : s[k] \in S
  OBVIOUS
<1> HIDE DEF n
<1>2. step \in [(1..n) \X Seq(S) -> Seq(S)]
  BY <1>1
<1>3. <<>> \in Seq(S)
  OBVIOUS
<1>4. PICK f \in [0..n -> Seq(S)] : Iterates(f, <<>>, n, step)
  <2> HIDE DEF step
  <2> QED
    BY <1>1, <1>2, <1>3, Iteration
<1>5. \A k \in 1..n : k - 1 \in 0..n /\ f[k - 1] \in Seq(S) /\ <<k, f[k - 1]>> \in (1..n) \X Seq(S)
  BY <1>1, <1>4
<1>6. \A k \in 1..n : f[k] = IF k \in I THEN Append(f[k - 1], s[k]) ELSE f[k - 1]
  <2> TAKE k \in 1..n
  <2>1. f[k] = step[<<k, f[k - 1]>>]
    BY <1>4 DEF Iterates
  <2> QED
    BY <1>5, <2>1
<1>7. Is(f)
  <2>1. f[0] = <<>>
    BY <1>4 DEF Iterates
  <2>2. \A k \in 0..n : k = 0 \/ k \in 1..n
    BY <1>1
  <2> HIDE DEF step
  <2> QED
    BY <1>4, <1>6, <2>1, <2>2
<1> DEFINE F == CHOOSE g : Is(g)
<1>8. Is(F)
  BY <1>7
<1>9. Picked(s, I) = F[n]
  BY DEF Picked, n
<1> HIDE DEF F
<1>10. /\ DOMAIN F = 0..n /\ F[0] = <<>>
       /\ \A k \in 1..n : F[k] = IF k \in I THEN Append(F[k - 1], s[k]) ELSE F[k - 1]
  <2>1. 0 \in 0..n /\ \A k \in 1..n : k \in 0..n /\ k # 0
    BY <1>1
  <2> QED
    BY <1>8, <2>1
<1> HIDE DEF Is
<1> DEFINE X == {k \in Nat : k <= n => F[k] \in Seq(S)}
<1>11. 0 \in X
  BY <1>3, <1>10
<1>12. ASSUME NEW k \in Nat, k \in X PROVE k + 1 \in X
  <2>1. ASSUME k + 1 <= n PROVE F[k + 1] \in Seq(S)
    <3>1. k + 1 \in 1..n /\ (k + 1) - 1 = k /\ k <= n
      BY <1>1, <2>1
    <3>2. F[k] \in Seq(S) /\ s[k + 1] \in S
      BY <1>1, <1>12, <3>1
    <3>3. Append(F[k], s[k + 1]) \in Seq(S)
      BY <3>2, AppendProperties
    <3>4. F[k + 1] = Append(F[k], s[k + 1]) \/ F[k + 1] = F[k]
      BY <1>10, <3>1
    <3> QED
      BY <3>2, <3>3, <3>4
  <2> QED
    BY <2>1
<1> HIDE DEF X
<1>13. \A k \in Nat : k \in X
  BY <1>11, <1>12, Induction
<1>14. F \in [0..n -> Seq(S)]
  <2>1. \A k \in 0..n : F[k] \in Seq(S)
    BY <1>1, <1>13 DEF X
  <2>2. F = [k \in 0..n |-> F[k]]
    BY <1>8, <1>10 DEF Is
  <2> QED
    BY <2>1, <2>2
<1> QED
  BY <1>9, <1>10, <1>14 DEF PicksUpTo, n

LEMMA PickedType ==
  ASSUME NEW S, NEW s \in Seq(S), NEW I
  PROVE  Picked(s, I) \in Seq(S)
BY PickedUnfolds

\* What is picked in a row of two is what is picked in the one and in the other.
LEMMA PickedConcat ==
  ASSUME NEW S, NEW a \in Seq(S), NEW b \in Seq(S), NEW I, NEW J, NEW K,
         \A k \in 1..Len(a) : k \in I <=> k \in J,
         \A k \in 1..Len(b) : Len(a) + k \in I <=> k \in K
  PROVE  Picked(a \o b, I) = Picked(a, J) \o Picked(b, K)
<1> DEFINE m == Len(a)  n == Len(b)  c == a \o b
<1>1. /\ m \in Nat /\ n \in Nat /\ c \in Seq(S) /\ Len(c) = m + n
      /\ \A k \in 1..m : c[k] = a[k]
      /\ \A k \in 1..n : c[m + k] = b[k]
  OBVIOUS
<1>2. /\ \A k \in 1..m : k \in I <=> k \in J
      /\ \A k \in 1..n : m + k \in I <=> k \in K
  OBVIOUS
<1> HIDE DEF c
<1>3. PICK F \in [0..Len(c) -> Seq(S)] : PicksUpTo(F, c, I) /\ Picked(c, I) = F[Len(c)]
  <2>1. c \in Seq(S)
    BY <1>1
  <2> QED
    BY <2>1, PickedUnfolds
<1>4. PICK A \in [0..m -> Seq(S)] : PicksUpTo(A, a, J) /\ Picked(a, J) = A[m]
  BY PickedUnfolds
<1>5. PICK B \in [0..n -> Seq(S)] : PicksUpTo(B, b, K) /\ Picked(b, K) = B[n]
  BY PickedUnfolds
<1> HIDE DEF m, n
<1>6. /\ F[0] = <<>>
      /\ \A k \in 1..(m + n) : F[k] = IF k \in I THEN Append(F[k - 1], c[k]) ELSE F[k - 1]
      /\ A[0] = <<>> /\ \A k \in 1..m : A[k] = IF k \in J THEN Append(A[k - 1], a[k]) ELSE A[k - 1]
      /\ B[0] = <<>> /\ \A k \in 1..n : B[k] = IF k \in K THEN Append(B[k - 1], b[k]) ELSE B[k - 1]
  BY <1>1, <1>3, <1>4, <1>5 DEF PicksUpTo, m, n
<1> DEFINE X == {k \in Nat : k <= m => F[k] = A[k]}
           Y == {k \in Nat : k <= n => F[m + k] = A[m] \o B[k]}
<1>7. \A k \in Nat : k \in X
  <2>1. 0 \in X
    BY <1>6
  <2>2. ASSUME NEW k \in Nat, k \in X PROVE k + 1 \in X
    <3>1. ASSUME k + 1 <= m PROVE F[k + 1] = A[k + 1]
      <4>1. k + 1 \in 1..m /\ k + 1 \in 1..(m + n) /\ (k + 1) - 1 = k /\ k <= m
        BY <1>1, <3>1
      <4>2. F[k] = A[k]
        BY <2>2, <4>1
      <4>3. c[k + 1] = a[k + 1]
        BY <1>1, <4>1
      <4>4. k + 1 \in I <=> k + 1 \in J
        BY <1>2, <4>1
      <4>5. F[k + 1] = IF k + 1 \in I THEN Append(F[k], c[k + 1]) ELSE F[k]
        BY <1>6, <4>1
      <4>6. A[k + 1] = IF k + 1 \in J THEN Append(A[k], a[k + 1]) ELSE A[k]
        BY <1>6, <4>1
      <4> QED
        BY <4>2, <4>3, <4>4, <4>5, <4>6
    <3> QED
      BY <3>1
  <2> HIDE DEF X
  <2> QED
    BY <2>1, <2>2, Induction
<1>8. \A k \in Nat : k \in Y
  <2>1. 0 \in Y
    <3>1. F[m + 0] = A[m] /\ A[m] \in Seq(S)
      BY <1>1, <1>4, <1>7
    <3>2. A[m] \o <<>> = A[m]
      BY <3>1
    <3> QED
      BY <1>6, <3>1, <3>2
  <2>2. ASSUME NEW k \in Nat, k \in Y PROVE k + 1 \in Y
    <3>1. ASSUME k + 1 <= n PROVE F[m + (k + 1)] = A[m] \o B[k + 1]
      <4>1. /\ k + 1 \in 1..n /\ (k + 1) - 1 = k /\ k <= n /\ k \in 0..n
            /\ m + (k + 1) \in 1..(m + n) /\ (m + (k + 1)) - 1 = m + k
        BY <1>1, <3>1
      <4>2. A[m] \in Seq(S) /\ B[k] \in Seq(S) /\ b[k + 1] \in S
        <5>1. b[k + 1] \in S
          BY <4>1 DEF n
        <5>2. A[m] \in Seq(S)
          BY <1>1, <1>4
        <5> QED
          BY <1>5, <4>1, <5>1, <5>2
      <4>3. Append(A[m] \o B[k], b[k + 1]) = A[m] \o Append(B[k], b[k + 1])
        <5>1. Adds(A[m], B[k], b[k + 1])
          BY <4>2, AppendBehind
        <5> QED
          BY <5>1 DEF Adds
      <4>4. F[m + k] = A[m] \o B[k]
        BY <2>2, <4>1
      <4>5. c[m + (k + 1)] = b[k + 1]
        BY <1>1, <4>1
      <4>6. m + (k + 1) \in I <=> k + 1 \in K
        BY <1>2, <4>1
      <4>7. F[m + (k + 1)] = IF m + (k + 1) \in I THEN Append(F[m + k], c[m + (k + 1)]) ELSE F[m + k]
        BY <1>6, <4>1
      <4>8. B[k + 1] = IF k + 1 \in K THEN Append(B[k], b[k + 1]) ELSE B[k]
        BY <1>6, <4>1
      <4> QED
        BY <4>3, <4>4, <4>5, <4>6, <4>7, <4>8
    <3>2. k + 1 \in Nat
      OBVIOUS
    <3> QED
      BY <3>1, <3>2, Zenon
  <2> HIDE DEF Y
  <2> QED
    BY <2>1, <2>2, Induction
<1>9. n \in Nat /\ n \in Y /\ Len(c) = m + n
  BY <1>1, <1>8
<1>10. F[Len(c)] = A[m] \o B[n]
  BY <1>9
<1> QED
  BY <1>3, <1>4, <1>5, <1>10 DEF c

\* Nothing is picked where there are no places, and all where there are all.
LEMMA PickedNone ==
  ASSUME NEW S, NEW s \in Seq(S), NEW I, \A k \in 1..Len(s) : k \notin I
  PROVE  Picked(s, I) = <<>>
<1> DEFINE n == Len(s)
<1>1. PICK F \in [0..n -> Seq(S)] : PicksUpTo(F, s, I) /\ Picked(s, I) = F[n]
  BY PickedUnfolds
<1>2. n \in Nat /\ F[0] = <<>> /\ \A k \in 1..n : F[k] = F[k - 1]
  BY <1>1 DEF PicksUpTo
<1> HIDE DEF n
<1> DEFINE X == {k \in Nat : k <= n => F[k] = <<>>}
<1>3. 0 \in X
  BY <1>2
<1>4. ASSUME NEW k \in Nat, k \in X PROVE k + 1 \in X
  <2>1. ASSUME k + 1 <= n PROVE F[k + 1] = <<>>
    <3>1. k + 1 \in 1..n /\ (k + 1) - 1 = k /\ k <= n
      BY <1>2, <2>1
    <3> QED
      BY <1>2, <1>4, <3>1
  <2> QED
    BY <2>1
<1> HIDE DEF X
<1>5. \A k \in Nat : k \in X
  BY <1>3, <1>4, Induction
<1> QED
  BY <1>1, <1>2, <1>5 DEF X

LEMMA PickedAll ==
  ASSUME NEW S, NEW s \in Seq(S), NEW I, \A k \in 1..Len(s) : k \in I
  PROVE  Picked(s, I) = s
<1> DEFINE n == Len(s)
<1>1. PICK F \in [0..n -> Seq(S)] : PicksUpTo(F, s, I) /\ Picked(s, I) = F[n]
  BY PickedUnfolds
<1>2. n \in Nat /\ F[0] = <<>> /\ \A k \in 1..n : F[k] = Append(F[k - 1], s[k])
  <2>1. n \in Nat
    OBVIOUS
  <2>2. \A k \in 1..n : F[k] = IF k \in I THEN Append(F[k - 1], s[k]) ELSE F[k - 1]
    BY <1>1 DEF PicksUpTo
  <2> QED
    BY <1>1, <2>1, <2>2 DEF PicksUpTo
<1>3. \A k \in 1..n : s[k] \in S
  OBVIOUS
<1> HIDE DEF n
<1> DEFINE X == {k \in Nat : k <= n => Len(F[k]) = k /\ \A j \in 1..k : F[k][j] = s[j]}
<1>4. 0 \in X
  <2>1. Len(F[0]) = 0
    BY <1>2
  <2> QED
    BY <2>1
<1>5. ASSUME NEW k \in Nat, k \in X PROVE k + 1 \in X
  <2>1. ASSUME k + 1 <= n
        PROVE  Len(F[k + 1]) = k + 1 /\ \A j \in 1..(k + 1) : F[k + 1][j] = s[j]
    <3>1. k + 1 \in 1..n /\ (k + 1) - 1 = k /\ k <= n /\ k \in 0..n
      BY <1>2, <2>1
    <3>2. F[k] \in Seq(S) /\ Len(F[k]) = k /\ \A j \in 1..k : F[k][j] = s[j]
      BY <1>1, <1>5, <3>1
    <3>3. F[k + 1] = Append(F[k], s[k + 1]) /\ s[k + 1] \in S
      BY <1>2, <1>3, <3>1
    <3> QED
      BY <3>2, <3>3
  <2> QED
    BY <2>1
<1> HIDE DEF X
<1>6. \A k \in Nat : k \in X
  BY <1>4, <1>5, Induction
<1>7. Len(F[n]) = n /\ (\A j \in 1..n : F[n][j] = s[j]) /\ F[n] \in Seq(S)
  <2>1. n \in X /\ n \in 0..n /\ n <= n
    BY <1>2, <1>6
  <2> QED
    BY <1>1, <2>1 DEF X
<1> QED
  BY <1>1, <1>7, SeqEqual DEF n

-----------------------------------------------------------------------------
\* q[k] are the first k sequences of s in a row.
RowOf(q, s) == q[0] = <<>> /\ \A k \in 1..Len(s) : q[k] = q[k - 1] \o s[k]

LEMMA RowExists ==
  ASSUME NEW S, NEW s \in Seq(Seq(S))
  PROVE  \E q \in [0..Len(s) -> Seq(S)] : RowOf(q, s)
<1> DEFINE n == Len(s)
           step == [x \in (1..n) \X Seq(S) |-> x[2] \o s[x[1]]]
<1>1. n \in Nat /\ \A k \in 1..n : s[k] \in Seq(S)
  <2>1. \A k \in 1..n : s[k] \in Seq(S)
    OBVIOUS
  <2>2. n \in Nat
    OBVIOUS
  <2> QED
    BY <2>1, <2>2
<1> HIDE DEF n
<1>2. step \in [(1..n) \X Seq(S) -> Seq(S)]
  <2>1. ASSUME NEW x \in (1..n) \X Seq(S) PROVE x[2] \o s[x[1]] \in Seq(S)
    <3>1. x[2] \in Seq(S) /\ s[x[1]] \in Seq(S)
      BY <1>1, <2>1
    <3> QED
      BY <3>1, ConcatProperties
  <2> QED
    BY <2>1
<1>3. <<>> \in Seq(S)
  OBVIOUS
<1>4. PICK q \in [0..n -> Seq(S)] : Iterates(q, <<>>, n, step)
  <2> HIDE DEF step
  <2> QED
    BY <1>1, <1>2, <1>3, Iteration
<1>5. \A k \in 1..n : q[k] = q[k - 1] \o s[k]
  <2> TAKE k \in 1..n
  <2>1. k - 1 \in 0..n /\ q[k - 1] \in Seq(S) /\ <<k, q[k - 1]>> \in (1..n) \X Seq(S)
    BY <1>1, <1>4
  <2>2. q[k] = step[<<k, q[k - 1]>>]
    BY <1>4 DEF Iterates
  <2> QED
    BY <2>1, <2>2
<1>6. RowOf(q, s)
  BY <1>4, <1>5 DEF RowOf, Iterates, n
<1> QED
  BY <1>4, <1>6 DEF n

LEMMA FlattenIsRow ==
  ASSUME NEW S, NEW s \in Seq(Seq(S)), NEW q, RowOf(q, s)
  PROVE  FlattenSeq(s) = q[Len(s)]
<1> DEFINE n == Len(s)
           f == CHOOSE g : Flattens(g, s)
<1>1. n \in Nat /\ \A k \in 1..n : s[k] \in Seq(S)
  <2>1. \A k \in 1..n : s[k] \in Seq(S)
    OBVIOUS
  <2>2. n \in Nat
    OBVIOUS
  <2> QED
    BY <2>1, <2>2
<1>2. CASE n = 0
  <2>1. s = <<>>
    BY <1>2
  <2> QED
    BY <1>2, <2>1 DEF FlattenSeq, RowOf
<1>3. CASE n # 0
  <2>1. Flattens(f, s)
    BY <1>1, FlattensExists
  <2>2. FlattenSeq(s) = f[n]
    BY <1>3 DEF FlattenSeq, Flattens
  <2> HIDE DEF f
  <2>3. \A j \in 1..n : f[j] = IF j = 1 THEN s[j] ELSE f[j - 1] \o s[j]
    BY <2>1 DEF Flattens
  <2>4. q[0] = <<>> /\ \A k \in 1..n : q[k] = q[k - 1] \o s[k]
    BY DEF RowOf
  <2> HIDE DEF n
  <2> DEFINE X == {k \in Nat : k + 1 <= n => f[k + 1] = q[k + 1]}
  <2>5. 0 \in X
    <3>1. ASSUME 1 <= n PROVE f[1] = q[1]
      <4>1. 1 \in 1..n /\ s[1] \in Seq(S)
        BY <1>1, <3>1
      <4>2. q[1] = q[1 - 1] \o s[1]
        BY <2>4, <4>1, Zenon
      <4>3. f[1] = s[1]
        BY <2>3, <4>1
      <4>4. q[1] = <<>> \o s[1]
        <5>1. 1 - 1 = 0
          OBVIOUS
        <5> QED
          BY <2>4, <4>2, <5>1
      <4> QED
        BY <4>1, <4>3, <4>4, ConcatEmptySeq
    <3> QED
      BY <3>1
  <2>6. ASSUME NEW k \in Nat, k \in X PROVE k + 1 \in X
    <3>1. ASSUME (k + 1) + 1 <= n PROVE f[(k + 1) + 1] = q[(k + 1) + 1]
      <4>1. (k + 1) + 1 \in 1..n /\ (k + 1) + 1 # 1 /\ ((k + 1) + 1) - 1 = k + 1 /\ k + 1 <= n
        BY <1>1, <3>1
      <4>2. f[k + 1] = q[k + 1]
        BY <2>6, <4>1
      <4>3. f[(k + 1) + 1] = f[((k + 1) + 1) - 1] \o s[(k + 1) + 1]
        BY <2>3, <4>1, Zenon
      <4>4. q[(k + 1) + 1] = q[((k + 1) + 1) - 1] \o s[(k + 1) + 1]
        BY <2>4, <4>1, Zenon
      <4> QED
        BY <4>1, <4>2, <4>3, <4>4
    <3> QED
      BY <3>1
  <2> HIDE DEF X
  <2>7. \A k \in Nat : k \in X
    BY <2>5, <2>6, Induction
  <2>8. n - 1 \in Nat /\ (n - 1) + 1 = n
    BY <1>1, <1>3
  <2>9. f[n] = q[n]
    BY <1>1, <2>7, <2>8 DEF X
  <2> QED
    BY <2>2, <2>9 DEF n
<1> QED
  BY <1>2, <1>3

\* A sequence put behind the others is behind them in the row.
LEMMA FlattenAppend ==
  ASSUME NEW S, NEW P \in Seq(Seq(S)), NEW w \in Seq(S)
  PROVE  /\ FlattenSeq(Append(P, w)) = FlattenSeq(P) \o w
         /\ FlattenSeq(P) \in Seq(S)
<1> DEFINE n == Len(P)  R == Append(P, w)
<1>1. n \in Nat /\ R \in Seq(Seq(S)) /\ Len(R) = n + 1 /\ R[n + 1] = w /\ \A k \in 1..n : R[k] = P[k]
  <2>1. w \in Seq(S)
    OBVIOUS
  <2> QED
    BY <2>1, AppendProperties
<1> HIDE DEF R
<1>2. PICK q \in [0..(n + 1) -> Seq(S)] : RowOf(q, R)
  <2>1. R \in Seq(Seq(S))
    BY <1>1
  <2>2. PICK q \in [0..Len(R) -> Seq(S)] : RowOf(q, R)
    BY <2>1, RowExists
  <2> QED
    BY <1>1, <2>2
<1>3. q[0] = <<>> /\ \A k \in 1..(n + 1) : q[k] = q[k - 1] \o R[k]
  BY <1>1, <1>2 DEF RowOf
<1>4. RowOf(q, P)
  <2>1. \A k \in 1..n : k \in 1..(n + 1) /\ R[k] = P[k]
    BY <1>1
  <2>2. \A k \in 1..n : q[k] = q[k - 1] \o P[k]
    BY <1>3, <2>1
  <2> HIDE DEF R
  <2> QED
    BY <1>3, <2>2 DEF RowOf, n
<1>5. FlattenSeq(P) = q[n]
  BY <1>4, FlattenIsRow
<1>6. FlattenSeq(R) = q[n + 1]
  BY <1>1, <1>2, FlattenIsRow
<1>7. q[n + 1] = q[n] \o w /\ q[n] \in Seq(S)
  <2>1. n + 1 \in 1..(n + 1) /\ (n + 1) - 1 = n /\ n \in 0..(n + 1)
    BY <1>1
  <2> QED
    BY <1>1, <1>2, <1>3, <2>1
<1> QED
  BY <1>5, <1>6, <1>7 DEF R

LEMMA FlattenNone == FlattenSeq(<<>>) = <<>>
BY DEF FlattenSeq

\* What is picked has been at one of the places.
LEMMA PickedIn ==
  ASSUME NEW S, NEW T, NEW s \in Seq(S), NEW I, \A k \in 1..Len(s) : k \in I => s[k] \in T
  PROVE  Picked(s, I) \in Seq(T)
<1> DEFINE n == Len(s)
<1>1. PICK F \in [0..n -> Seq(S)] : PicksUpTo(F, s, I) /\ Picked(s, I) = F[n]
  BY PickedUnfolds
<1>2. n \in Nat /\ F[0] = <<>>
  BY <1>1 DEF PicksUpTo
<1>3. \A k \in 1..n : F[k] = IF k \in I THEN Append(F[k - 1], s[k]) ELSE F[k - 1]
  BY <1>1 DEF PicksUpTo
<1>4. \A k \in 1..n : k \in I => s[k] \in T
  OBVIOUS
<1> HIDE DEF n
<1> DEFINE X == {k \in Nat : k <= n => F[k] \in Seq(T)}
<1>5. 0 \in X
  <2>1. <<>> \in Seq(T)
    OBVIOUS
  <2> QED
    BY <1>2, <2>1
<1>6. ASSUME NEW k \in Nat, k \in X PROVE k + 1 \in X
  <2>1. ASSUME k + 1 <= n PROVE F[k + 1] \in Seq(T)
    <3>1. k + 1 \in 1..n /\ (k + 1) - 1 = k /\ k <= n
      BY <1>2, <2>1
    <3>2. F[k] \in Seq(T)
      BY <1>6, <3>1
    <3>3. F[k + 1] = IF k + 1 \in I THEN Append(F[k], s[k + 1]) ELSE F[k]
      BY <1>3, <3>1
    <3>4. k + 1 \in I => Append(F[k], s[k + 1]) \in Seq(T)
      <4>1. k + 1 \in I => s[k + 1] \in T
        BY <1>4, <3>1
      <4> QED
        BY <3>2, <4>1, AppendProperties
    <3> QED
      BY <3>2, <3>3, <3>4
  <2> QED
    BY <2>1
<1> HIDE DEF X
<1>7. \A k \in Nat : k \in X
  BY <1>5, <1>6, Induction
<1> QED
  BY <1>1, <1>2, <1>7 DEF X

-----------------------------------------------------------------------------
(* What a history is made of, and what a family makes of each entry *)

Names == {""} \cup ToolNames
Id == {""} \cup ({"call", "toolu"} \X Nat \X Nat) \cup ({"call_gemini"} \X Names \X Nat)
CallRec == [name : Names, args : Argument, id : Id]
EntryRec ==
    [role : {"user", "assistant", "system", "tool"}, text : Int, calls : Seq(CallRec),
     of : Id, name : Names]

\* Only answers of a model have calls.
Speaks(m) == m.calls # <<>> => m.role = "assistant"

Key == Id \cup Names
Part ==
    [kind : {"text"}, text : Int]
        \cup [kind : {"call"}, key : Key, args : Argument \cup {"{}", "{value}"}]
        \cup [kind : {"result"}, key : Key, text : Int]

KeyOf(family, c) == IF family = "gemini" THEN c.name ELSE c.id

ArgsOf(family, args) ==
    IF family = "openai" THEN args
    ELSE IF family = "claude" THEN ClaudeInput(args) ELSE GeminiArgs(args)

\* The text or the result of an entry, and its calls.
FrontOf(family, m) ==
    IF m.role = "system" /\ family # "openai" THEN <<>>
    ELSE IF m.role = "tool" THEN <<Result(IF family = "gemini" THEN m.name ELSE m.of, m.text)>>
    ELSE IF IsTold(family, m) THEN <<TextPart(m.text)>> ELSE <<>>

CallsOf(family, m) ==
    [j \in DOMAIN m.calls |-> Call(KeyOf(family, m.calls[j]), ArgsOf(family, m.calls[j].args))]

PiecesOf(family, m) == FrontOf(family, m) \o CallsOf(family, m)

LEMMA FrontType ==
  ASSUME NEW family \in Family, NEW m \in EntryRec
  PROVE  /\ FrontOf(family, m) \in Seq(Part)
         /\ \A k \in 1..Len(FrontOf(family, m)) : ~IsCall(FrontOf(family, m)[k])
<1>1. /\ m.text \in Int /\ m.of \in Key /\ m.name \in Key
  BY DEF EntryRec, Key
<1>2. TextPart(m.text) \in Part /\ ~IsCall(TextPart(m.text))
  BY <1>1 DEF Part, TextPart, IsCall
<1>3. \A key \in Key : Result(key, m.text) \in Part /\ ~IsCall(Result(key, m.text))
  BY <1>1 DEF Part, Result, IsCall
<1>4. \A p \in Part : ~IsCall(p) => <<p>> \in Seq(Part) /\ \A k \in 1..Len(<<p>>) : ~IsCall(<<p>>[k])
  OBVIOUS
<1>5. <<>> \in Seq(Part) /\ \A k \in 1..Len(<<>>) : ~IsCall(<<>>[k])
  OBVIOUS
<1>6. \/ FrontOf(family, m) = <<>> \/ FrontOf(family, m) = <<TextPart(m.text)>>
      \/ FrontOf(family, m) = <<Result(m.of, m.text)>> \/ FrontOf(family, m) = <<Result(m.name, m.text)>>
  BY DEF FrontOf
<1> QED
  BY <1>1, <1>2, <1>3, <1>4, <1>5, <1>6

LEMMA CallsType ==
  ASSUME NEW family \in Family, NEW m \in EntryRec
  PROVE  /\ CallsOf(family, m) \in Seq(Part) /\ Len(CallsOf(family, m)) = Len(m.calls)
         /\ Len(m.calls) \in Nat
         /\ \A k \in 1..Len(m.calls) :
               /\ m.calls[k] \in CallRec
               /\ CallsOf(family, m)[k] = Call(KeyOf(family, m.calls[k]), ArgsOf(family, m.calls[k].args))
               /\ IsCall(CallsOf(family, m)[k])
<1> DEFINE n == Len(m.calls)
<1>1. m.calls \in Seq(CallRec)
  BY DEF EntryRec
<1>2. n \in Nat /\ DOMAIN m.calls = 1..n /\ \A k \in 1..n : m.calls[k] \in CallRec
  BY <1>1
<1>3. ASSUME NEW c \in CallRec
      PROVE  /\ Call(KeyOf(family, c), ArgsOf(family, c.args)) \in Part
             /\ IsCall(Call(KeyOf(family, c), ArgsOf(family, c.args)))
  <2>1. KeyOf(family, c) \in Key
    BY <1>3 DEF KeyOf, Key, CallRec
  <2>2. ArgsOf(family, c.args) \in Argument \cup {"{}", "{value}"}
    BY <1>3 DEF ArgsOf, ClaudeInput, GeminiArgs, CallRec
  <2> QED
    BY <2>1, <2>2 DEF Part, Call, IsCall
<1> HIDE DEF n
<1>4. CallsOf(family, m) = [k \in 1..n |-> Call(KeyOf(family, m.calls[k]), ArgsOf(family, m.calls[k].args))]
  BY <1>2 DEF CallsOf
<1>5. CallsOf(family, m) \in [1..n -> Part]
  BY <1>2, <1>3, <1>4
<1>6. CallsOf(family, m) \in Seq(Part) /\ Len(CallsOf(family, m)) = n
  BY <1>2, <1>5, SeqDef
<1> QED
  BY <1>2, <1>3, <1>4, <1>6 DEF n

\* The parts that are no calls.
Others(parts) == Picked(parts, {k \in DOMAIN parts : ~IsCall(parts[k])})

LEMMA PartsInTwo ==
  ASSUME NEW a \in Seq(Part), NEW b \in Seq(Part)
  PROVE  /\ a \o b \in Seq(Part)
         /\ Others(a \o b) = Others(a) \o Others(b)
         /\ CallsIn(a \o b) = CallsIn(a) \o CallsIn(b)
<1> DEFINE c == a \o b
           There(s) == {k \in DOMAIN s : ~IsCall(s[k])}
           Here(s)  == {k \in DOMAIN s : IsCall(s[k])}
<1>1. /\ c \in Seq(Part) /\ Len(a) \in Nat /\ Len(b) \in Nat /\ Len(c) = Len(a) + Len(b)
      /\ DOMAIN a = 1..Len(a) /\ DOMAIN b = 1..Len(b) /\ DOMAIN c = 1..(Len(a) + Len(b))
      /\ \A k \in 1..Len(a) : c[k] = a[k]
      /\ \A k \in 1..Len(b) : c[Len(a) + k] = b[k]
  OBVIOUS
<1> HIDE DEF c
<1>2. ASSUME NEW k \in 1..Len(a)
      PROVE  (k \in There(c) <=> k \in There(a)) /\ (k \in Here(c) <=> k \in Here(a))
  <2>1. k \in DOMAIN a /\ k \in DOMAIN c /\ c[k] = a[k]
    BY <1>1
  <2> QED
    BY <2>1
<1>3. ASSUME NEW k \in 1..Len(b)
      PROVE  /\ Len(a) + k \in There(c) <=> k \in There(b)
             /\ Len(a) + k \in Here(c) <=> k \in Here(b)
  <2>1. k \in DOMAIN b /\ Len(a) + k \in DOMAIN c /\ c[Len(a) + k] = b[k]
    BY <1>1
  <2> QED
    BY <2>1
<1> HIDE DEF There, Here
<1>4. Picked(c, There(c)) = Picked(a, There(a)) \o Picked(b, There(b))
  BY <1>2, <1>3, PickedConcat DEF c
<1>5. Picked(c, Here(c)) = Picked(a, Here(a)) \o Picked(b, Here(b))
  BY <1>2, <1>3, PickedConcat DEF c
<1> QED
  BY <1>1, <1>4, <1>5 DEF Others, CallsIn, c, There, Here

LEMMA NoneAreCalls ==
  ASSUME NEW a \in Seq(Part), \A k \in 1..Len(a) : ~IsCall(a[k])
  PROVE  Others(a) = a /\ CallsIn(a) = <<>>
<1>1. DOMAIN a = 1..Len(a)
  OBVIOUS
<1>2. Picked(a, {k \in DOMAIN a : ~IsCall(a[k])}) = a
  <2>1. \A k \in 1..Len(a) : k \in {l \in DOMAIN a : ~IsCall(a[l])}
    BY <1>1
  <2> QED
    BY <2>1, PickedAll
<1>3. Picked(a, {k \in DOMAIN a : IsCall(a[k])}) = <<>>
  <2>1. \A k \in 1..Len(a) : k \notin {l \in DOMAIN a : IsCall(a[l])}
    BY <1>1
  <2> QED
    BY <2>1, PickedNone
<1> QED
  BY <1>2, <1>3 DEF Others, CallsIn

LEMMA AllAreCalls ==
  ASSUME NEW a \in Seq(Part), \A k \in 1..Len(a) : IsCall(a[k])
  PROVE  Others(a) = <<>> /\ CallsIn(a) = a
<1>1. DOMAIN a = 1..Len(a)
  OBVIOUS
<1>2. Picked(a, {k \in DOMAIN a : IsCall(a[k])}) = a
  <2>1. \A k \in 1..Len(a) : k \in {l \in DOMAIN a : IsCall(a[l])}
    BY <1>1
  <2> QED
    BY <2>1, PickedAll
<1>3. Picked(a, {k \in DOMAIN a : ~IsCall(a[k])}) = <<>>
  <2>1. \A k \in 1..Len(a) : k \notin {l \in DOMAIN a : ~IsCall(a[l])}
    BY <1>1
  <2> QED
    BY <2>1, PickedNone
<1> QED
  BY <1>2, <1>3 DEF Others, CallsIn

LEMMA PiecesType ==
  ASSUME NEW family \in Family, NEW m \in EntryRec
  PROVE  /\ PiecesOf(family, m) \in Seq(Part)
         /\ Others(PiecesOf(family, m)) = FrontOf(family, m)
         /\ CallsIn(PiecesOf(family, m)) = CallsOf(family, m)
<1> DEFINE a == FrontOf(family, m)  b == CallsOf(family, m)
<1>1. a \in Seq(Part) /\ Others(a) = a /\ CallsIn(a) = <<>>
  BY FrontType, NoneAreCalls
<1>2. b \in Seq(Part) /\ Others(b) = <<>> /\ CallsIn(b) = b
  BY CallsType, AllAreCalls
<1> HIDE DEF a, b
<1>3. /\ a \o b \in Seq(Part) /\ Others(a \o b) = a \o <<>> /\ CallsIn(a \o b) = <<>> \o b
  BY <1>1, <1>2, PartsInTwo
<1>4. a \o <<>> = a /\ <<>> \o b = b
  BY <1>1, <1>2, ConcatEmptySeq
<1> QED
  BY <1>3, <1>4 DEF PiecesOf, a, b

\* An entry that no calls are in.
LEMMA NoCalls ==
  ASSUME NEW family \in Family, NEW m \in EntryRec, m.calls = <<>>
  PROVE  /\ CallsOf(family, m) = <<>> /\ PiecesOf(family, m) = FrontOf(family, m)
<1>1. CallsOf(family, m) = <<>>
  BY CallsType
<1>2. FrontOf(family, m) \o <<>> = FrontOf(family, m)
  BY FrontType, ConcatEmptySeq
<1> QED
  BY <1>1, <1>2 DEF PiecesOf

\* The parts of a turn are the pieces of its entry, in every family.
LEMMA OpenAITurnIs ==
  ASSUME NEW m \in EntryRec, Speaks(m)
  PROVE  OpenAITurn(m).parts = PiecesOf("openai", m)
<1>1. "openai" \in Family
  BY DEF Family
<1>2. CASE m.role = "tool"
  <2>1. m.calls = <<>>
    BY <1>2 DEF Speaks
  <2>2. PiecesOf("openai", m) = FrontOf("openai", m)
    BY <1>1, <2>1, NoCalls
  <2> QED
    BY <1>2, <2>2 DEF OpenAITurn, Turn, FrontOf
<1>3. CASE m.role # "tool"
  <2>1. FrontOf("openai", m) = <<TextPart(m.text)>>
    BY <1>3 DEF FrontOf, IsTold
  <2>2. CallsOf("openai", m) = [j \in DOMAIN m.calls |-> Call(m.calls[j].id, m.calls[j].args)]
    BY DEF CallsOf, KeyOf, ArgsOf
  <2> QED
    BY <1>3, <2>1, <2>2 DEF OpenAITurn, Turn, PiecesOf
<1> QED
  BY <1>2, <1>3

LEMMA ClaudeTurnIs ==
  ASSUME NEW m \in EntryRec, Speaks(m), m.role \in {"user", "assistant"}
  PROVE  ClaudeTurn(m).parts = PiecesOf("claude", m)
<1>1. "claude" \in Family
  BY DEF Family
<1>2. CASE m.calls = <<>>
  <2>1. PiecesOf("claude", m) = FrontOf("claude", m)
    BY <1>1, <1>2, NoCalls
  <2>2. FrontOf("claude", m) = <<TextPart(m.text)>>
    BY <1>2 DEF FrontOf, IsTold
  <2> QED
    BY <1>2, <2>1, <2>2 DEF ClaudeTurn, Turn
<1>3. CASE m.calls # <<>>
  <2>1. m.role = "assistant"
    BY <1>3 DEF Speaks
  <2>2. FrontOf("claude", m) = IF m.text = 0 THEN <<>> ELSE <<TextPart(m.text)>>
    BY <1>3, <2>1 DEF FrontOf, IsTold
  <2>3. CallsOf("claude", m)
          = [j \in DOMAIN m.calls |-> Call(m.calls[j].id, ClaudeInput(m.calls[j].args))]
    BY DEF CallsOf, KeyOf, ArgsOf
  <2> QED
    BY <1>3, <2>1, <2>2, <2>3 DEF ClaudeTurn, Turn, PiecesOf
<1> QED
  BY <1>2, <1>3

LEMMA GeminiTurnIs ==
  ASSUME NEW m \in EntryRec, Speaks(m), m.role # "system"
  PROVE  GeminiTurn(m).parts = PiecesOf("gemini", m)
<1>1. "gemini" \in Family
  BY DEF Family
<1>2. CASE m.calls = <<>>
  <2>1. PiecesOf("gemini", m) = FrontOf("gemini", m)
    BY <1>1, <1>2, NoCalls
  <2>2. m.role \in {"user", "assistant", "tool"}
    BY DEF EntryRec
  <2>3. CASE m.role = "tool"
    BY <1>2, <2>1, <2>3 DEF GeminiTurn, Turn, FrontOf
  <2>4. CASE m.role = "assistant"
    BY <1>2, <2>1, <2>4 DEF GeminiTurn, Turn, FrontOf, IsTold
  <2>5. CASE m.role = "user"
    BY <1>2, <2>1, <2>5 DEF GeminiTurn, Turn, FrontOf, IsTold
  <2> QED
    BY <2>2, <2>3, <2>4, <2>5
<1>3. CASE m.calls # <<>>
  <2>1. m.role = "assistant"
    BY <1>3 DEF Speaks
  <2>2. FrontOf("gemini", m) = <<>>
    BY <1>3, <2>1 DEF FrontOf, IsTold
  <2>3. CallsOf("gemini", m)
          = [j \in DOMAIN m.calls |-> Call(m.calls[j].name, GeminiArgs(m.calls[j].args))]
    BY DEF CallsOf, KeyOf, ArgsOf
  <2>4. PiecesOf("gemini", m) = CallsOf("gemini", m)
    BY <1>1, <2>2, CallsType, ConcatEmptySeq DEF PiecesOf
  <2>5. GeminiTurn(m) = Turn("model", [j \in DOMAIN m.calls |->
                                 Call(m.calls[j].name, GeminiArgs(m.calls[j].args))])
    BY <1>3, <2>1 DEF GeminiTurn
  <2> QED
    BY <2>3, <2>4, <2>5 DEF Turn
<1> QED
  BY <1>2, <1>3

-----------------------------------------------------------------------------
(* Turns are laid out along the history *)

PartsOf(turns) == [k \in DOMAIN turns |-> turns[k].parts]

Pieces(family, h) == [k \in DOMAIN h |-> PiecesOf(family, h[k])]

\* The turns up to the t-th in a row.
InRow(P, t) == FlattenSeq([l \in 1..t |-> P[l]])

\* A turn with calls is one of the pieces r, and behind it the row is as long as the row
\* q of the pieces is behind that one.
Anchored(P, t, q, r, k) ==
    (\E j \in 1..Len(P[t]) : IsCall(P[t][j]))
        => \E x \in 1..k : P[t] = r[x] /\ InRow(P, t) = q[x]

\* The turns P, and the results w that wait, are the first k of the pieces r in a row.
Laid(P, w, q, r, k) ==
    /\ P \in Seq(Seq(Part)) /\ w \in Seq(Part)
    /\ FlattenSeq(P) \o w = q[k]
    /\ \A j \in 1..Len(w) : ~IsCall(w[j])
    /\ \A t \in 1..Len(P) : Anchored(P, t, q, r, k)

\* The row q of pieces r.
Row(q, r) == r \in Seq(Seq(Part)) /\ q \in [0..Len(r) -> Seq(Part)] /\ RowOf(q, r)

LEMMA LaidStart ==
  ASSUME NEW r, NEW q, Row(q, r)
  PROVE  Laid(<<>>, <<>>, q, r, 0)
<1>1. q[0] = <<>>
  BY DEF Row, RowOf
<1>2. <<>> \o <<>> = <<>>
  <2>1. <<>> \in Seq(Part)
    OBVIOUS
  <2> QED
    BY <2>1, ConcatEmptySeq
<1>3. Len(<<>>) = 0 /\ 1..0 = {}
  OBVIOUS
<1>4. <<>> \in Seq(Seq(Part)) /\ <<>> \in Seq(Part)
  OBVIOUS
<1> QED
  BY <1>1, <1>2, <1>3, <1>4, FlattenNone DEF Laid

\* A turn behind the others leaves them what they were.
LEMMA UpToStays ==
  ASSUME NEW P \in Seq(Seq(Part)), NEW w \in Seq(Part)
  PROVE  /\ \A t \in 1..Len(P) : Append(P, w)[t] = P[t] /\ InRow(Append(P, w), t) = InRow(P, t)
         /\ Len(P) \in Nat /\ Len(Append(P, w)) = Len(P) + 1
         /\ Append(P, w) \in Seq(Seq(Part))
         /\ Append(P, w)[Len(P) + 1] = w
         /\ InRow(Append(P, w), Len(P) + 1) = FlattenSeq(Append(P, w))
<1> DEFINE R == Append(P, w)  n == Len(P)
<1>1. /\ n \in Nat /\ R \in Seq(Seq(Part)) /\ Len(R) = n + 1 /\ R[n + 1] = w
      /\ \A t \in 1..n : R[t] = P[t]
  <2>1. w \in Seq(Part)
    OBVIOUS
  <2> QED
    BY <2>1, AppendProperties
<1> HIDE DEF R, n
<1>2. ASSUME NEW t \in 1..n PROVE InRow(R, t) = InRow(P, t)
  <2>1. \A l \in 1..t : R[l] = P[l]
    BY <1>1
  <2>2. [l \in 1..t |-> R[l]] = [l \in 1..t |-> P[l]]
    BY <2>1
  <2> QED
    BY <2>2 DEF InRow
<1>3. InRow(R, n + 1) = FlattenSeq(R)
  <2>1. [l \in 1..(n + 1) |-> R[l]] = R
    BY <1>1
  <2> QED
    BY <2>1 DEF InRow
<1> QED
  BY <1>1, <1>2, <1>3 DEF R, n

\* The next pieces in the row.
LEMMA RowStep ==
  ASSUME NEW r, NEW q, Row(q, r), NEW k \in 1..Len(r)
  PROVE  /\ r[k] \in Seq(Part) /\ k - 1 \in 0..Len(r) /\ k \in 0..Len(r)
         /\ q[k - 1] \in Seq(Part) /\ q[k] \in Seq(Part)
         /\ q[k] = q[k - 1] \o r[k]
<1>1. r \in Seq(Seq(Part)) /\ q \in [0..Len(r) -> Seq(Part)]
  BY DEF Row
<1>2. k - 1 \in 0..Len(r) /\ k \in 0..Len(r)
  <2>1. Len(r) \in Nat
    BY <1>1
  <2> QED
    BY <2>1
<1>3. q[k] = q[k - 1] \o r[k]
  BY DEF Row, RowOf
<1>4. r[k] \in Seq(Part)
  BY <1>1
<1> QED
  BY <1>1, <1>2, <1>3, <1>4

\* The anchors of turns stay when pieces are added.
LEMMA AnchorsStay ==
  ASSUME NEW P \in Seq(Seq(Part)), NEW w \in Seq(Part), NEW q, NEW r, NEW k \in Nat, NEW l \in Nat,
         k <= l, \A t \in 1..Len(P) : Anchored(P, t, q, r, k)
  PROVE  /\ \A t \in 1..Len(P) : Anchored(Append(P, w), t, q, r, l)
         /\ \A t \in 1..Len(P) : Anchored(P, t, q, r, l)
<1>1. ASSUME NEW t \in 1..Len(P) PROVE Anchored(P, t, q, r, l)
  <2>1. Anchored(P, t, q, r, k)
    OBVIOUS
  <2>2. \A x \in 1..k : x \in 1..l
    OBVIOUS
  <2> QED
    BY <2>1, <2>2 DEF Anchored
<1>2. ASSUME NEW t \in 1..Len(P) PROVE Anchored(Append(P, w), t, q, r, l)
  <2>1. Anchored(P, t, q, r, l)
    BY <1>1
  <2>2. Append(P, w)[t] = P[t] /\ InRow(Append(P, w), t) = InRow(P, t)
    BY UpToStays
  <2> QED
    BY <2>1, <2>2 DEF Anchored
<1> QED
  BY <1>1, <1>2

LEMMA LaidAdd ==
  ASSUME NEW r, NEW q, Row(q, r), NEW k \in 1..Len(r), NEW P, Laid(P, <<>>, q, r, k - 1)
  PROVE  Laid(Append(P, r[k]), <<>>, q, r, k)
<1> DEFINE R == Append(P, r[k])
<1>1. /\ P \in Seq(Seq(Part)) /\ FlattenSeq(P) \o <<>> = q[k - 1]
      /\ \A t \in 1..Len(P) : Anchored(P, t, q, r, k - 1)
  BY DEF Laid
<1>2. r[k] \in Seq(Part) /\ q[k] \in Seq(Part) /\ q[k] = q[k - 1] \o r[k] /\ k - 1 \in Nat /\ k \in Nat
  <2>1. Len(r) \in Nat
    BY DEF Row
  <2>2. k - 1 \in Nat /\ k \in Nat
    BY <2>1
  <2> QED
    BY <2>2, RowStep
<1>3. FlattenSeq(P) = q[k - 1] /\ FlattenSeq(R) = q[k]
  <2>1. FlattenSeq(R) = FlattenSeq(P) \o r[k] /\ FlattenSeq(P) \in Seq(Part)
    BY <1>1, <1>2, FlattenAppend
  <2>2. FlattenSeq(P) = q[k - 1]
    BY <1>1, <2>1, ConcatEmptySeq
  <2> QED
    BY <1>2, <2>1, <2>2
<1>4. /\ Len(P) \in Nat /\ Len(R) = Len(P) + 1 /\ R \in Seq(Seq(Part))
      /\ R[Len(P) + 1] = r[k] /\ InRow(R, Len(P) + 1) = FlattenSeq(R)
  BY <1>1, <1>2, UpToStays
<1>5. \A t \in 1..Len(P) : Anchored(R, t, q, r, k)
  <2>1. k - 1 <= k
    OBVIOUS
  <2> QED
    BY <1>1, <1>2, <2>1, AnchorsStay
<1>6. Anchored(R, Len(P) + 1, q, r, k)
  BY <1>3, <1>4 DEF Anchored
<1>7. FlattenSeq(R) \o <<>> = q[k]
  BY <1>2, <1>3, ConcatEmptySeq
<1> HIDE DEF R
<1>8. \A t \in 1..Len(R) : Anchored(R, t, q, r, k)
  <2>1. \A t \in 1..Len(R) : t \in 1..Len(P) \/ t = Len(P) + 1
    BY <1>4
  <2> QED
    BY <1>5, <1>6, <2>1
<1>9. <<>> \in Seq(Part) /\ \A j \in 1..Len(<<>>) : ~IsCall(<<>>[j])
  OBVIOUS
<1> QED
  BY <1>4, <1>7, <1>8, <1>9 DEF Laid, R

LEMMA LaidFlush ==
  ASSUME NEW r, NEW q, Row(q, r), NEW k \in 0..Len(r), NEW P, NEW w, Laid(P, w, q, r, k)
  PROVE  Laid(Append(P, w), <<>>, q, r, k)
<1> DEFINE R == Append(P, w)
<1>1. /\ P \in Seq(Seq(Part)) /\ w \in Seq(Part) /\ FlattenSeq(P) \o w = q[k]
      /\ \A j \in 1..Len(w) : ~IsCall(w[j])
      /\ \A t \in 1..Len(P) : Anchored(P, t, q, r, k)
  BY DEF Laid
<1>2. k \in Nat /\ q[k] \in Seq(Part)
  BY DEF Row
<1>3. FlattenSeq(R) = q[k]
  BY <1>1, FlattenAppend
<1>4. /\ Len(P) \in Nat /\ Len(R) = Len(P) + 1 /\ R \in Seq(Seq(Part))
      /\ R[Len(P) + 1] = w
  BY <1>1, UpToStays
<1>5. \A t \in 1..Len(P) : Anchored(R, t, q, r, k)
  <2>1. k <= k
    BY <1>2
  <2> QED
    BY <1>1, <1>2, <2>1, AnchorsStay
<1>6. Anchored(R, Len(P) + 1, q, r, k)
  BY <1>1, <1>4 DEF Anchored
<1>7. FlattenSeq(R) \o <<>> = q[k]
  BY <1>2, <1>3, ConcatEmptySeq
<1> HIDE DEF R
<1>8. \A t \in 1..Len(R) : Anchored(R, t, q, r, k)
  <2>1. \A t \in 1..Len(R) : t \in 1..Len(P) \/ t = Len(P) + 1
    BY <1>4
  <2> QED
    BY <1>5, <1>6, <2>1
<1>9. <<>> \in Seq(Part) /\ \A j \in 1..Len(<<>>) : ~IsCall(<<>>[j])
  OBVIOUS
<1> QED
  BY <1>4, <1>7, <1>8, <1>9 DEF Laid, R

\* Pieces that no turn has yet.
LEMMA LaidWait ==
  ASSUME NEW r, NEW q, Row(q, r), NEW k \in 1..Len(r), NEW P, NEW w, Laid(P, w, q, r, k - 1),
         \A j \in 1..Len(r[k]) : ~IsCall(r[k][j])
  PROVE  Laid(P, w \o r[k], q, r, k)
<1> DEFINE v == r[k]
<1>1. /\ P \in Seq(Seq(Part)) /\ w \in Seq(Part) /\ FlattenSeq(P) \o w = q[k - 1]
      /\ \A j \in 1..Len(w) : ~IsCall(w[j])
      /\ \A t \in 1..Len(P) : Anchored(P, t, q, r, k - 1)
  BY DEF Laid
<1>2. v \in Seq(Part) /\ q[k] = q[k - 1] \o v /\ k - 1 \in Nat /\ k \in Nat /\ k - 1 <= k
  <2>1. Len(r) \in Nat
    BY DEF Row
  <2>2. k - 1 \in Nat /\ k \in Nat /\ k - 1 <= k
    BY <2>1
  <2> QED
    BY <2>2, RowStep
<1>3. \A j \in 1..Len(v) : ~IsCall(v[j])
  OBVIOUS
<1> HIDE DEF v
<1>4. FlattenSeq(P) \o (w \o v) = q[k]
  <2>1. FlattenSeq(P) \in Seq(Part)
    BY <1>1, FlattenAppend
  <2>2. (FlattenSeq(P) \o w) \o v = FlattenSeq(P) \o (w \o v)
    <3> DEFINE a == FlattenSeq(P)
    <3>1. a \in Seq(Part) /\ w \in Seq(Part) /\ v \in Seq(Part)
      BY <1>1, <1>2, <2>1
    <3> HIDE DEF a
    <3>2. (a \o w) \o v = a \o (w \o v)
      BY <3>1, ConcatAssociative
    <3> QED
      BY <3>2 DEF a
  <2>3. (FlattenSeq(P) \o w) \o v = q[k]
    BY <1>1, <1>2
  <2> QED
    BY <2>2, <2>3
<1>5. /\ w \o v \in Seq(Part)
      /\ \A j \in 1..Len(w \o v) : ~IsCall((w \o v)[j])
  <2>1. /\ w \o v \in Seq(Part) /\ Len(w \o v) = Len(w) + Len(v) /\ Len(w) \in Nat /\ Len(v) \in Nat
        /\ \A j \in 1..(Len(w) + Len(v)) :
               (w \o v)[j] = IF j <= Len(w) THEN w[j] ELSE v[j - Len(w)]
    BY <1>1, <1>2, ConcatProperties
  <2>2. ASSUME NEW j \in 1..(Len(w) + Len(v)) PROVE ~IsCall((w \o v)[j])
    <3>1. CASE j <= Len(w)
      <4>1. j \in 1..Len(w)
        BY <2>1, <3>1
      <4> QED
        BY <1>1, <2>1, <3>1, <4>1
    <3>2. CASE ~(j <= Len(w))
      <4>1. j - Len(w) \in 1..Len(v)
        BY <2>1, <3>2
      <4> QED
        BY <1>3, <2>1, <3>2, <4>1
    <3> QED
      BY <3>1, <3>2
  <2> QED
    BY <2>1, <2>2
<1>6. \A t \in 1..Len(P) : Anchored(P, t, q, r, k)
  BY <1>1, <1>2, AnchorsStay
<1> QED
  BY <1>1, <1>4, <1>5, <1>6 DEF Laid, v

\* A history, as the loop of sendMessage makes it.
Speaking(h) == h \in Seq(EntryRec) /\ \A k \in 1..Len(h) : Speaks(h[k])

LEMMA PiecesRow ==
  ASSUME NEW family \in Family, NEW h \in Seq(EntryRec)
  PROVE  /\ Pieces(family, h) \in Seq(Seq(Part)) /\ Len(Pieces(family, h)) = Len(h)
         /\ Len(h) \in Nat
         /\ \A k \in 1..Len(h) : h[k] \in EntryRec /\ Pieces(family, h)[k] = PiecesOf(family, h[k])
         /\ \E q : Row(q, Pieces(family, h)) /\ FlattenSeq(Pieces(family, h)) = q[Len(h)]
<1> DEFINE n == Len(h)  r == Pieces(family, h)
<1>1. n \in Nat /\ DOMAIN h = 1..n /\ \A k \in 1..n : h[k] \in EntryRec
  OBVIOUS
<1> HIDE DEF n
<1>2. r = [k \in 1..n |-> PiecesOf(family, h[k])]
  BY <1>1 DEF Pieces
<1>3. \A k \in 1..n : PiecesOf(family, h[k]) \in Seq(Part)
  BY <1>1, PiecesType
<1>4. r \in [1..n -> Seq(Part)]
  BY <1>2, <1>3
<1>5. r \in Seq(Seq(Part)) /\ Len(r) = n
  BY <1>1, <1>4, SeqDef
<1>6. \A k \in 1..n : r[k] = PiecesOf(family, h[k])
  BY <1>2
<1> HIDE DEF r
<1>7. PICK q \in [0..Len(r) -> Seq(Part)] : RowOf(q, r)
  BY <1>5, RowExists
<1>8. Row(q, r)
  BY <1>5, <1>7 DEF Row
<1>9. FlattenSeq(r) = q[n]
  BY <1>5, <1>7, FlattenIsRow
<1> QED
  BY <1>1, <1>5, <1>6, <1>8, <1>9 DEF r, n

\* The turns of OpenAI's are the entries.
LEMMA OpenAILaid ==
  ASSUME NEW h, Speaking(h), NEW q, Row(q, Pieces("openai", h))
  PROVE  Laid(PartsOf(OpenAIBody(h).turns), <<>>, q, Pieces("openai", h), Len(h))
<1> DEFINE n == Len(h)  r == Pieces("openai", h)  P(k) == [l \in 1..k |-> r[l]]
           X == {k \in Nat : k <= n => Laid(P(k), <<>>, q, r, k)}
<1>1. /\ h \in Seq(EntryRec) /\ "openai" \in Family
      /\ \A k \in 1..n : Speaks(h[k])
  BY DEF Speaking, Family
<1>2. /\ n \in Nat /\ r \in Seq(Seq(Part)) /\ Len(r) = n /\ DOMAIN h = 1..n
      /\ \A k \in 1..n : h[k] \in EntryRec /\ r[k] = PiecesOf("openai", h[k])
  <2>1. DOMAIN h = 1..n
    BY <1>1
  <2> QED
    BY <1>1, <2>1, PiecesRow
<1>3. Row(q, r)
  OBVIOUS
<1>4. OpenAIBody(h).turns = [k \in 1..n |-> OpenAITurn(h[k])]
  BY <1>2 DEF OpenAIBody
<1> HIDE DEF n, r
<1>5. 0 \in X
  <2>1. 1..0 = {} /\ P(0) = <<>>
    OBVIOUS
  <2>2. Laid(<<>>, <<>>, q, r, 0)
    BY <1>3, LaidStart
  <2> QED
    BY <2>1, <2>2
<1>6. ASSUME NEW k \in Nat, k \in X PROVE k + 1 \in X
  <2>1. ASSUME k + 1 <= n PROVE Laid(P(k + 1), <<>>, q, r, k + 1)
    <3>1. k + 1 \in 1..Len(r) /\ (k + 1) - 1 = k /\ k <= n
      BY <1>2, <2>1
    <3>2. Laid(P(k), <<>>, q, r, (k + 1) - 1)
      BY <1>6, <3>1
    <3>3. r[k + 1] \in Seq(Part) /\ P(k) \in Seq(Seq(Part)) /\ Len(P(k)) = k
      <4>1. P(k) \in [1..k -> Seq(Part)]
        BY <1>2, <3>1
      <4> QED
        BY <1>2, <3>1, <4>1, SeqDef
    <3>4. Append(P(k), r[k + 1]) = P(k + 1)
      <4>1. /\ Append(P(k), r[k + 1]) \in Seq(Seq(Part)) /\ Len(Append(P(k), r[k + 1])) = k + 1
            /\ \A l \in 1..k : Append(P(k), r[k + 1])[l] = P(k)[l]
            /\ Append(P(k), r[k + 1])[k + 1] = r[k + 1]
        BY <3>3, AppendProperties
      <4>2. \A l \in 1..(k + 1) : Append(P(k), r[k + 1])[l] = r[l]
        <5>1. \A l \in 1..(k + 1) : l \in 1..k \/ l = k + 1
          OBVIOUS
        <5> QED
          BY <4>1, <5>1
      <4>3. Append(P(k), r[k + 1]) = [l \in 1..(k + 1) |-> Append(P(k), r[k + 1])[l]]
        BY <4>1
      <4> QED
        BY <4>2, <4>3
    <3>5. Laid(Append(P(k), r[k + 1]), <<>>, q, r, k + 1)
      <4> HIDE DEF P
      <4> QED
        BY <1>3, <3>1, <3>2, LaidAdd
    <3> QED
      BY <3>4, <3>5
  <2> QED
    BY <2>1
<1> HIDE DEF X
<1>7. \A k \in Nat : k \in X
  BY <1>5, <1>6, Induction
<1>8. Laid(P(n), <<>>, q, r, n)
  BY <1>2, <1>7 DEF X
<1>9. PartsOf(OpenAIBody(h).turns) = P(n)
  <2>1. ASSUME NEW k \in 1..n PROVE OpenAITurn(h[k]).parts = r[k]
    BY <1>1, <1>2, OpenAITurnIs
  <2>2. PartsOf(OpenAIBody(h).turns) = [k \in 1..n |-> OpenAITurn(h[k]).parts]
    BY <1>4 DEF PartsOf
  <2> QED
    BY <2>1, <2>2
<1> QED
  BY <1>8, <1>9 DEF r, n

\* Gemini's are the entries that are not the system's.
GeminiParts(s) == [l \in DOMAIN s |-> GeminiTurn(s[l]).parts]

LEMMA GeminiAppend ==
  ASSUME NEW s \in Seq(EntryRec), NEW m \in EntryRec, GeminiParts(s) \in Seq(Seq(Part)),
         GeminiTurn(m).parts \in Seq(Part)
  PROVE  GeminiParts(Append(s, m)) = Append(GeminiParts(s), GeminiTurn(m).parts)
<1> DEFINE n == Len(s)  a == Append(s, m)  w == GeminiTurn(m).parts  P == GeminiParts(s)
<1>1. /\ n \in Nat /\ DOMAIN s = 1..n /\ DOMAIN a = 1..(n + 1) /\ a[n + 1] = m
      /\ \A l \in 1..n : a[l] = s[l]
  OBVIOUS
<1> HIDE DEF n, a
<1>2. P = [l \in 1..n |-> GeminiTurn(s[l]).parts]
  BY <1>1 DEF GeminiParts
<1>3. P \in Seq(Seq(Part)) /\ Len(P) = n /\ \A l \in 1..n : P[l] = GeminiTurn(s[l]).parts
  BY <1>1, <1>2
<1>4. GeminiParts(a) = [l \in 1..(n + 1) |-> GeminiTurn(a[l]).parts]
  BY <1>1 DEF GeminiParts
<1> HIDE DEF P
<1>5. /\ Append(P, w) \in Seq(Seq(Part)) /\ Len(Append(P, w)) = n + 1
      /\ \A l \in 1..n : Append(P, w)[l] = P[l]
      /\ Append(P, w)[n + 1] = w
  <2> HIDE DEF w
  <2>1. w \in Seq(Part)
    BY DEF w
  <2> QED
    BY <1>3, <2>1, AppendProperties
<1>6. \A l \in 1..(n + 1) : Append(P, w)[l] = GeminiTurn(a[l]).parts
  <2>1. \A l \in 1..(n + 1) : l \in 1..n \/ l = n + 1
    BY <1>1
  <2>2. ASSUME NEW l \in 1..n PROVE Append(P, w)[l] = GeminiTurn(a[l]).parts
    BY <1>1, <1>3, <1>5
  <2> QED
    BY <1>1, <1>5, <2>1, <2>2
<1>7. Append(P, w) = [l \in 1..(n + 1) |-> Append(P, w)[l]]
  <2> DEFINE R == Append(P, w)
  <2>1. R \in Seq(Seq(Part)) /\ Len(R) = n + 1
    BY <1>5
  <2> HIDE DEF R
  <2>2. R = [l \in 1..(n + 1) |-> R[l]]
    BY <2>1
  <2> QED
    BY <2>2 DEF R
<1> QED
  BY <1>4, <1>6, <1>7 DEF P, a

LEMMA GeminiLaid ==
  ASSUME NEW h, Speaking(h), NEW q, Row(q, Pieces("gemini", h))
  PROVE  Laid(PartsOf(GeminiBody(h).turns), <<>>, q, Pieces("gemini", h), Len(h))
<1> DEFINE n == Len(h)  r == Pieces("gemini", h)
           I == {k \in DOMAIN h : h[k].role # "system"}
<1>1. /\ h \in Seq(EntryRec) /\ "gemini" \in Family
      /\ \A k \in 1..n : Speaks(h[k])
  BY DEF Speaking, Family
<1>2. /\ n \in Nat /\ r \in Seq(Seq(Part)) /\ Len(r) = n /\ DOMAIN h = 1..n
      /\ \A k \in 1..n : h[k] \in EntryRec /\ r[k] = PiecesOf("gemini", h[k])
  <2>1. DOMAIN h = 1..n
    BY <1>1
  <2> QED
    BY <1>1, <2>1, PiecesRow
<1>3. Row(q, r)
  OBVIOUS
<1>4. PICK F \in [0..n -> Seq(EntryRec)] : PicksUpTo(F, h, I) /\ Picked(h, I) = F[n]
  <2> HIDE DEF I
  <2> QED
    BY <1>1, PickedUnfolds
<1>5. /\ F[0] = <<>>
      /\ \A k \in 1..n : F[k] = IF k \in I THEN Append(F[k - 1], h[k]) ELSE F[k - 1]
  BY <1>4 DEF PicksUpTo
<1>6. PartsOf(GeminiBody(h).turns) = GeminiParts(F[n])
  <2>1. GeminiBody(h).turns = [k \in DOMAIN F[n] |-> GeminiTurn(F[n][k])]
    BY <1>4 DEF GeminiBody
  <2> QED
    BY <2>1 DEF PartsOf, GeminiParts
<1>7. \A k \in 1..n : k \in I <=> h[k].role # "system"
  BY <1>2
<1> DEFINE X == {k \in Nat : k <= n => Laid(GeminiParts(F[k]), <<>>, q, r, k)}
<1> HIDE DEF n, r, I
<1>8. 0 \in X
  <2>1. GeminiParts(<<>>) = <<>>
    BY DEF GeminiParts
  <2>2. Laid(<<>>, <<>>, q, r, 0)
    BY <1>3, LaidStart
  <2> QED
    BY <1>5, <2>1, <2>2
<1>9. ASSUME NEW k \in Nat, k \in X PROVE k + 1 \in X
  <2>1. ASSUME k + 1 <= n PROVE Laid(GeminiParts(F[k + 1]), <<>>, q, r, k + 1)
    <3>1. /\ k + 1 \in 1..n /\ k + 1 \in 1..Len(r) /\ (k + 1) - 1 = k /\ k <= n /\ k \in 0..n
      BY <1>2, <2>1
    <3>2. /\ h[k + 1] \in EntryRec /\ Speaks(h[k + 1]) /\ F[k] \in Seq(EntryRec)
          /\ r[k + 1] = PiecesOf("gemini", h[k + 1])
      BY <1>1, <1>2, <1>4, <3>1
    <3>3. Laid(GeminiParts(F[k]), <<>>, q, r, (k + 1) - 1)
      BY <1>9, <3>1
    <3>4. F[k + 1] = IF h[k + 1].role # "system" THEN Append(F[k], h[k + 1]) ELSE F[k]
      <4>1. F[k + 1] = IF k + 1 \in I THEN Append(F[(k + 1) - 1], h[k + 1]) ELSE F[(k + 1) - 1]
        BY <1>5, <3>1
      <4> QED
        BY <1>7, <3>1, <4>1
    <3>5. CASE h[k + 1].role # "system"
      <4>1. GeminiTurn(h[k + 1]).parts = r[k + 1]
        BY <3>2, <3>5, GeminiTurnIs
      <4>2. r[k + 1] \in Seq(Part)
        BY <1>1, <3>2, PiecesType
      <4>3. GeminiParts(F[k]) \in Seq(Seq(Part))
        BY <3>3 DEF Laid
      <4>4. GeminiParts(F[k + 1]) = Append(GeminiParts(F[k]), r[k + 1])
        BY <3>2, <3>4, <3>5, <4>1, <4>2, <4>3, GeminiAppend
      <4> QED
        BY <1>3, <3>1, <3>3, <4>4, LaidAdd
    <3>6. CASE h[k + 1].role = "system"
      <4>1. h[k + 1].calls = <<>>
        BY <3>2, <3>6 DEF Speaks
      <4>2. r[k + 1] = <<>>
        BY <1>1, <3>2, <3>6, <4>1, NoCalls DEF FrontOf
      <4>3. \A j \in 1..Len(r[k + 1]) : ~IsCall(r[k + 1][j])
        BY <4>2
      <4>4. Laid(GeminiParts(F[k]), <<>> \o r[k + 1], q, r, k + 1)
        BY <1>3, <3>1, <3>3, <4>3, LaidWait
      <4>5. <<>> \o r[k + 1] = <<>>
        BY <4>2
      <4> QED
        BY <3>4, <3>6, <4>4, <4>5
    <3> QED
      BY <3>5, <3>6
  <2> QED
    BY <2>1
<1> HIDE DEF X
<1>10. \A k \in Nat : k \in X
  BY <1>8, <1>9, Induction
<1>11. Laid(GeminiParts(F[n]), <<>>, q, r, n)
  BY <1>2, <1>10 DEF X
<1> QED
  BY <1>6, <1>11 DEF r, n

\* What Claude's builder has while it goes through the history.
TurnRec == [role : {"user", "assistant"}, parts : Seq(Part)]
Built == [system : Seq(Int), turns : Seq(TurnRec), pending : Seq(Part)]
Unbuilt == [system |-> <<>>, turns |-> <<>>, pending |-> <<>>]

LEMMA FlushIs ==
  ASSUME NEW b \in Built
  PROVE  /\ Flush(b) \in Built /\ Flush(b).system = b.system /\ Flush(b).pending = <<>>
         /\ Flush(b).turns = IF b.pending = <<>> THEN b.turns
                             ELSE Append(b.turns, Turn("user", b.pending))
<1>1. b.system \in Seq(Int) /\ b.turns \in Seq(TurnRec) /\ b.pending \in Seq(Part)
  BY DEF Built
<1>2. CASE b.pending = <<>>
  BY <1>2 DEF Flush
<1>3. CASE b.pending # <<>>
  <2>1. Turn("user", b.pending) \in TurnRec
    BY <1>1 DEF Turn, TurnRec
  <2> DEFINE t == Append(b.turns, Turn("user", b.pending))
  <2>2. t \in Seq(TurnRec)
    BY <1>1, <2>1, AppendProperties
  <2>3. Flush(b) = [b EXCEPT !.turns = t, !.pending = <<>>]
    BY <1>3 DEF Flush
  <2>4. <<>> \in Seq(Part)
    OBVIOUS
  <2> HIDE DEF t
  <2>5. /\ Flush(b) \in Built /\ Flush(b).system = b.system /\ Flush(b).pending = <<>>
        /\ Flush(b).turns = t
    BY <2>2, <2>3, <2>4 DEF Built
  <2> QED
    BY <1>3, <2>5 DEF t
<1> QED
  BY <1>2, <1>3

LEMMA ClaudeTurnType ==
  ASSUME NEW m \in EntryRec, Speaks(m), m.role \in {"user", "assistant"}
  PROVE  ClaudeTurn(m) \in TurnRec
<1>1. ClaudeTurn(m).parts = PiecesOf("claude", m) /\ PiecesOf("claude", m) \in Seq(Part)
  BY ClaudeTurnIs, PiecesType DEF Family
<1>2. \/ ClaudeTurn(m) = Turn(m.role, ClaudeTurn(m).parts)
      \/ ClaudeTurn(m) = Turn("assistant", ClaudeTurn(m).parts)
  BY DEF ClaudeTurn, Turn
<1> QED
  BY <1>1, <1>2 DEF Turn, TurnRec

LEMMA ClaudeAddIs ==
  ASSUME NEW b \in Built, NEW m \in EntryRec, Speaks(m)
  PROVE  /\ ClaudeAdd(b, m) \in Built
         /\ m.role = "system" => /\ ClaudeAdd(b, m).system = Append(b.system, m.text)
                                 /\ ClaudeAdd(b, m).turns = b.turns
                                 /\ ClaudeAdd(b, m).pending = b.pending
         /\ m.role = "tool" => /\ ClaudeAdd(b, m).system = b.system
                               /\ ClaudeAdd(b, m).turns = b.turns
                               /\ ClaudeAdd(b, m).pending = Append(b.pending, Result(m.of, m.text))
         /\ m.role \in {"user", "assistant"}
                => /\ ClaudeAdd(b, m).system = b.system
                   /\ ClaudeAdd(b, m).turns = Append(Flush(b).turns, ClaudeTurn(m))
                   /\ ClaudeAdd(b, m).pending = <<>>
<1>1. b.system \in Seq(Int) /\ b.turns \in Seq(TurnRec) /\ b.pending \in Seq(Part)
  BY DEF Built
<1>2. m.text \in Int /\ m.of \in Key /\ m.role \in {"user", "assistant", "system", "tool"}
  BY DEF EntryRec, Key
<1>3. CASE m.role = "system"
  <2> DEFINE t == Append(b.system, m.text)
  <2>1. t \in Seq(Int)
    BY <1>1, <1>2, AppendProperties
  <2>2. ClaudeAdd(b, m) = [b EXCEPT !.system = t]
    BY <1>3 DEF ClaudeAdd
  <2> HIDE DEF t
  <2>3. /\ ClaudeAdd(b, m) \in Built /\ ClaudeAdd(b, m).system = t
        /\ ClaudeAdd(b, m).turns = b.turns /\ ClaudeAdd(b, m).pending = b.pending
    BY <2>1, <2>2 DEF Built
  <2> QED
    BY <1>3, <2>3 DEF t
<1>4. CASE m.role = "tool"
  <2> DEFINE t == Append(b.pending, Result(m.of, m.text))
  <2>0. Result(m.of, m.text) \in Part
    BY <1>2 DEF Result, Part
  <2>1. t \in Seq(Part)
    BY <1>1, <2>0, AppendProperties
  <2>2. ClaudeAdd(b, m) = [b EXCEPT !.pending = t]
    BY <1>4 DEF ClaudeAdd
  <2> HIDE DEF t
  <2>3. /\ ClaudeAdd(b, m) \in Built /\ ClaudeAdd(b, m).pending = t
        /\ ClaudeAdd(b, m).turns = b.turns /\ ClaudeAdd(b, m).system = b.system
    BY <2>1, <2>2 DEF Built
  <2> QED
    BY <1>4, <2>3 DEF t
<1>5. CASE m.role \in {"user", "assistant"}
  <2> DEFINE c == Flush(b)  t == Append(c.turns, ClaudeTurn(m))
  <2>0. c \in Built /\ c.system = b.system /\ c.pending = <<>>
    BY FlushIs
  <2>1. ClaudeTurn(m) \in TurnRec
    BY <1>5, ClaudeTurnType
  <2>2. ClaudeAdd(b, m) = [c EXCEPT !.turns = t]
    BY <1>5 DEF ClaudeAdd
  <2> HIDE DEF c
  <2>3. t \in Seq(TurnRec)
    <3>1. c.turns \in Seq(TurnRec)
      BY <2>0 DEF Built
    <3> QED
      BY <2>1, <3>1, AppendProperties
  <2> HIDE DEF t
  <2>4. /\ ClaudeAdd(b, m) \in Built /\ ClaudeAdd(b, m).pending = c.pending
        /\ ClaudeAdd(b, m).turns = t /\ ClaudeAdd(b, m).system = c.system
    BY <2>0, <2>2, <2>3 DEF Built
  <2> QED
    BY <1>5, <2>0, <2>4 DEF t, c
<1> QED
  BY <1>2, <1>3, <1>4, <1>5

\* F[k] is what the builder has after k entries.
BuiltUpTo(F, h) ==
    F[0] = Unbuilt /\ \A k \in 1..Len(h) : F[k] = ClaudeAdd(F[k - 1], h[k])

LEMMA ClaudeBuilds ==
  ASSUME NEW h, Speaking(h)
  PROVE  \E F \in [0..Len(h) -> Built] :
            /\ BuiltUpTo(F, h)
            /\ ClaudeBody(h) = [system |-> Flush(F[Len(h)]).system, turns |-> Flush(F[Len(h)]).turns]
<1> DEFINE n == Len(h)
           Is(f) == f = [k \in 0..n |-> IF k = 0 THEN [system |-> <<>>, turns |-> <<>>, pending |-> <<>>]
                                        ELSE ClaudeAdd(f[k - 1], h[k])]
           step == [x \in (1..n) \X Built |-> ClaudeAdd(x[2], h[x[1]])]
<1>1. n \in Nat /\ \A k \in 1..n : h[k] \in EntryRec /\ Speaks(h[k])
  BY DEF Speaking
<1> HIDE DEF n
<1>2. step \in [(1..n) \X Built -> Built]
  <2>1. ASSUME NEW x \in (1..n) \X Built PROVE ClaudeAdd(x[2], h[x[1]]) \in Built
    <3>1. x[2] \in Built /\ h[x[1]] \in EntryRec /\ Speaks(h[x[1]])
      BY <1>1, <2>1
    <3> QED
      BY <3>1, ClaudeAddIs
  <2> QED
    BY <2>1
<1>3. Unbuilt \in Built
  BY DEF Unbuilt, Built
<1>4. PICK f \in [0..n -> Built] : Iterates(f, Unbuilt, n, step)
  <2> HIDE DEF step
  <2> QED
    BY <1>1, <1>2, <1>3, Iteration
<1>5. \A k \in 1..n : f[k] = ClaudeAdd(f[k - 1], h[k])
  <2> TAKE k \in 1..n
  <2>1. <<k, f[k - 1]>> \in (1..n) \X Built
    BY <1>1, <1>4
  <2>2. f[k] = step[<<k, f[k - 1]>>]
    BY <1>4 DEF Iterates
  <2> QED
    BY <2>1, <2>2
<1>6. Is(f)
  <2>1. f[0] = Unbuilt
    BY <1>4 DEF Iterates
  <2>2. \A k \in 0..n : k = 0 \/ k \in 1..n
    BY <1>1
  <2> HIDE DEF step
  <2> QED
    BY <1>4, <1>5, <2>1, <2>2 DEF Unbuilt
<1> DEFINE F == CHOOSE g : Is(g)
<1>7. Is(F)
  BY <1>6
<1>8. ClaudeBody(h) = [system |-> Flush(F[n]).system, turns |-> Flush(F[n]).turns]
  BY DEF ClaudeBody, n
<1> HIDE DEF F
<1>9. F[0] = Unbuilt /\ \A k \in 1..n : F[k] = ClaudeAdd(F[k - 1], h[k])
  <2>1. 0 \in 0..n /\ \A k \in 1..n : k \in 0..n /\ k # 0
    BY <1>1
  <2> QED
    BY <1>7, <2>1 DEF Unbuilt
<1>10. F = [k \in 0..n |-> F[k]]
  BY <1>7
<1> HIDE DEF Is
<1> DEFINE X == {k \in Nat : k <= n => F[k] \in Built}
<1>11. 0 \in X
  BY <1>3, <1>9
<1>12. ASSUME NEW k \in Nat, k \in X PROVE k + 1 \in X
  <2>1. ASSUME k + 1 <= n PROVE F[k + 1] \in Built
    <3>1. k + 1 \in 1..n /\ (k + 1) - 1 = k /\ k <= n
      BY <1>1, <2>1
    <3>2. F[k] \in Built /\ h[k + 1] \in EntryRec /\ Speaks(h[k + 1])
      BY <1>1, <1>12, <3>1
    <3>3. F[k + 1] = ClaudeAdd(F[k], h[k + 1])
      BY <1>9, <3>1
    <3> QED
      BY <3>2, <3>3, ClaudeAddIs
  <2> QED
    BY <2>1
<1> HIDE DEF X
<1>13. \A k \in Nat : k \in X
  BY <1>11, <1>12, Induction
<1>14. F \in [0..n -> Built]
  <2>1. \A k \in 0..n : F[k] \in Built
    BY <1>1, <1>13 DEF X
  <2> QED
    BY <1>10, <2>1
<1> QED
  BY <1>8, <1>9, <1>14 DEF BuiltUpTo, n

LEMMA TurnsAppend ==
  ASSUME NEW T \in Seq(TurnRec), NEW t \in TurnRec
  PROVE  /\ PartsOf(T) \in Seq(Seq(Part)) /\ t.parts \in Seq(Part)
         /\ PartsOf(Append(T, t)) = Append(PartsOf(T), t.parts)
<1> DEFINE n == Len(T)  a == Append(T, t)  w == t.parts  P == PartsOf(T)  R == Append(P, w)
<1>1. /\ n \in Nat /\ DOMAIN T = 1..n /\ DOMAIN a = 1..(n + 1) /\ a[n + 1] = t
      /\ \A l \in 1..n : a[l] = T[l] /\ T[l] \in TurnRec
  OBVIOUS
<1>2. w \in Seq(Part) /\ \A l \in 1..n : T[l].parts \in Seq(Part)
  BY <1>1 DEF TurnRec
<1> HIDE DEF n, a, w
<1>3. P = [l \in 1..n |-> T[l].parts]
  BY <1>1 DEF PartsOf
<1> HIDE DEF P
<1>4. P \in Seq(Seq(Part)) /\ Len(P) = n /\ \A l \in 1..n : P[l] = T[l].parts
  <2>1. P \in [1..n -> Seq(Part)]
    BY <1>2, <1>3
  <2>2. P \in Seq(Seq(Part)) /\ Len(P) = n
    BY <1>1, <2>1, SeqDef
  <2>3. \A l \in 1..n : P[l] = T[l].parts
    BY <1>3
  <2> QED
    BY <2>2, <2>3
<1>5. PartsOf(a) = [l \in 1..(n + 1) |-> a[l].parts]
  BY <1>1 DEF PartsOf
<1>6. /\ R \in Seq(Seq(Part)) /\ Len(R) = n + 1
      /\ \A l \in 1..n : R[l] = P[l]
      /\ R[n + 1] = w
  BY <1>2, <1>4, AppendProperties
<1> HIDE DEF R
<1>7. \A l \in 1..(n + 1) : R[l] = a[l].parts
  <2>1. \A l \in 1..(n + 1) : l \in 1..n \/ l = n + 1
    BY <1>1
  <2>2. ASSUME NEW l \in 1..n PROVE R[l] = a[l].parts
    BY <1>1, <1>4, <1>6
  <2>3. R[n + 1] = a[n + 1].parts
    BY <1>1, <1>6 DEF w
  <2> QED
    BY <2>1, <2>2, <2>3
<1>8. R = [l \in 1..(n + 1) |-> R[l]]
  BY <1>6
<1>9. PartsOf(a) = R
  BY <1>5, <1>7, <1>8
<1> QED
  BY <1>2, <1>4, <1>9 DEF P, R, a, w

\* Flushing lays what waits.
LEMMA FlushLays ==
  ASSUME NEW r, NEW q, Row(q, r), NEW k \in 0..Len(r), NEW b \in Built,
         Laid(PartsOf(b.turns), b.pending, q, r, k)
  PROVE  Laid(PartsOf(Flush(b).turns), <<>>, q, r, k)
<1>1. b.turns \in Seq(TurnRec) /\ b.pending \in Seq(Part)
  BY DEF Built
<1>2. CASE b.pending = <<>>
  BY <1>2, FlushIs
<1>3. CASE b.pending # <<>>
  <2> DEFINE t == Turn("user", b.pending)
  <2>1. t \in TurnRec /\ t.parts = b.pending
    BY <1>1 DEF Turn, TurnRec
  <2>2. Flush(b).turns = Append(b.turns, t)
    BY <1>3, FlushIs
  <2> HIDE DEF t
  <2>3. PartsOf(Flush(b).turns) = Append(PartsOf(b.turns), b.pending)
    BY <1>1, <2>1, <2>2, TurnsAppend
  <2> QED
    BY <2>3, LaidFlush
<1> QED
  BY <1>2, <1>3

\* Claude's are the questions and the answers, and the results between them.
LEMMA ClaudeLaid ==
  ASSUME NEW h, Speaking(h), NEW q, Row(q, Pieces("claude", h))
  PROVE  Laid(PartsOf(ClaudeBody(h).turns), <<>>, q, Pieces("claude", h), Len(h))
<1> DEFINE n == Len(h)  r == Pieces("claude", h)
<1>1. /\ h \in Seq(EntryRec) /\ "claude" \in Family
      /\ \A k \in 1..n : Speaks(h[k])
  BY DEF Speaking, Family
<1>2. /\ n \in Nat /\ r \in Seq(Seq(Part)) /\ Len(r) = n
      /\ \A k \in 1..n : h[k] \in EntryRec /\ r[k] = PiecesOf("claude", h[k])
  BY <1>1, PiecesRow
<1>3. Row(q, r)
  OBVIOUS
<1>4. PICK F \in [0..n -> Built] :
         /\ BuiltUpTo(F, h)
         /\ ClaudeBody(h) = [system |-> Flush(F[n]).system, turns |-> Flush(F[n]).turns]
  BY ClaudeBuilds
<1>5. F[0] = Unbuilt /\ \A k \in 1..n : F[k] = ClaudeAdd(F[k - 1], h[k])
  BY <1>4 DEF BuiltUpTo
<1> DEFINE Good(k) == Laid(PartsOf(F[k].turns), F[k].pending, q, r, k)
           X == {k \in Nat : k <= n => Good(k)}
<1> HIDE DEF n, r
<1>6. 0 \in X
  <2>1. PartsOf(<<>>) = <<>>
    BY DEF PartsOf
  <2>2. Laid(<<>>, <<>>, q, r, 0)
    BY <1>3, LaidStart
  <2>3. F[0].turns = <<>> /\ F[0].pending = <<>>
    BY <1>5 DEF Unbuilt
  <2> QED
    BY <2>1, <2>2, <2>3
<1>7. ASSUME NEW k \in Nat, k \in X PROVE k + 1 \in X
  <2>1. ASSUME k + 1 <= n PROVE Good(k + 1)
    <3> DEFINE b == F[k]  c == F[k + 1]  m == h[k + 1]
    <3>1. /\ k + 1 \in 1..n /\ k + 1 \in 1..Len(r) /\ (k + 1) - 1 = k /\ k <= n /\ k \in 0..Len(r)
          /\ k \in 0..n
      BY <1>2, <2>1
    <3>2. m \in EntryRec /\ Speaks(m) /\ b \in Built /\ r[k + 1] = PiecesOf("claude", m)
      BY <1>1, <1>2, <1>4, <3>1
    <3>3. Laid(PartsOf(b.turns), b.pending, q, r, (k + 1) - 1)
      BY <1>7, <3>1
    <3>4. c = ClaudeAdd(b, m)
      BY <1>5, <3>1
    <3> HIDE DEF b, c, m
    <3>5. CASE m.role = "system"
      <4>1. m.calls = <<>>
        BY <3>2, <3>5 DEF Speaks
      <4>2. r[k + 1] = <<>>
        BY <1>1, <3>2, <3>5, <4>1, NoCalls DEF FrontOf
      <4>3. \A j \in 1..Len(r[k + 1]) : ~IsCall(r[k + 1][j])
        BY <4>2
      <4>4. Laid(PartsOf(b.turns), b.pending \o r[k + 1], q, r, k + 1)
        BY <1>3, <3>1, <3>3, <4>3, LaidWait
      <4>5. b.pending \o r[k + 1] = b.pending
        <5>1. b.pending \in Seq(Part)
          BY <3>2 DEF Built
        <5> QED
          BY <4>2, <5>1, ConcatEmptySeq
      <4>6. c.turns = b.turns /\ c.pending = b.pending
        BY <3>2, <3>4, <3>5, ClaudeAddIs
      <4> QED
        BY <4>4, <4>5, <4>6 DEF c
    <3>6. CASE m.role = "tool"
      <4>1. m.calls = <<>>
        BY <3>2, <3>6 DEF Speaks
      <4>2. r[k + 1] = <<Result(m.of, m.text)>>
        BY <1>1, <3>2, <3>6, <4>1, NoCalls DEF FrontOf
      <4>3. \A j \in 1..Len(r[k + 1]) : ~IsCall(r[k + 1][j])
        BY <4>2 DEF IsCall, Result
      <4>4. Laid(PartsOf(b.turns), b.pending \o r[k + 1], q, r, k + 1)
        BY <1>3, <3>1, <3>3, <4>3, LaidWait
      <4>5. b.pending \o r[k + 1] = Append(b.pending, Result(m.of, m.text))
        <5>1. b.pending \in Seq(Part) /\ Result(m.of, m.text) \in Part
          BY <3>2 DEF Built, EntryRec, Result, Part, Key
        <5> QED
          BY <4>2, <5>1, AppendIsConcat
      <4>6. c.turns = b.turns /\ c.pending = Append(b.pending, Result(m.of, m.text))
        BY <3>2, <3>4, <3>6, ClaudeAddIs
      <4> QED
        BY <4>4, <4>5, <4>6 DEF c
    <3>7. CASE m.role \in {"user", "assistant"}
      <4>1. c.turns = Append(Flush(b).turns, ClaudeTurn(m)) /\ c.pending = <<>>
        BY <3>2, <3>4, <3>7, ClaudeAddIs
      <4>2. ClaudeTurn(m).parts = r[k + 1]
        BY <3>2, <3>7, ClaudeTurnIs
      <4>3. Laid(PartsOf(Flush(b).turns), <<>>, q, r, (k + 1) - 1)
        BY <1>3, <3>1, <3>2, <3>3, FlushLays
      <4>4. Laid(Append(PartsOf(Flush(b).turns), r[k + 1]), <<>>, q, r, k + 1)
        BY <1>3, <3>1, <4>3, LaidAdd
      <4>5. PartsOf(c.turns) = Append(PartsOf(Flush(b).turns), r[k + 1])
        <5>1. Flush(b).turns \in Seq(TurnRec)
          BY <3>2, FlushIs DEF Built
        <5>2. ClaudeTurn(m) \in TurnRec
          BY <3>2, <3>7, ClaudeTurnType
        <5> QED
          BY <4>1, <4>2, <5>1, <5>2, TurnsAppend
      <4> QED
        BY <4>1, <4>4, <4>5 DEF c
    <3>8. m.role \in {"user", "assistant", "system", "tool"}
      BY <3>2 DEF EntryRec
    <3> QED
      BY <3>5, <3>6, <3>7, <3>8
  <2> QED
    BY <2>1
<1> HIDE DEF Good, X
<1>8. \A k \in Nat : k \in X
  BY <1>6, <1>7, Induction
<1>9. Laid(PartsOf(F[n].turns), F[n].pending, q, r, n)
  BY <1>2, <1>8 DEF X, Good
<1>10. F[n] \in Built /\ n \in 0..Len(r)
  BY <1>2, <1>4
<1>11. Laid(PartsOf(Flush(F[n]).turns), <<>>, q, r, n)
  BY <1>3, <1>9, <1>10, FlushLays
<1>12. ClaudeBody(h).turns = Flush(F[n]).turns
  BY <1>4
<1> QED
  BY <1>11, <1>12 DEF r, n

\* In every family the body is the row of the pieces of the history.
LEMMA BodyLaid ==
  ASSUME NEW family \in Family, NEW h, Speaking(h), NEW q, Row(q, Pieces(family, h)), NEW defs
  PROVE  Laid(PartsOf(BodyOf(family, h, defs).turns), <<>>, q, Pieces(family, h), Len(h))
<1>1. CASE family = "openai"
  <2>1. BodyOf(family, h, defs).turns = OpenAIBody(h).turns
    BY <1>1 DEF BodyOf
  <2> QED
    BY <1>1, <2>1, OpenAILaid
<1>2. CASE family = "claude"
  <2>1. BodyOf(family, h, defs).turns = ClaudeBody(h).turns
    BY <1>2 DEF BodyOf
  <2> QED
    BY <1>2, <2>1, ClaudeLaid
<1>3. CASE family = "gemini"
  <2>1. BodyOf(family, h, defs).turns = GeminiBody(h).turns
    BY <1>3 DEF BodyOf
  <2> QED
    BY <1>3, <2>1, GeminiLaid
<1> QED
  BY <1>1, <1>2, <1>3 DEF Family

-----------------------------------------------------------------------------
(* Every call has its result *)

\* After the entry with calls come their results, in their order.
Answered(h) ==
    \A k \in 1..Len(h) : \A j \in 1..Len(h[k].calls) :
        /\ k + j <= Len(h)
        /\ h[k + j].role = "tool"
        /\ h[k + j].of = h[k].calls[j].id /\ h[k + j].name = h[k].calls[j].name

\* What is in the row keeps its place.
LEMMA RowGrows ==
  ASSUME NEW r, NEW q, Row(q, r), NEW a \in 0..Len(r), NEW b \in 0..Len(r), a <= b
  PROVE  /\ Len(q[a]) \in Nat /\ Len(q[b]) \in Nat /\ Len(q[a]) <= Len(q[b])
         /\ \A x \in 1..Len(q[a]) : q[b][x] = q[a][x]
<1> DEFINE n == Len(r)
           Good(m) == Len(q[a]) <= Len(q[m]) /\ \A x \in 1..Len(q[a]) : q[m][x] = q[a][x]
           X == {d \in Nat : a + d <= n => Good(a + d)}
<1>1. n \in Nat /\ \A k \in 0..n : q[k] \in Seq(Part) /\ Len(q[k]) \in Nat
  <2>1. \A k \in 0..n : q[k] \in Seq(Part)
    BY DEF Row
  <2>2. n \in Nat
    BY DEF Row
  <2>3. \A s \in Seq(Part) : Len(s) \in Nat
    OBVIOUS
  <2> QED
    BY <2>1, <2>2, <2>3
<1>2. \A k \in 1..n : q[k] = q[k - 1] \o r[k] /\ r[k] \in Seq(Part)
  BY RowStep
<1>3. a \in Nat /\ a <= n /\ a \in 0..n
  BY <1>1
<1> HIDE DEF n
<1>4. 0 \in X
  <2>1. a + 0 = a /\ Len(q[a]) \in Nat
    BY <1>1, <1>3
  <2> QED
    BY <2>1
<1>5. ASSUME NEW d \in Nat, d \in X PROVE d + 1 \in X
  <2>1. ASSUME a + (d + 1) <= n PROVE Good(a + (d + 1))
    <3> DEFINE s == q[a + d]  t == r[a + (d + 1)]  u == q[a + (d + 1)]
    <3>1. /\ a + (d + 1) \in 1..n /\ (a + (d + 1)) - 1 = a + d /\ a + d <= n /\ a + d \in 0..n
      BY <1>1, <1>3, <2>1
    <3>2. Good(a + d)
      BY <1>5, <3>1
    <3>3. u = s \o t /\ s \in Seq(Part) /\ t \in Seq(Part)
      BY <1>1, <1>2, <3>1
    <3> HIDE DEF s, t, u
    <3>4. /\ Len(u) = Len(s) + Len(t) /\ Len(s) \in Nat /\ Len(t) \in Nat
          /\ \A x \in 1..Len(s) : u[x] = s[x]
      BY <3>3
    <3>5. Len(q[a]) <= Len(s) /\ \A x \in 1..Len(q[a]) : s[x] = q[a][x]
      BY <3>2 DEF s
    <3>6. Len(q[a]) \in Nat
      BY <1>1, <1>3
    <3>7. Len(q[a]) <= Len(u) /\ \A x \in 1..Len(q[a]) : u[x] = q[a][x]
      <4>1. \A x \in 1..Len(q[a]) : x \in 1..Len(s)
        BY <3>4, <3>5, <3>6
      <4> QED
        BY <3>4, <3>5, <3>6, <4>1
    <3> QED
      BY <3>7 DEF u
  <2> QED
    BY <2>1
<1> HIDE DEF X, Good
<1>6. \A d \in Nat : d \in X
  BY <1>4, <1>5, Induction
<1>7. b - a \in Nat /\ a + (b - a) = b /\ b <= n /\ b \in 0..n
  BY <1>1, <1>3 DEF n
<1>8. Good(b)
  BY <1>6, <1>7 DEF X
<1> QED
  BY <1>1, <1>3, <1>7, <1>8 DEF Good

\* The result of the j-th call of the k-th entry is the j-th behind its pieces.
Follows(family, h, q, k, j) ==
    /\ Len(q[k]) + j <= Len(q[Len(h)])
    /\ q[Len(h)][Len(q[k]) + j] = Result(KeyOf(family, h[k].calls[j]), h[k + j].text)

LEMMA ResultsFollow ==
  ASSUME NEW family \in Family, NEW h, Speaking(h), Answered(h), NEW q, Row(q, Pieces(family, h)),
         NEW k \in 1..Len(h), NEW j \in 1..Len(h[k].calls)
  PROVE  Follows(family, h, q, k, j)
<1> DEFINE n == Len(h)  r == Pieces(family, h)  c == Len(h[k].calls)
           X == {d \in Nat : d <= c => Len(q[k + d]) = Len(q[k]) + d}
<1>1. h \in Seq(EntryRec) /\ \A l \in 1..n : Speaks(h[l])
  BY DEF Speaking
<1>2. /\ n \in Nat /\ Len(r) = n
      /\ \A l \in 1..n : h[l] \in EntryRec /\ r[l] = PiecesOf(family, h[l])
  BY <1>1, PiecesRow
<1>3. c \in Nat /\ k \in Nat
  BY <1>2, CallsType
<1>4. \A l \in 1..n : /\ q[l] = q[l - 1] \o r[l] /\ r[l] \in Seq(Part)
                      /\ q[l - 1] \in Seq(Part) /\ q[l] \in Seq(Part)
  BY <1>2, RowStep
<1>5. ASSUME NEW d \in 1..c
      PROVE  k + d \in 1..n /\ r[k + d] = <<Result(KeyOf(family, h[k].calls[d]), h[k + d].text)>>
  <2>1. /\ k + d <= n /\ h[k + d].role = "tool"
        /\ h[k + d].of = h[k].calls[d].id /\ h[k + d].name = h[k].calls[d].name
    BY DEF Answered
  <2>2. k + d \in 1..n
    BY <1>2, <1>3, <2>1
  <2>3. h[k + d] \in EntryRec /\ h[k + d].calls = <<>> /\ r[k + d] = PiecesOf(family, h[k + d])
    BY <1>1, <1>2, <2>1, <2>2 DEF Speaks
  <2>4. r[k + d] = FrontOf(family, h[k + d])
    BY <2>3, NoCalls
  <2>5. FrontOf(family, h[k + d])
            = <<Result(IF family = "gemini" THEN h[k + d].name ELSE h[k + d].of, h[k + d].text)>>
    BY <2>1 DEF FrontOf
  <2> QED
    BY <2>1, <2>2, <2>4, <2>5 DEF KeyOf
<1> HIDE DEF n, r, c
<1>6. Len(q[k]) \in Nat
  <2>1. q[k] \in Seq(Part)
    BY <1>4 DEF n
  <2> QED
    BY <2>1
<1>7. 0 \in X
  <2>1. k + 0 = k /\ Len(q[k]) = Len(q[k]) + 0
    BY <1>3, <1>6
  <2> QED
    BY <2>1
<1>8. ASSUME NEW d \in Nat, d + 1 <= c
      PROVE  /\ Len(q[k + (d + 1)]) = Len(q[k + d]) + 1
             /\ q[k + (d + 1)][Len(q[k + d]) + 1]
                    = Result(KeyOf(family, h[k].calls[d + 1]), h[k + (d + 1)].text)
  <2>1. d + 1 \in 1..c /\ (k + (d + 1)) - 1 = k + d
    BY <1>3, <1>8
  <2>2. k + (d + 1) \in 1..n /\ r[k + (d + 1)] = <<Result(KeyOf(family, h[k].calls[d + 1]), h[k + (d + 1)].text)>>
    BY <1>5, <2>1
  <2>3. q[k + (d + 1)] = q[k + d] \o r[k + (d + 1)] /\ q[k + d] \in Seq(Part) /\ r[k + (d + 1)] \in Seq(Part)
    BY <1>4, <2>1, <2>2
  <2> DEFINE s == q[k + d]  e == Result(KeyOf(family, h[k].calls[d + 1]), h[k + (d + 1)].text)
  <2>4. q[k + (d + 1)] = s \o <<e>> /\ s \in Seq(Part) /\ <<e>> \in Seq(Part)
    BY <2>2, <2>3
  <2> HIDE DEF s, e
  <2>5. Len(s \o <<e>>) = Len(s) + 1 /\ (s \o <<e>>)[Len(s) + 1] = e
    BY <2>4
  <2> QED
    BY <2>4, <2>5 DEF s, e
<1>9. ASSUME NEW d \in Nat, d \in X PROVE d + 1 \in X
  <2>1. ASSUME d + 1 <= c PROVE Len(q[k + (d + 1)]) = Len(q[k]) + (d + 1)
    <3>1. Len(q[k + d]) = Len(q[k]) + d
      BY <1>3, <1>9, <2>1
    <3>2. Len(q[k + (d + 1)]) = Len(q[k + d]) + 1
      BY <1>8, <2>1
    <3>3. (Len(q[k]) + d) + 1 = Len(q[k]) + (d + 1)
      <4>1. \A x \in Nat : (x + d) + 1 = x + (d + 1)
        OBVIOUS
      <4> QED
        BY <1>6, <4>1, Zenon
    <3> QED
      BY <3>1, <3>2, <3>3, Zenon
  <2>2. d + 1 \in Nat
    OBVIOUS
  <2> QED
    BY <2>1, <2>2, Zenon
<1> HIDE DEF X
<1>10. \A d \in Nat : d \in X
  BY <1>7, <1>9, Induction
<1>11. j \in 1..c
  BY DEF c
<1>12. j - 1 \in Nat /\ (j - 1) + 1 = j /\ j <= c /\ j - 1 <= c /\ j \in Nat
  BY <1>3, <1>11
<1>13. Len(q[k + j]) = Len(q[k]) + j /\ Len(q[k + (j - 1)]) = Len(q[k]) + (j - 1)
  BY <1>10, <1>12 DEF X
<1>14. q[k + j][Len(q[k]) + j] = Result(KeyOf(family, h[k].calls[j]), h[k + j].text)
  <2>1. q[k + j][Len(q[k + (j - 1)]) + 1] = Result(KeyOf(family, h[k].calls[j]), h[k + j].text)
    BY <1>8, <1>12
  <2>2. Len(q[k + (j - 1)]) + 1 = Len(q[k]) + j
    BY <1>6, <1>12, <1>13
  <2> QED
    BY <2>1, <2>2
<1>15. k + j \in 0..Len(r) /\ n \in 0..Len(r) /\ k + j <= n
  <2>1. k + j \in 1..n
    BY <1>5, <1>11
  <2> QED
    BY <1>2, <2>1
<1>16. /\ Len(q[k + j]) \in Nat /\ Len(q[n]) \in Nat /\ Len(q[k + j]) <= Len(q[n])
       /\ \A x \in 1..Len(q[k + j]) : q[n][x] = q[k + j][x]
  <2>1. Row(q, r)
    BY DEF r
  <2> QED
    BY <1>15, <2>1, RowGrows
<1>17. Len(q[k]) + j \in 1..Len(q[k + j])
  BY <1>6, <1>12, <1>13
<1> QED
  BY <1>13, <1>14, <1>16, <1>17 DEF n, Follows

\* A body of an answered history has the result of every call behind it.
LEMMA BodyAnswers ==
  ASSUME NEW family \in Family, NEW h, Speaking(h), Answered(h), NEW defs,
         body = BodyOf(family, h, defs)
  PROVE  EveryCallHasItsResult
<1> DEFINE n == Len(h)  r == Pieces(family, h)  P == PartsOf(body.turns)
<1>1. h \in Seq(EntryRec)
  BY DEF Speaking
<1>2. PICK q : Row(q, r)
  BY <1>1, PiecesRow
<1>3. /\ n \in Nat /\ Len(r) = n
      /\ \A l \in 1..n : h[l] \in EntryRec /\ r[l] = PiecesOf(family, h[l])
  BY <1>1, PiecesRow
<1>4. Laid(P, <<>>, q, r, n)
  BY <1>2, BodyLaid
<1>5. P \in Seq(Seq(Part)) /\ DOMAIN P = DOMAIN body.turns /\ \A k \in DOMAIN body.turns : P[k] = body.turns[k].parts
  BY <1>4 DEF Laid, PartsOf
<1>6. Parts = q[n]
  <2>1. Parts = FlattenSeq(P)
    BY DEF Parts, PartsOf
  <2>2. FlattenSeq(P) \in Seq(Part)
    <3>1. <<>> \in Seq(Part)
      OBVIOUS
    <3> HIDE DEF P
    <3> QED
      BY <1>5, <3>1, FlattenAppend
  <2>3. FlattenSeq(P) \o <<>> = q[n]
    BY <1>4 DEF Laid
  <2> QED
    BY <2>1, <2>2, <2>3, ConcatEmptySeq
<1> HIDE DEF P
<1>7. DOMAIN body.turns = 1..Len(P) /\ Len(P) \in Nat
  BY <1>5
<1>8. ASSUME NEW t \in DOMAIN body.turns
      PROVE  FlattenSeq([k \in 1..t |-> body.turns[k].parts]) = InRow(P, t)
  <2>1. \A k \in 1..t : k \in DOMAIN body.turns
    BY <1>7
  <2>2. [k \in 1..t |-> body.turns[k].parts] = [k \in 1..t |-> P[k]]
    BY <1>5, <2>1
  <2> QED
    BY <2>2 DEF InRow
<1> SUFFICES ASSUME NEW t \in DOMAIN body.turns, NEW j \in DOMAIN CallsIn(body.turns[t].parts)
             PROVE  LET before == Len(FlattenSeq([k \in 1..t |-> body.turns[k].parts]))
                    IN  /\ before + j <= Len(Parts)
                        /\ Parts[before + j].kind = "result"
                        /\ Parts[before + j].key = CallsIn(body.turns[t].parts)[j].key
  BY DEF EveryCallHasItsResult
<1>9. P[t] = body.turns[t].parts /\ P[t] \in Seq(Part) /\ t \in 1..Len(P)
  <2>1. t \in 1..Len(P)
    BY <1>7
  <2>2. P[t] \in Seq(Part)
    BY <1>5, <2>1
  <2> QED
    BY <1>5, <2>1, <2>2
<1>10. \E x \in 1..Len(P[t]) : IsCall(P[t][x])
  <2>1. ASSUME \A x \in 1..Len(P[t]) : ~IsCall(P[t][x]) PROVE FALSE
    <3>1. CallsIn(P[t]) = <<>>
      BY <1>9, <2>1, NoneAreCalls
    <3> QED
      BY <1>9, <3>1
  <2> QED
    BY <2>1
<1>11. PICK k \in 1..n : P[t] = r[k] /\ InRow(P, t) = q[k]
  <2>1. Anchored(P, t, q, r, n)
    BY <1>4, <1>9 DEF Laid
  <2> QED
    BY <1>10, <2>1 DEF Anchored
<1>12. CallsIn(P[t]) = CallsOf(family, h[k])
  BY <1>3, <1>11, PiecesType
<1>13. /\ j \in 1..Len(h[k].calls)
       /\ CallsIn(P[t])[j].key = KeyOf(family, h[k].calls[j])
  <2>1. h[k] \in EntryRec
    BY <1>3
  <2>2. CallsOf(family, h[k]) \in Seq(Part) /\ Len(CallsOf(family, h[k])) = Len(h[k].calls)
    BY <2>1, CallsType
  <2>3. DOMAIN CallsOf(family, h[k]) = 1..Len(h[k].calls)
    BY <2>2
  <2>4. j \in 1..Len(h[k].calls)
    BY <1>9, <1>12, <2>3
  <2>5. CallsOf(family, h[k])[j] = Call(KeyOf(family, h[k].calls[j]), ArgsOf(family, h[k].calls[j].args))
    BY <2>1, <2>4, CallsType
  <2> QED
    BY <1>12, <2>4, <2>5 DEF Call
<1>14. /\ Len(q[k]) + j <= Len(q[n])
       /\ q[n][Len(q[k]) + j] = Result(KeyOf(family, h[k].calls[j]), h[k + j].text)
  <2>1. k \in 1..Len(h) /\ j \in 1..Len(h[k].calls) /\ Row(q, Pieces(family, h))
    BY <1>2, <1>13
  <2>2. Speaking(h) /\ Answered(h) /\ family \in Family
    OBVIOUS
  <2>3. Follows(family, h, q, k, j)
    BY <2>1, <2>2, ResultsFollow
  <2> QED
    BY <2>3 DEF Follows
<1>15. Len(FlattenSeq([l \in 1..t |-> body.turns[l].parts])) = Len(q[k])
  BY <1>8, <1>11
<1>16. /\ Parts[Len(q[k]) + j].kind = "result"
       /\ Parts[Len(q[k]) + j].key = KeyOf(family, h[k].calls[j])
  BY <1>6, <1>14 DEF Result
<1>17. CallsIn(body.turns[t].parts)[j].key = KeyOf(family, h[k].calls[j])
  BY <1>9, <1>13
<1>18. Len(q[k]) + j <= Len(Parts)
  BY <1>6, <1>14
<1> QED
  BY <1>15, <1>16, <1>17, <1>18, Zenon

-----------------------------------------------------------------------------
(* The history is told *)

\* Only the first entry may be the system's: the summary.
SummaryFirst(h) == \A k \in 1..Len(h) : h[k].role = "system" => k = 1

LEMMA TextsInTwo ==
  ASSUME NEW S, \A x \in S : x.text \in Int, NEW a \in Seq(S), NEW b \in Seq(S)
  PROVE  /\ TextsOf(a) \in Seq(Int) /\ TextsOf(b) \in Seq(Int)
         /\ TextsOf(a \o b) = TextsOf(a) \o TextsOf(b)
<1> DEFINE m == Len(a)  n == Len(b)  c == a \o b  s == TextsOf(a)  t == TextsOf(b)
<1>1. /\ m \in Nat /\ n \in Nat /\ DOMAIN a = 1..m /\ DOMAIN b = 1..n
      /\ \A k \in 1..m : a[k].text \in Int
      /\ \A k \in 1..n : b[k].text \in Int
  OBVIOUS
<1>2. /\ DOMAIN c = 1..(m + n) /\ \A k \in 1..(m + n) : c[k] = IF k <= m THEN a[k] ELSE b[k - m]
  OBVIOUS
<1> HIDE DEF m, n, c
<1>3. s = [k \in 1..m |-> a[k].text] /\ t = [k \in 1..n |-> b[k].text]
  BY <1>1 DEF TextsOf
<1> HIDE DEF s, t
<1>4. s \in Seq(Int) /\ t \in Seq(Int) /\ Len(s) = m /\ Len(t) = n
  <2>1. s \in [1..m -> Int] /\ t \in [1..n -> Int]
    BY <1>1, <1>3
  <2> QED
    BY <1>1, <2>1, SeqDef
<1> DEFINE u == s \o t
<1>5. u \in Seq(Int) /\ Len(u) = m + n /\ \A k \in 1..(m + n) : u[k] = IF k <= m THEN s[k] ELSE t[k - m]
  BY <1>4, ConcatProperties
<1> HIDE DEF u
<1>6. \A k \in 1..(m + n) : u[k] = c[k].text
  <2> TAKE k \in 1..(m + n)
  <2>1. CASE k <= m
    <3>1. k \in 1..m
      BY <1>1, <2>1
    <3>2. u[k] = s[k] /\ c[k] = a[k] /\ s[k] = a[k].text
      BY <1>2, <1>3, <1>5, <2>1, <3>1
    <3> QED
      BY <3>2
  <2>2. CASE ~(k <= m)
    <3>1. k - m \in 1..n
      BY <1>1, <2>2
    <3>2. u[k] = t[k - m] /\ c[k] = b[k - m] /\ t[k - m] = b[k - m].text
      BY <1>2, <1>3, <1>5, <2>2, <3>1
    <3> QED
      BY <3>2
  <2> QED
    BY <2>1, <2>2
<1>7. u = [k \in 1..(m + n) |-> u[k]]
  BY <1>5
<1>8. TextsOf(c) = [k \in 1..(m + n) |-> c[k].text]
  BY <1>2 DEF TextsOf
<1> QED
  BY <1>4, <1>6, <1>7, <1>8 DEF s, t, u, c

LEMMA TextsOfNone == TextsOf(<<>>) = <<>>
BY DEF TextsOf

LEMMA TextsOfOne ==
  ASSUME NEW x
  PROVE  TextsOf(<<x>>) = <<x.text>>
<1>1. DOMAIN <<x>> = 1..1 /\ 1..1 = {1} /\ <<x>>[1] = x
  OBVIOUS
<1>2. TextsOf(<<x>>) = [k \in 1..1 |-> <<x>>[k].text]
  BY <1>1 DEF TextsOf
<1>3. <<x.text>> = [k \in 1..1 |-> <<x>>[k].text]
  OBVIOUS
<1> QED
  BY <1>2, <1>3

\* What others than calls say is a number.
Saying == {p \in Part : ~IsCall(p)}

LEMMA OthersSay ==
  ASSUME NEW a \in Seq(Part)
  PROVE  Others(a) \in Seq(Saying) /\ \A p \in Saying : p.text \in Int
<1>1. \A k \in 1..Len(a) : k \in {l \in DOMAIN a : ~IsCall(a[l])} => a[k] \in Saying
  BY DEF Saying
<1>2. Others(a) \in Seq(Saying)
  BY <1>1, PickedIn DEF Others
<1>3. \A p \in Saying : p.text \in Int
  BY DEF Saying, Part, IsCall
<1> QED
  BY <1>2, <1>3

\* The front of an entry is its text if the family is told it, and Claude is told the
\* texts of the system elsewhere.
LEMMA FrontTexts ==
  ASSUME NEW family \in Family, NEW m \in EntryRec, Speaks(m),
         family = "claude" => m.role # "system"
  PROVE  TextsOf(FrontOf(family, m)) = IF IsTold(family, m) THEN <<m.text>> ELSE <<>>
<1>1. m.role \in {"user", "assistant", "system", "tool"}
  BY DEF EntryRec
<1>2. TextsOf(<<TextPart(m.text)>>) = <<m.text>>
  BY TextsOfOne DEF TextPart
<1>3. \A key : TextsOf(<<Result(key, m.text)>>) = <<m.text>>
  BY TextsOfOne DEF Result
<1>4. m.role \in {"tool", "system"} => m.calls = <<>>
  BY DEF Speaks
<1>5. CASE m.role = "system" /\ family # "openai"
  <2>1. family = "gemini" /\ ~IsTold(family, m)
    BY <1>5 DEF Family, IsTold
  <2> QED
    BY <1>5, <2>1, TextsOfNone DEF FrontOf
<1>6. CASE m.role = "tool"
  <2>1. IsTold(family, m)
    BY <1>4, <1>6 DEF Family, IsTold
  <2> QED
    BY <1>3, <1>6, <2>1 DEF FrontOf
<1>7. CASE m.role # "tool" /\ ~(m.role = "system" /\ family # "openai")
  BY <1>2, <1>7, TextsOfNone DEF FrontOf
<1> QED
  BY <1>5, <1>6, <1>7

\* The texts for the system of the first k entries, which Claude is told in front.
SystemTexts(Z, family, h) ==
    /\ Z \in [0..Len(h) -> Seq(Int)] /\ Z[0] = <<>>
    /\ \A k \in 1..Len(h) : Z[k] = IF family = "claude" /\ h[k].role = "system"
                                   THEN Append(Z[k - 1], h[k].text) ELSE Z[k - 1]

\* The entries whose texts a family is told.
ToldOf(family, h) == {k \in DOMAIN h : IsTold(family, h[k])}

LEMMA ToldInTheRow ==
  ASSUME NEW family \in Family, NEW h, Speaking(h), SummaryFirst(h),
         NEW q, Row(q, Pieces(family, h)), NEW Z, SystemTexts(Z, family, h)
  PROVE  Z[Len(h)] \o TextsOf(Others(q[Len(h)])) = TextsOf(Picked(h, ToldOf(family, h)))
<1> DEFINE n == Len(h)  r == Pieces(family, h)  I == ToldOf(family, h)
<1>1. h \in Seq(EntryRec) /\ \A l \in 1..n : Speaks(h[l]) /\ (h[l].role = "system" => l = 1)
  BY DEF Speaking, SummaryFirst
<1>2. /\ n \in Nat /\ Len(r) = n
      /\ \A l \in 1..n : h[l] \in EntryRec /\ r[l] = PiecesOf(family, h[l])
  BY <1>1, PiecesRow
<1>3. \A l \in 1..n : q[l] = q[l - 1] \o r[l] /\ r[l] \in Seq(Part) /\ q[l - 1] \in Seq(Part)
  BY <1>2, RowStep
<1>4. q[0] = <<>>
  BY DEF Row, RowOf
<1>5. PICK H \in [0..n -> Seq(EntryRec)] : PicksUpTo(H, h, I) /\ Picked(h, I) = H[n]
  <2> HIDE DEF I
  <2> QED
    BY <1>1, PickedUnfolds
<1>6. /\ H[0] = <<>>
      /\ \A l \in 1..n : H[l] = IF l \in I THEN Append(H[l - 1], h[l]) ELSE H[l - 1]
  BY <1>5 DEF PicksUpTo
<1>7. \A l \in 1..n : l \in I <=> IsTold(family, h[l])
  <2>1. DOMAIN h = 1..n
    BY <1>1
  <2> QED
    BY <2>1 DEF ToldOf
<1>8. /\ Z \in [0..n -> Seq(Int)] /\ Z[0] = <<>>
      /\ \A l \in 1..n : Z[l] = IF family = "claude" /\ h[l].role = "system"
                                THEN Append(Z[l - 1], h[l].text) ELSE Z[l - 1]
  BY DEF SystemTexts
<1> DEFINE Good(l) == Z[l] \o TextsOf(Others(q[l])) = TextsOf(H[l])
           X == {l \in Nat : l <= n => Good(l)}
<1> HIDE DEF n, r, I
<1>9. Others(<<>>) = <<>>
  <2>1. <<>> \in Seq(Part) /\ \A x \in 1..Len(<<>>) : ~IsCall(<<>>[x])
    OBVIOUS
  <2> QED
    BY <2>1, NoneAreCalls
<1>10. 0 \in X
  <2>1. <<>> \o <<>> = <<>>
    <3>1. <<>> \in Seq(Part)
      OBVIOUS
    <3> QED
      BY <3>1, ConcatEmptySeq
  <2> QED
    BY <1>4, <1>6, <1>8, <1>9, <2>1, TextsOfNone
<1>11. ASSUME NEW k \in Nat, k \in X PROVE k + 1 \in X
  <2>1. ASSUME k + 1 <= n PROVE Good(k + 1)
    <3> DEFINE m == h[k + 1]
    <3>1. /\ k + 1 \in 1..n /\ (k + 1) - 1 = k /\ k <= n /\ k \in 0..n
      BY <1>2, <2>1
    <3>2. /\ m \in EntryRec /\ Speaks(m) /\ (m.role = "system" => k = 0)
          /\ r[k + 1] = PiecesOf(family, m) /\ H[k] \in Seq(EntryRec) /\ Z[k] \in Seq(Int)
      <4>1. m \in EntryRec /\ Speaks(m) /\ (m.role = "system" => k + 1 = 1)
        BY <1>1, <1>2, <3>1
      <4>2. k + 1 = 1 => k = 0
        OBVIOUS
      <4>3. r[k + 1] = PiecesOf(family, m)
        BY <1>2, <3>1
      <4>4. H[k] \in Seq(EntryRec) /\ Z[k] \in Seq(Int)
        BY <1>5, <1>8, <3>1
      <4> QED
        BY <4>1, <4>2, <4>3, <4>4
    <3>3. Good(k)
      BY <1>11, <3>1
    <3>4. /\ q[k + 1] = q[k] \o r[k + 1] /\ r[k + 1] \in Seq(Part) /\ q[k] \in Seq(Part)
      BY <1>3, <3>1
    <3>5. H[k + 1] = IF IsTold(family, m) THEN Append(H[k], m) ELSE H[k]
      BY <1>6, <1>7, <3>1
    <3>6. Z[k + 1] = IF family = "claude" /\ m.role = "system" THEN Append(Z[k], m.text) ELSE Z[k]
      BY <1>8, <3>1
    <3> HIDE DEF m
    <3>7. Others(q[k + 1]) = Others(q[k]) \o FrontOf(family, m)
      <4>1. Others(q[k] \o r[k + 1]) = Others(q[k]) \o Others(r[k + 1])
        BY <3>4, PartsInTwo
      <4>2. Others(r[k + 1]) = FrontOf(family, m)
        BY <3>2, PiecesType
      <4> QED
        BY <3>4, <4>1, <4>2
    <3>8. CASE family = "claude" /\ m.role = "system"
      <4>1. k = 0 /\ m.calls = <<>>
        BY <3>2, <3>8 DEF Speaks
      <4>2. IsTold(family, m) /\ FrontOf(family, m) = <<>>
        BY <3>8, <4>1 DEF IsTold, FrontOf
      <4>3. H[k + 1] = <<m>> /\ Z[k + 1] = <<m.text>>
        <5>1. H[k] = <<>> /\ Z[k] = <<>>
          BY <1>6, <1>8, <4>1
        <5>2. H[k + 1] = Append(<<>>, m) /\ Z[k + 1] = Append(<<>>, m.text)
          BY <3>5, <3>6, <3>8, <4>2, <5>1
        <5> QED
          BY <5>2
      <4>4. Others(q[k + 1]) = <<>>
        <5>1. <<>> \o <<>> = <<>>
          <6>1. <<>> \in Seq(Part)
            OBVIOUS
          <6> QED
            BY <6>1, ConcatEmptySeq
        <5> QED
          BY <1>4, <1>9, <3>7, <4>1, <4>2, <5>1
      <4>5. <<m.text>> \o <<>> = <<m.text>>
        <5>1. m.text \in Int
          BY <3>2 DEF EntryRec
        <5>2. <<m.text>> \in Seq(Int)
          BY <5>1
        <5> QED
          BY <5>2, ConcatEmptySeq
      <4> QED
        BY <4>3, <4>4, <4>5, TextsOfNone, TextsOfOne
    <3>9. CASE ~(family = "claude" /\ m.role = "system")
      <4> DEFINE a == TextsOf(Others(q[k]))  b == TextsOf(FrontOf(family, m))
      <4>1. b = IF IsTold(family, m) THEN <<m.text>> ELSE <<>>
        BY <3>2, <3>9, FrontTexts
      <4>2. a \in Seq(Int) /\ b \in Seq(Int) /\ TextsOf(Others(q[k]) \o FrontOf(family, m)) = a \o b
        <5>1. Others(q[k]) \in Seq(Saying) /\ \A p \in Saying : p.text \in Int
          BY <3>4, OthersSay
        <5>2. FrontOf(family, m) \in Seq(Saying)
          <6>1. FrontOf(family, m) \in Seq(Part) /\ \A x \in 1..Len(FrontOf(family, m)) : ~IsCall(FrontOf(family, m)[x])
            BY <3>2, FrontType
          <6>2. Others(FrontOf(family, m)) = FrontOf(family, m)
            BY <6>1, NoneAreCalls
          <6> QED
            BY <6>1, <6>2, OthersSay
        <5> QED
          BY <5>1, <5>2, TextsInTwo
      <4>3. TextsOf(H[k + 1]) = TextsOf(H[k]) \o b
        <5>1. \A e \in EntryRec : e.text \in Int
          BY DEF EntryRec
        <5>2. <<m>> \in Seq(EntryRec) /\ <<>> \in Seq(EntryRec)
          BY <3>2
        <5>3. CASE IsTold(family, m)
          <6>1. H[k + 1] = H[k] \o <<m>>
            BY <3>2, <3>5, <5>3, AppendIsConcat
          <6>2. TextsOf(H[k] \o <<m>>) = TextsOf(H[k]) \o TextsOf(<<m>>)
            BY <3>2, <5>1, <5>2, TextsInTwo
          <6> QED
            BY <4>1, <5>3, <6>1, <6>2, TextsOfOne
        <5>4. CASE ~IsTold(family, m)
          <6>1. TextsOf(H[k]) \in Seq(Int)
            BY <3>2, <5>1, TextsInTwo
          <6> QED
            BY <3>5, <4>1, <5>4, <6>1, ConcatEmptySeq
        <5> QED
          BY <5>3, <5>4
      <4>4. Z[k + 1] = Z[k] /\ Z[k] \o a = TextsOf(H[k])
        BY <3>3, <3>6, <3>9
      <4> HIDE DEF a, b
      <4>5. Z[k] \o (a \o b) = (Z[k] \o a) \o b
        <5> DEFINE z == Z[k]
        <5>1. z \in Seq(Int) /\ a \in Seq(Int) /\ b \in Seq(Int)
          BY <3>2, <4>2
        <5> HIDE DEF z
        <5>2. z \o (a \o b) = (z \o a) \o b
          BY <5>1, ConcatAssociative
        <5> QED
          BY <5>2 DEF z
      <4>6. TextsOf(Others(q[k + 1])) = a \o b
        BY <3>7, <4>2
      <4> QED
        BY <4>3, <4>4, <4>5, <4>6
    <3> QED
      BY <3>8, <3>9
  <2> HIDE DEF Good
  <2> QED
    BY <2>1
<1> HIDE DEF X, Good
<1>12. \A k \in Nat : k \in X
  BY <1>10, <1>11, Induction
<1>13. Good(n)
  BY <1>2, <1>12 DEF X
<1> QED
  BY <1>5, <1>13 DEF Good, n, I

LEMMA SystemTold ==
  ASSUME NEW family \in Family, NEW h, Speaking(h), NEW defs
  PROVE  \E Z : SystemTexts(Z, family, h) /\ BodyOf(family, h, defs).system = Z[Len(h)]
<1> DEFINE n == Len(h)
<1>1. n \in Nat /\ \A k \in 1..n : h[k] \in EntryRec /\ Speaks(h[k])
  BY DEF Speaking
<1>2. CASE family # "claude"
  <2> DEFINE Z == [k \in 0..n |-> <<>>]
  <2>1. <<>> \in Seq(Int) /\ n \in 0..n /\ 0 \in 0..n
    BY <1>1
  <2>2. Z \in [0..n -> Seq(Int)] /\ Z[0] = <<>> /\ Z[n] = <<>>
    BY <2>1
  <2>3. \A k \in 1..n : k \in 0..n /\ k - 1 \in 0..n
    BY <1>1
  <2>4. \A k \in 1..n : Z[k] = Z[k - 1]
    BY <2>3
  <2> HIDE DEF Z
  <2>5. SystemTexts(Z, family, h)
    BY <1>2, <2>2, <2>4 DEF SystemTexts
  <2>6. BodyOf(family, h, defs).system = <<>>
    BY <1>2 DEF BodyOf, OpenAIBody, GeminiBody, Family
  <2> QED
    BY <2>2, <2>5, <2>6
<1>3. CASE family = "claude"
  <2>1. PICK F \in [0..n -> Built] :
           /\ BuiltUpTo(F, h)
           /\ ClaudeBody(h) = [system |-> Flush(F[n]).system, turns |-> Flush(F[n]).turns]
    BY ClaudeBuilds
  <2> DEFINE Z == [k \in 0..n |-> F[k].system]
  <2>2. \A k \in 0..n : F[k] \in Built /\ F[k].system \in Seq(Int)
    BY <2>1 DEF Built
  <2>3. \A k \in 0..n : Z[k] = F[k].system
    OBVIOUS
  <2>4. Z \in [0..n -> Seq(Int)]
    BY <2>2
  <2> HIDE DEF Z
  <2>5. Z[0] = <<>>
    <3>1. F[0] = Unbuilt /\ 0 \in 0..n
      BY <1>1, <2>1 DEF BuiltUpTo
    <3> QED
      BY <2>3, <3>1 DEF Unbuilt
  <2>6. ASSUME NEW k \in 1..n
        PROVE  Z[k] = IF h[k].role = "system" THEN Append(Z[k - 1], h[k].text) ELSE Z[k - 1]
    <3>1. k \in 0..n /\ k - 1 \in 0..n
      BY <1>1
    <3>2. F[k] = ClaudeAdd(F[k - 1], h[k])
      BY <2>1 DEF BuiltUpTo
    <3>3. h[k] \in EntryRec /\ Speaks(h[k]) /\ F[k - 1] \in Built
      BY <1>1, <2>2, <3>1
    <3>4. h[k].role \in {"user", "assistant", "system", "tool"}
      BY <3>3 DEF EntryRec
    <3>5. F[k].system = IF h[k].role = "system" THEN Append(F[k - 1].system, h[k].text) ELSE F[k - 1].system
      <4> DEFINE b == F[k - 1]  m == h[k]
      <4>1. b \in Built /\ m \in EntryRec /\ Speaks(m)
        BY <3>3
      <4> HIDE DEF b, m
      <4>2. /\ m.role = "system" => ClaudeAdd(b, m).system = Append(b.system, m.text)
            /\ m.role = "tool" => ClaudeAdd(b, m).system = b.system
            /\ m.role \in {"user", "assistant"} => ClaudeAdd(b, m).system = b.system
        BY <4>1, ClaudeAddIs
      <4> QED
        BY <3>2, <3>4, <4>2 DEF b, m
    <3> QED
      BY <2>3, <3>1, <3>5
  <2>7. SystemTexts(Z, family, h)
    BY <1>3, <2>4, <2>5, <2>6 DEF SystemTexts
  <2>8. BodyOf(family, h, defs).system = Z[n]
    <3>1. n \in 0..n
      BY <1>1
    <3>2. Flush(F[n]).system = F[n].system
      BY <2>2, <3>1, FlushIs
    <3>3. BodyOf(family, h, defs).system = ClaudeBody(h).system
      BY <1>3 DEF BodyOf
    <3> QED
      BY <2>1, <2>3, <3>1, <3>2, <3>3
  <2> QED
    BY <2>7, <2>8
<1> QED
  BY <1>2, <1>3

\* The parts of the body are the row.
LEMMA BodyIsRow ==
  ASSUME NEW family \in Family, NEW h, Speaking(h), NEW defs, body = BodyOf(family, h, defs),
         NEW q, Row(q, Pieces(family, h))
  PROVE  Parts = q[Len(h)]
<1> DEFINE P == PartsOf(body.turns)
<1>1. Laid(P, <<>>, q, Pieces(family, h), Len(h))
  BY BodyLaid
<1>2. P \in Seq(Seq(Part)) /\ FlattenSeq(P) \o <<>> = q[Len(h)]
  BY <1>1 DEF Laid
<1>3. Parts = FlattenSeq(P)
  BY DEF Parts, PartsOf
<1> HIDE DEF P
<1>4. FlattenSeq(P) \in Seq(Part)
  <2>1. <<>> \in Seq(Part)
    OBVIOUS
  <2> QED
    BY <1>2, <2>1, FlattenAppend
<1> QED
  BY <1>2, <1>3, <1>4, ConcatEmptySeq

LEMMA BodyTells ==
  ASSUME NEW family \in Family, NEW h, Speaking(h), SummaryFirst(h), NEW defs,
         body = BodyOf(family, h, defs)
  PROVE  Told = TextsOf(Picked(h, ToldOf(family, h)))
<1>1. h \in Seq(EntryRec)
  BY DEF Speaking
<1>2. PICK q : Row(q, Pieces(family, h))
  BY <1>1, PiecesRow
<1>3. PICK Z : SystemTexts(Z, family, h) /\ BodyOf(family, h, defs).system = Z[Len(h)]
  BY SystemTold
<1>4. Parts = q[Len(h)]
  BY <1>2, BodyIsRow
<1>5. Told = body.system \o TextsOf(Others(Parts))
  BY DEF Told, Others
<1>6. Z[Len(h)] \o TextsOf(Others(q[Len(h)])) = TextsOf(Picked(h, ToldOf(family, h)))
  BY <1>2, <1>3, ToldInTheRow
<1> QED
  BY <1>3, <1>4, <1>5, <1>6

-----------------------------------------------------------------------------
(* The tools are offered *)

\* What a family declares of a tool.
Offer(t) == [name |-> t.name, schema |-> Schema(t.parameters)]

LEMMA DeclaredAre ==
  ASSUME NEW family \in Family, NEW T
  PROVE  Declared(family, DeclarationsFor(family, definitions(T))) = {Offer(t) : t \in T}
<1> DEFINE D == definitions(T)
<1>1. {[name |-> d.name, schema |-> Schema(d.parameters)] : d \in D} = {Offer(t) : t \in T}
  <2>1. \A t : /\ ToolDefinition(t).name = t.name
              /\ ToolDefinition(t).parameters = t.parameters
    BY DEF ToolDefinition
  <2>2. D = {ToolDefinition(t) : t \in T}
    BY DEF definitions
  <2> HIDE DEF D
  <2> DEFINE A == {[name |-> d.name, schema |-> Schema(d.parameters)] : d \in D}
  <2>3. ASSUME NEW t \in T PROVE Offer(t) \in A
    <3>1. ToolDefinition(t) \in D
      BY <2>2
    <3>2. Offer(t) = [name |-> ToolDefinition(t).name, schema |-> Schema(ToolDefinition(t).parameters)]
      BY <2>1 DEF Offer
    <3> QED
      BY <3>1, <3>2
  <2>4. ASSUME NEW d \in D PROVE [name |-> d.name, schema |-> Schema(d.parameters)] \in {Offer(t) : t \in T}
    <3>1. PICK t \in T : d = ToolDefinition(t)
      BY <2>2
    <3>2. [name |-> d.name, schema |-> Schema(d.parameters)] = Offer(t)
      BY <2>1, <3>1 DEF Offer
    <3> QED
      BY <3>2
  <2> QED
    BY <2>3, <2>4
<1> HIDE DEF D
<1>2. CASE family = "openai"
  <2>1. DeclarationsFor(family, D) = {toolToFunction(d) : d \in D}
    BY <1>2 DEF DeclarationsFor
  <2>2. Declared(family, DeclarationsFor(family, D))
            = {[name |-> f.function.name, schema |-> f.function.parameters] : f \in {toolToFunction(d) : d \in D}}
    BY <1>2, <2>1 DEF Declared
  <2>3. \A d : /\ toolToFunction(d).function.name = d.name
               /\ toolToFunction(d).function.parameters = Schema(d.parameters)
    BY DEF toolToFunction
  <2> QED
    BY <1>1, <2>2, <2>3 DEF D
<1>3. CASE family = "claude"
  <2>1. DeclarationsFor(family, D) = {toolToToolDef(d) : d \in D}
    BY <1>3 DEF DeclarationsFor
  <2>2. Declared(family, DeclarationsFor(family, D))
            = {[name |-> f.name, schema |-> f.input_schema] : f \in {toolToToolDef(d) : d \in D}}
    BY <1>3, <2>1 DEF Declared
  <2>3. \A d : toolToToolDef(d).name = d.name /\ toolToToolDef(d).input_schema = Schema(d.parameters)
    BY DEF toolToToolDef
  <2> QED
    BY <1>1, <2>2, <2>3 DEF D
<1>4. CASE family = "gemini"
  <2> DEFINE G == {toolToFunctionDeclaration(d) : d \in D}
  <2>1. DeclarationsFor(family, D) = IF D = {} THEN {} ELSE {[functionDeclarations |-> G]}
    BY <1>4 DEF DeclarationsFor
  <2> HIDE DEF G
  <2>2. Declared(family, DeclarationsFor(family, D))
            = UNION {{[name |-> f.name, schema |-> f.parameters] : f \in d.functionDeclarations}
                        : d \in DeclarationsFor(family, D)}
    BY <1>4 DEF Declared
  <2>3. CASE D = {}
    <3>1. UNION {{[name |-> f.name, schema |-> f.parameters] : f \in d.functionDeclarations} : d \in {}} = {}
      OBVIOUS
    <3>2. {[name |-> d.name, schema |-> Schema(d.parameters)] : d \in D} = {}
      BY <2>3
    <3> QED
      BY <1>1, <2>1, <2>2, <2>3, <3>1, <3>2 DEF D
  <2>4. CASE D # {}
    <3>1. Declared(family, DeclarationsFor(family, D)) = {[name |-> f.name, schema |-> f.parameters] : f \in G}
      <4> DEFINE g == [functionDeclarations |-> G]
                 B(d) == {[name |-> f.name, schema |-> f.parameters] : f \in d.functionDeclarations}
      <4>1. DeclarationsFor(family, D) = {g}
        BY <2>1, <2>4
      <4>2. Declared(family, DeclarationsFor(family, D)) = UNION {B(d) : d \in {g}}
        BY <2>2, <4>1
      <4>3. B(g) = {[name |-> f.name, schema |-> f.parameters] : f \in G}
        OBVIOUS
      <4> HIDE DEF g, B
      <4>4. UNION {B(d) : d \in {g}} = B(g)
        OBVIOUS
      <4> QED
        BY <4>2, <4>3, <4>4
    <3>2. \A d : /\ toolToFunctionDeclaration(d).name = d.name
                 /\ toolToFunctionDeclaration(d).parameters = Schema(d.parameters)
      BY DEF toolToFunctionDeclaration
    <3> QED
      BY <1>1, <3>1, <3>2 DEF D, G
  <2> QED
    BY <2>3, <2>4
<1> QED
  BY <1>2, <1>3, <1>4 DEF Family

\* A tool offers what it requires.
LEMMA RequiredAreOffered ==
  ASSUME NEW t \in AnyTool
  PROVE  ToSet(Schema(t.parameters).required) \subseteq DOMAIN Schema(t.parameters).properties
<1> DEFINE ps == t.parameters  J == {k \in DOMAIN ps : ps[k].required}  S == ToSet(ps)
<1>1. ps \in Seq(Parameter)
  BY DEF AnyTool
<1>2. \A k \in 1..Len(ps) : k \in J => ps[k] \in S
  BY <1>1 DEF ToSet
<1> HIDE DEF J, S
<1>3. Picked(ps, J) \in Seq(S)
  BY <1>1, <1>2, PickedIn
<1>4. Schema(ps).required = [k \in DOMAIN Picked(ps, J) |-> Picked(ps, J)[k].name]
  BY DEF Schema, J
<1>5. DOMAIN Schema(ps).properties = {p.name : p \in S}
  BY DEF Schema, Properties, S
<1>6. \A k \in DOMAIN Picked(ps, J) : Picked(ps, J)[k] \in S
  BY <1>3
<1> QED
  BY <1>4, <1>5, <1>6 DEF ToSet

-----------------------------------------------------------------------------
(* The tools *)

\* Different tools under different names, each one of those registered.
Registry(T, s) ==
    /\ T \subseteq AnyTool
    /\ \A t, u \in T : t.name = u.name => t = u
    /\ \A t \in T : \E k \in 1..Len(s) : t = s[k]

LEMMA RegisterKeeps ==
  ASSUME NEW s \in Seq(AnyTool), NEW T, Registry(T, s), NEW k \in 1..Len(s)
  PROVE  Registry(registerTool(T, s[k]), s)
<1> DEFINE u == s[k]  R == registerTool(T, u)
<1>1. u \in AnyTool
  OBVIOUS
<1>2. \A t \in R : t \in T \/ t = u
  BY DEF registerTool
<1>3. \A t \in R : t \in AnyTool /\ \E l \in 1..Len(s) : t = s[l]
  BY <1>1, <1>2 DEF Registry
<1>4. CASE u = NoTool
  BY <1>4 DEF registerTool
<1>5. CASE u # NoTool
  <2>1. R = {t \in T : t.name # u.name} \cup {u}
    BY <1>5 DEF registerTool
  <2>2. \A t, v \in R : t.name = v.name => t = v
    <3> TAKE t \in R, v \in R
    <3>1. t \in T /\ v \in T /\ t.name = v.name => t = v
      BY DEF Registry
    <3>2. (t \in T /\ t.name # u.name) \/ t = u
      BY <2>1
    <3>3. (v \in T /\ v.name # u.name) \/ v = u
      BY <2>1
    <3> QED
      BY <3>1, <3>2, <3>3
  <2> QED
    BY <1>3, <2>2 DEF Registry
<1> QED
  BY <1>4, <1>5

\* Registering keeps a set of tools with different names.
LEMMA RegisteredTools ==
  ASSUME NEW s \in Seq(AnyTool)
  PROVE  Registry(Registered(s), s)
<1> DEFINE n == Len(s)
           Is(f) == f = [k \in 0..n |-> IF k = 0 THEN {} ELSE registerTool(f[k - 1], s[k])]
           W == SUBSET AnyTool
           step == [x \in (1..n) \X W |-> registerTool(x[2], s[x[1]])]
<1>1. n \in Nat /\ \A k \in 1..n : s[k] \in AnyTool
  OBVIOUS
<1> HIDE DEF n
<1>2. step \in [(1..n) \X W -> W]
  <2>1. ASSUME NEW x \in (1..n) \X W PROVE registerTool(x[2], s[x[1]]) \in W
    <3>1. x[2] \subseteq AnyTool /\ s[x[1]] \in AnyTool
      BY <1>1
    <3> QED
      BY <3>1 DEF registerTool
  <2> QED
    BY <2>1
<1>3. {} \in W
  OBVIOUS
<1>4. PICK f \in [0..n -> W] : Iterates(f, {}, n, step)
  <2> HIDE DEF step, W
  <2> QED
    BY <1>1, <1>2, <1>3, Iteration
<1>5. \A k \in 1..n : k - 1 \in 0..n /\ f[k - 1] \in W /\ <<k, f[k - 1]>> \in (1..n) \X W
  BY <1>1, <1>4
<1>6. \A k \in 1..n : f[k] = registerTool(f[k - 1], s[k])
  <2> TAKE k \in 1..n
  <2>1. f[k] = step[<<k, f[k - 1]>>]
    BY <1>4 DEF Iterates
  <2> QED
    BY <1>5, <2>1
<1>7. Is(f)
  <2>1. f[0] = {}
    BY <1>4 DEF Iterates
  <2>2. \A k \in 0..n : k = 0 \/ k \in 1..n
    BY <1>1
  <2> HIDE DEF step
  <2> QED
    BY <1>4, <1>6, <2>1, <2>2
<1> DEFINE F == CHOOSE g : Is(g)
<1>8. Is(F)
  BY <1>7
<1>9. Registered(s) = F[n]
  BY DEF Registered, n
<1> HIDE DEF F
<1>10. F[0] = {} /\ \A k \in 1..n : F[k] = registerTool(F[k - 1], s[k])
  <2>1. 0 \in 0..n /\ \A k \in 1..n : k \in 0..n /\ k # 0
    BY <1>1
  <2> QED
    BY <1>8, <2>1
<1> HIDE DEF Is
<1> DEFINE X == {k \in Nat : k <= n => Registry(F[k], s)}
<1>11. 0 \in X
  BY <1>10 DEF Registry
<1>12. ASSUME NEW k \in Nat, k \in X PROVE k + 1 \in X
  <2>1. ASSUME k + 1 <= n PROVE Registry(F[k + 1], s)
    <3>1. k + 1 \in 1..n /\ (k + 1) - 1 = k /\ k <= n
      BY <1>1, <2>1
    <3>2. Registry(registerTool(F[k], s[k + 1]), s)
      BY <1>12, <3>1, RegisterKeeps DEF n
    <3> QED
      BY <1>10, <3>1, <3>2
  <2> QED
    BY <2>1
<1> HIDE DEF X
<1>13. n \in X
  BY <1>1, <1>11, <1>12, Induction
<1> QED
  BY <1>1, <1>9, <1>13 DEF X

\* What a body offers, as TellsTheHistory has it.
Offers(offered, T) ==
    /\ {d.name : d \in offered} = {t.name : t \in T}
    /\ \A d, e \in offered : d.name = e.name => d = e
    /\ \A d \in offered : ToSet(d.schema.required) \subseteq DOMAIN d.schema.properties

LEMMA BodyOffers ==
  ASSUME NEW family \in Family, NEW s, NEW T, Registry(T, s), NEW offered,
         offered = Declared(family, DeclarationsFor(family, definitions(T)))
  PROVE  Offers(offered, T)
<1>1. offered = {Offer(t) : t \in T}
  BY DeclaredAre
<1>2. \A t \in T : Offer(t).name = t.name /\ Offer(t).schema = Schema(t.parameters)
  BY DEF Offer
<1>3. {d.name : d \in offered} = {t.name : t \in T}
  BY <1>1, <1>2
<1>4. \A d, e \in offered : d.name = e.name => d = e
  <2> TAKE d \in offered, e \in offered
  <2>1. PICK t \in T : d = Offer(t)
    BY <1>1
  <2>2. PICK u \in T : e = Offer(u)
    BY <1>1
  <2>3. t.name = u.name => t = u
    BY DEF Registry
  <2> QED
    BY <1>2, <2>1, <2>2, <2>3
<1>5. \A d \in offered : ToSet(d.schema.required) \subseteq DOMAIN d.schema.properties
  <2> TAKE d \in offered
  <2>1. PICK t \in T : d = Offer(t)
    BY <1>1
  <2>2. ToSet(Schema(t.parameters).required) \subseteq DOMAIN Schema(t.parameters).properties
    BY RequiredAreOffered DEF Registry
  <2> QED
    BY <1>2, <2>1, <2>2
<1> QED
  BY <1>3, <1>4, <1>5 DEF Offers

-----------------------------------------------------------------------------
(* The calls in a body *)

\* What a family makes of calls.
Sent(family, calls) ==
    [j \in DOMAIN calls |-> Call(KeyOf(family, calls[j]), ArgsOf(family, calls[j].args))]

LEMMA SentInTwo ==
  ASSUME NEW family, NEW a \in Seq(CallRec), NEW b \in Seq(CallRec)
  PROVE  Sent(family, a \o b) = Sent(family, a) \o Sent(family, b)
<1> DEFINE m == Len(a)  n == Len(b)  c == a \o b
           A == Sent(family, a)  B == Sent(family, b)  C == Sent(family, c)
<1>1. /\ m \in Nat /\ n \in Nat /\ Len(c) = m + n /\ DOMAIN c = 1..(m + n)
      /\ DOMAIN a = 1..m /\ DOMAIN b = 1..n
      /\ \A k \in 1..m : c[k] = a[k]
      /\ \A k \in 1..n : c[m + k] = b[k]
  OBVIOUS
<1> DEFINE of(x) == Call(KeyOf(family, x), ArgsOf(family, x.args))
<1>2. /\ A = [j \in 1..m |-> of(a[j])]
      /\ B = [j \in 1..n |-> of(b[j])]
      /\ C = [j \in 1..(m + n) |-> of(c[j])]
  BY <1>1 DEF Sent
<1> HIDE DEF of, A, B, C, m, n, c
<1> DEFINE V == {of(a[j]) : j \in 1..m} \cup {of(b[j]) : j \in 1..n} \cup {of(c[j]) : j \in 1..(m + n)}
<1>3. A \in Seq(V) /\ B \in Seq(V) /\ C \in Seq(V) /\ Len(A) = m /\ Len(B) = n /\ Len(C) = m + n
  <2>1. /\ \A j \in 1..m : of(a[j]) \in V
        /\ \A j \in 1..n : of(b[j]) \in V
        /\ \A j \in 1..(m + n) : of(c[j]) \in V
    OBVIOUS
  <2> HIDE DEF V
  <2>2. m + n \in Nat
    BY <1>1
  <2>3. A \in [1..m -> V] /\ B \in [1..n -> V] /\ C \in [1..(m + n) -> V]
    BY <1>2, <2>1
  <2>4. A \in Seq(V) /\ Len(A) = m
    BY <1>1, <2>3, SeqDef
  <2>5. B \in Seq(V) /\ Len(B) = n
    BY <1>1, <2>3, SeqDef
  <2>6. C \in Seq(V) /\ Len(C) = m + n
    BY <2>2, <2>3, SeqDef
  <2> QED
    BY <2>4, <2>5, <2>6
<1> HIDE DEF V
<1>4. A \o B \in Seq(V) /\ Len(A \o B) = m + n
      /\ (\A k \in 1..m : (A \o B)[k] = A[k]) /\ \A k \in 1..n : (A \o B)[m + k] = B[k]
  <2>1. A \in Seq(V) /\ B \in Seq(V)
    BY <1>3
  <2>2. /\ A \o B \in Seq(V) /\ Len(A \o B) = Len(A) + Len(B)
        /\ \A k \in 1..Len(A) : (A \o B)[k] = A[k]
        /\ \A k \in 1..Len(B) : (A \o B)[Len(A) + k] = B[k]
    BY <2>1
  <2> QED
    BY <1>3, <2>2
<1>5. \A k \in 1..(m + n) : k \in 1..m \/ \E l \in 1..n : k = m + l
  <2> TAKE k \in 1..(m + n)
  <2>1. k \notin 1..m => k - m \in 1..n /\ k = m + (k - m)
    BY <1>1
  <2> QED
    BY <2>1
<1>6. \A k \in 1..(m + n) : C[k] = (A \o B)[k]
  <2> TAKE k \in 1..(m + n)
  <2>1. CASE k \in 1..m
    BY <1>1, <1>2, <1>4, <2>1
  <2>2. CASE \E l \in 1..n : k = m + l
    <3>1. PICK l \in 1..n : k = m + l
      BY <2>2
    <3>2. C[k] = of(c[m + l]) /\ c[m + l] = b[l]
      BY <1>1, <1>2, <3>1
    <3>3. (A \o B)[k] = of(b[l])
      BY <1>2, <1>4, <3>1
    <3> QED
      BY <3>2, <3>3
  <2> QED
    BY <1>5, <2>1, <2>2
<1> QED
  BY <1>3, <1>4, <1>6, SeqEqual DEF A, B, C, c

\* The calls of a history, entry by entry.
CallsBy(h) == [k \in DOMAIN h |-> h[k].calls]

LEMMA CallsOfBody ==
  ASSUME NEW family \in Family, NEW h, Speaking(h), NEW q, Row(q, Pieces(family, h))
  PROVE  /\ CallsIn(q[Len(h)]) = Sent(family, FlattenSeq(CallsBy(h)))
         /\ FlattenSeq(CallsBy(h)) \in Seq(CallRec)
<1> DEFINE n == Len(h)  r == Pieces(family, h)  s == CallsBy(h)
<1>1. h \in Seq(EntryRec)
  BY DEF Speaking
<1>2. /\ n \in Nat /\ Len(r) = n
      /\ \A k \in 1..n : h[k] \in EntryRec /\ r[k] = PiecesOf(family, h[k])
      /\ Row(q, r)
  BY <1>1, PiecesRow
<1>3. s \in Seq(Seq(CallRec)) /\ Len(s) = n /\ \A k \in 1..n : s[k] = h[k].calls /\ s[k] \in Seq(CallRec)
  <2>1. DOMAIN h = 1..n
    BY <1>1
  <2>2. \A k \in 1..n : h[k].calls \in Seq(CallRec)
    BY <1>2 DEF EntryRec
  <2>3. s = [k \in 1..n |-> h[k].calls]
    BY <2>1 DEF CallsBy
  <2> QED
    BY <1>2, <2>2, <2>3
<1>4. PICK d \in [0..Len(s) -> Seq(CallRec)] : RowOf(d, s)
  <2> HIDE DEF s
  <2> QED
    BY <1>3, RowExists
<1>5. FlattenSeq(s) = d[n]
  <2> HIDE DEF s
  <2> QED
    BY <1>3, <1>4, FlattenIsRow
<1>6. /\ d \in [0..n -> Seq(CallRec)] /\ d[0] = <<>>
      /\ \A k \in 1..n : d[k] = d[k - 1] \o s[k]
  BY <1>3, <1>4 DEF RowOf
<1> HIDE DEF s, n
<1> DEFINE X == {k \in Nat : k <= n => CallsIn(q[k]) = Sent(family, d[k])}
<1>7. 0 \in X
  <2>1. q[0] = <<>>
    BY DEF Row, RowOf
  <2>2. CallsIn(<<>>) = <<>>
    <3>1. <<>> \in Seq(Part) /\ \A k \in 1..Len(<<>>) : ~IsCall(<<>>[k])
      OBVIOUS
    <3> QED
      BY <3>1, NoneAreCalls
  <2>3. Sent(family, <<>>) = <<>>
    BY DEF Sent
  <2> QED
    BY <1>6, <2>1, <2>2, <2>3
<1>8. ASSUME NEW k \in Nat, k \in X PROVE k + 1 \in X
  <2>1. ASSUME k + 1 <= n PROVE CallsIn(q[k + 1]) = Sent(family, d[k + 1])
    <3>1. k + 1 \in 1..n /\ (k + 1) - 1 = k /\ k <= n /\ k \in 0..n /\ k + 1 \in 1..Len(r)
      BY <1>2, <2>1
    <3>2. q[k] \in Seq(Part) /\ r[k + 1] \in Seq(Part) /\ q[k + 1] = q[k] \o r[k + 1]
      <4> HIDE DEF r
      <4> QED
        BY <1>2, <3>1, RowStep
    <3>3. CallsIn(q[k + 1]) = CallsIn(q[k]) \o CallsIn(r[k + 1])
      BY <3>2, PartsInTwo
    <3>4. CallsIn(r[k + 1]) = Sent(family, s[k + 1])
      <4>1. CallsIn(PiecesOf(family, h[k + 1])) = CallsOf(family, h[k + 1])
        BY <1>2, <3>1, PiecesType
      <4>2. s[k + 1] = h[k + 1].calls
        BY <1>3, <3>1
      <4> HIDE DEF r
      <4>3. r[k + 1] = PiecesOf(family, h[k + 1])
        BY <1>2, <3>1
      <4> QED
        BY <4>1, <4>2, <4>3 DEF CallsOf, Sent
    <3>5. CallsIn(q[k]) = Sent(family, d[k])
      BY <1>8, <3>1
    <3>6. d[k + 1] = d[k] \o s[k + 1] /\ d[k] \in Seq(CallRec) /\ s[k + 1] \in Seq(CallRec)
      BY <1>3, <1>6, <3>1
    <3>7. Sent(family, d[k] \o s[k + 1]) = Sent(family, d[k]) \o Sent(family, s[k + 1])
      BY <3>6, SentInTwo
    <3> HIDE DEF r
    <3> QED
      BY <3>3, <3>4, <3>5, <3>6, <3>7
  <2> QED
    BY <2>1
<1> HIDE DEF X
<1>9. n \in X /\ n \in 0..n
  BY <1>2, <1>7, <1>8, Induction
<1>10. CallsIn(q[n]) = Sent(family, d[n]) /\ d[n] \in Seq(CallRec)
  BY <1>2, <1>6, <1>9 DEF X
<1> QED
  BY <1>5, <1>10 DEF s, n

\* An object stays that object, and what is sent to Claude or Gemini is one unless it
\* is JSON of another type.
LEMMA ArgsSent ==
  ASSUME NEW family \in Family, NEW args \in Argument
  PROVE  /\ args = "object" <=> ArgsOf(family, args) = "object"
         /\ family # "openai" /\ args # "value" => ArgsOf(family, args) \in {"object", "{}", "{value}"}
BY DEF ArgsOf, ClaudeInput, GeminiArgs, Argument, Family

\* The two first parts of ArgumentsSurvive.
Survive(family, called, calls) ==
    /\ Len(calls) = Len(called)
    /\ \A j \in DOMAIN calls :
           /\ called[j].args = "object" <=> calls[j].args = "object"
           /\ family # "openai" /\ called[j].args # "value"
                  => calls[j].args \in {"object", "{}", "{value}"}

LEMMA BodyKeepsCalls ==
  ASSUME NEW family \in Family, NEW h, Speaking(h), NEW defs, body = BodyOf(family, h, defs)
  PROVE  Survive(family, FlattenSeq(CallsBy(h)), CallsIn(Parts))
<1>1. h \in Seq(EntryRec)
  BY DEF Speaking
<1>2. PICK q : Row(q, Pieces(family, h))
  BY <1>1, PiecesRow
<1>3. Parts = q[Len(h)]
  BY <1>2, BodyIsRow
<1> DEFINE called == FlattenSeq(CallsBy(h))  calls == CallsIn(Parts)
<1>4. calls = Sent(family, called) /\ called \in Seq(CallRec)
  BY <1>2, <1>3, CallsOfBody
<1> HIDE DEF called, calls
<1>5. /\ Len(called) \in Nat /\ DOMAIN called = 1..Len(called)
      /\ \A j \in 1..Len(called) : called[j] \in CallRec
  BY <1>4
<1>6. Len(calls) = Len(called) /\ DOMAIN calls = 1..Len(called)
  BY <1>4, <1>5 DEF Sent
<1>7. \A j \in 1..Len(called) : calls[j].args = ArgsOf(family, called[j].args) /\ called[j].args \in Argument
  <2> TAKE j \in 1..Len(called)
  <2>1. called[j].args \in Argument
    BY <1>5 DEF CallRec
  <2>2. calls[j] = Call(KeyOf(family, called[j]), ArgsOf(family, called[j].args))
    BY <1>4, <1>5 DEF Sent
  <2> QED
    BY <2>1, <2>2 DEF Call
<1>8. \A j \in DOMAIN calls :
         /\ called[j].args = "object" <=> calls[j].args = "object"
         /\ family # "openai" /\ called[j].args # "value" => calls[j].args \in {"object", "{}", "{value}"}
  <2> TAKE j \in DOMAIN calls
  <2>1. j \in 1..Len(called)
    BY <1>6
  <2> DEFINE args == called[j].args
  <2>2. calls[j].args = ArgsOf(family, args) /\ args \in Argument
    BY <1>7, <2>1
  <2> HIDE DEF args
  <2>3. /\ args = "object" <=> ArgsOf(family, args) = "object"
        /\ family # "openai" /\ args # "value" => ArgsOf(family, args) \in {"object", "{}", "{value}"}
    BY <2>2, ArgsSent
  <2> QED
    BY <2>2, <2>3 DEF args
<1> QED
  BY <1>6, <1>8 DEF Survive, called, calls

-----------------------------------------------------------------------------
(* A round of tools *)

\* One of the tools T may return a result for a call.
Takes(T, call) == \E t \in T : t.name = call.name /\ call.args \in t.answers.result

\* What is a result and no error, a tool has returned.
Computed(T, h) ==
    \A k \in 1..Len(h) : \A j \in 1..Len(h[k].calls) :
        h[k + j].text > 0 => Takes(T, h[k].calls[j])

\* What every history is.
Sound(T, h) == Speaking(h) /\ Answered(h) /\ SummaryFirst(h) /\ Computed(T, h)

\* The results of calls, one for each.
Returned(T, calls, results) ==
    /\ results \in Seq(EntryRec) /\ Len(results) = Len(calls)
    /\ \A j \in 1..Len(calls) :
          /\ results[j].role = "tool" /\ results[j].calls = <<>>
          /\ results[j].of = calls[j].id /\ results[j].name = calls[j].name
          /\ results[j].text > 0 => Takes(T, calls[j])

\* The calls of a reply.
ReplyCall == [kind : {"call"}, name : Names, args : Argument]

LEMMA RepliedCalls ==
  ASSUME NEW family \in Family, NEW reply \in Seq(ReplyPart), round \in Nat
  PROVE  ToolCalls(family, reply) \in Seq(CallRec)
<1> DEFINE calls == CallsIn(reply)
<1>1. calls \in Seq(ReplyCall)
  <2>1. \A j \in 1..Len(reply) : reply[j] \in ReplyPart
    OBVIOUS
  <2>2. \A p \in ReplyPart : IsCall(p) => p \in ReplyCall
    BY DEF ReplyPart, IsCall, ReplyCall, Names
  <2>3. \A j \in 1..Len(reply) : j \in {k \in DOMAIN reply : IsCall(reply[k])} => reply[j] \in ReplyCall
    BY <2>1, <2>2
  <2> QED
    BY <2>3, PickedIn DEF CallsIn
<1>2. \A j \in DOMAIN calls : calls[j] \in ReplyCall /\ j - 1 \in Nat /\ j \in Nat
  <2>1. DOMAIN calls = 1..Len(calls) /\ Len(calls) \in Nat
    BY <1>1
  <2>2. \A j \in 1..Len(calls) : calls[j] \in ReplyCall
    BY <1>1
  <2> QED
    BY <2>1, <2>2
<1>3. \A c \in ReplyCall : c.name \in Names /\ c.args \in Argument
  BY DEF ReplyCall
<1>4. "object" \in Argument /\ "value" \in Argument /\ "" \in Argument
  BY DEF Argument
<1> DEFINE n == Len(calls)
<1>5. n \in Nat /\ DOMAIN calls = 1..n
  BY <1>1
<1> HIDE DEF calls, n
<1>6. OpenAICalls(reply) \in Seq(CallRec)
  <2>1. \A j \in 1..n : [name |-> calls[j].name, args |-> calls[j].args, id |-> <<"call", round, j>>] \in CallRec
    <3> TAKE j \in 1..n
    <3>1. <<"call", round, j>> \in Id
      BY <1>2, <1>5 DEF Id
    <3>2. calls[j].name \in Names /\ calls[j].args \in Argument
      BY <1>2, <1>3, <1>5
    <3> QED
      BY <3>1, <3>2 DEF CallRec
  <2>2. OpenAICalls(reply) \in [1..n -> CallRec]
    BY <1>5, <2>1 DEF OpenAICalls, calls
  <2> QED
    BY <1>5, <2>2, SeqDef
<1>7. ClaudeCalls(reply) \in Seq(CallRec)
  <2>1. \A j \in 1..n : [name |-> calls[j].name, id |-> <<"toolu", round, j>>,
                         args |-> IF calls[j].args = "object" THEN "object" ELSE "value"] \in CallRec
    <3> TAKE j \in 1..n
    <3>1. <<"toolu", round, j>> \in Id
      BY <1>2, <1>5 DEF Id
    <3>2. calls[j].name \in Names
      BY <1>2, <1>3, <1>5
    <3> QED
      BY <1>4, <3>1, <3>2 DEF CallRec
  <2>2. ClaudeCalls(reply) \in [1..n -> CallRec]
    BY <1>5, <2>1 DEF ClaudeCalls, calls
  <2> QED
    BY <1>5, <2>2, SeqDef
<1>8. GeminiCalls(reply) \in Seq(CallRec)
  <2>1. \A j \in 1..n : [name |-> calls[j].name, id |-> <<"call_gemini", calls[j].name, j - 1>>,
                         args |-> IF calls[j].args = "object" THEN "object" ELSE ""] \in CallRec
    <3> TAKE j \in 1..n
    <3>1. calls[j].name \in Names /\ j - 1 \in Nat
      BY <1>2, <1>3, <1>5
    <3>2. <<"call_gemini", calls[j].name, j - 1>> \in Id
      BY <3>1 DEF Id
    <3> QED
      BY <1>4, <3>1, <3>2 DEF CallRec
  <2>2. GeminiCalls(reply) \in [1..n -> CallRec]
    BY <1>5, <2>1 DEF GeminiCalls, calls
  <2> QED
    BY <1>5, <2>2, SeqDef
<1> DEFINE told == CASE family = "openai" -> OpenAICalls(reply)
                     [] family = "claude" -> ClaudeCalls(reply)
                     [] family = "gemini" -> GeminiCalls(reply)
<1>9. told \in Seq(CallRec)
  BY <1>6, <1>7, <1>8 DEF Family
<1>10. ToolCalls(family, reply) = Picked(told, {j \in DOMAIN told : Named(told[j])})
  BY DEF ToolCalls
<1> HIDE DEF told
<1> QED
  BY <1>9, <1>10, PickedType

LEMMA ResultsReturned ==
  ASSUME history \in Seq(EntryRec), NEW calls \in Seq(CallRec),
         NEW results \in Results(calls)
  PROVE  Returned(tools, calls, results)
<1> DEFINE n == Len(calls)
<1>1. n \in Nat /\ DOMAIN calls = 1..n /\ \A j \in 1..n : calls[j] \in CallRec
  OBVIOUS
<1>2. PICK out \in [1..n -> {"result", "error"}] :
         /\ \A j \in 1..n : out[j] \in execute(tools, calls[j].name, calls[j].args)
         /\ results = [j \in 1..n |-> ToolEntry(calls[j], IF out[j] = "error" THEN -NewText(j + 1)
                                                          ELSE NewText(j + 1))]
  BY <1>1 DEF Results
<1> HIDE DEF n
<1>3. \A j \in 1..n : NewText(j + 1) \in Nat \ {0}
  <2>1. Len(history) \in Nat
    OBVIOUS
  <2> QED
    BY <1>1, <2>1 DEF NewText
<1> DEFINE text(j) == IF out[j] = "error" THEN -NewText(j + 1) ELSE NewText(j + 1)
<1>4. \A j \in 1..n : text(j) \in Int /\ (text(j) > 0 => out[j] # "error")
  BY <1>3
<1>5. \A j \in 1..n : results[j] = ToolEntry(calls[j], text(j))
  BY <1>2
<1> HIDE DEF text
<1>6. \A j \in 1..n : results[j] \in EntryRec
  <2> TAKE j \in 1..n
  <2>1. ASSUME NEW c \in CallRec, NEW x \in Int PROVE ToolEntry(c, x) \in EntryRec
    <3>1. c.id \in Id /\ c.name \in Names
      BY DEF CallRec
    <3>2. <<>> \in Seq(CallRec)
      OBVIOUS
    <3> QED
      BY <3>1, <3>2 DEF ToolEntry, EntryRec
  <2> QED
    BY <1>1, <1>4, <1>5, <2>1
<1>7. results \in Seq(EntryRec) /\ Len(results) = n
  <2>1. results \in [1..n -> EntryRec]
    BY <1>2, <1>6
  <2> QED
    BY <1>1, <2>1, SeqDef
<1>8. \A j \in 1..n : text(j) > 0 => Takes(tools, calls[j])
  <2> SUFFICES ASSUME NEW j \in 1..n, text(j) > 0
               PROVE  Takes(tools, calls[j])
    OBVIOUS
  <2>1. out[j] = "result"
    BY <1>2, <1>4
  <2>2. "result" \in execute(tools, calls[j].name, calls[j].args)
    BY <1>2, <2>1
  <2>3. PICK t \in tools : t.name = calls[j].name /\ calls[j].args \in t.answers["result"]
    BY <2>2 DEF execute
  <2>4. t.answers["result"] = t.answers.result
    OBVIOUS
  <2> QED
    BY <2>3, <2>4 DEF Takes
<1>9. \A j \in 1..n : /\ results[j].role = "tool" /\ results[j].calls = <<>>
                      /\ results[j].of = calls[j].id /\ results[j].name = calls[j].name
                      /\ results[j].text = text(j)
  <2>1. \A c, x : /\ ToolEntry(c, x).role = "tool" /\ ToolEntry(c, x).calls = <<>>
                  /\ ToolEntry(c, x).of = c.id /\ ToolEntry(c, x).name = c.name
                  /\ ToolEntry(c, x).text = x
    BY DEF ToolEntry
  <2> QED
    BY <1>5, <2>1
<1> QED
  BY <1>7, <1>8, <1>9 DEF Returned, n

LEMMA RoundKeeps ==
  ASSUME NEW T, NEW h, Sound(T, h), NEW calls \in Seq(CallRec), NEW text \in Int,
         NEW results, Returned(T, calls, results)
  PROVE  Sound(T, Append(h, Entry("assistant", text, calls)) \o results)
<1> DEFINE n == Len(h)  m == Len(calls)
           e == Entry("assistant", text, calls)
           H == Append(h, e) \o results
<1>1. h \in Seq(EntryRec) /\ n \in Nat /\ m \in Nat
  <2>1. h \in Seq(EntryRec)
    BY DEF Sound, Speaking
  <2> QED
    BY <2>1
<1>2. e \in EntryRec /\ e.role = "assistant" /\ e.calls = calls
  BY DEF Entry, EntryRec, Id, Names
<1>3. results \in Seq(EntryRec) /\ Len(results) = m
  BY DEF Returned
<1> HIDE DEF n, m, e
<1>4. /\ H \in Seq(EntryRec) /\ Len(H) = n + 1 + m
      /\ \A k \in 1..n : H[k] = h[k]
      /\ H[n + 1] = e
      /\ \A j \in 1..m : H[n + 1 + j] = results[j]
  <2> DEFINE a == Append(h, e)
  <2>1. a \in Seq(EntryRec) /\ Len(a) = n + 1 /\ a[n + 1] = e /\ \A k \in 1..n : a[k] = h[k]
    BY <1>1, <1>2, AppendProperties DEF n
  <2> HIDE DEF a
  <2>2. /\ a \o results \in Seq(EntryRec) /\ Len(a \o results) = Len(a) + Len(results)
        /\ \A k \in 1..Len(a) : (a \o results)[k] = a[k]
        /\ \A k \in 1..Len(results) : (a \o results)[Len(a) + k] = results[k]
    BY <1>3, <2>1
  <2>3. \A k \in 1..n : k \in 1..(n + 1)
    BY <1>1
  <2>4. n + 1 \in 1..(n + 1)
    BY <1>1
  <2> QED
    BY <1>3, <2>1, <2>2, <2>3, <2>4 DEF a
<1> HIDE DEF H
<1>5. \A k \in 1..Len(H) : \/ k \in 1..n /\ H[k] = h[k]
                           \/ k = n + 1 /\ H[k] = e
                           \/ \E j \in 1..m : H[k] = results[j]
  <2> TAKE k \in 1..Len(H)
  <2>1. k \in 1..n \/ k = n + 1 \/ (k - (n + 1) \in 1..m /\ k = n + 1 + (k - (n + 1)))
    BY <1>1, <1>4
  <2> QED
    BY <1>4, <2>1
<1>6. \A j \in 1..m : /\ results[j].role = "tool" /\ results[j].calls = <<>>
                      /\ results[j].of = calls[j].id /\ results[j].name = calls[j].name
                      /\ results[j].text > 0 => Takes(T, calls[j])
  BY DEF Returned, m
<1>7. Speaking(H)
  <2>1. \A k \in 1..n : Speaks(h[k])
    BY DEF Sound, Speaking, n
  <2>2. Speaks(e) /\ \A j \in 1..m : Speaks(results[j])
    BY <1>2, <1>6 DEF Speaks
  <2> QED
    BY <1>4, <1>5, <2>1, <2>2 DEF Speaking
<1>8. SummaryFirst(H)
  <2>1. \A k \in 1..n : h[k].role = "system" => k = 1
    BY DEF Sound, SummaryFirst, n
  <2> QED
    BY <1>2, <1>5, <1>6, <2>1 DEF SummaryFirst
<1>9. ASSUME NEW k \in 1..Len(H), NEW j \in 1..Len(H[k].calls)
      PROVE  /\ k + j <= Len(H) /\ H[k + j].role = "tool"
             /\ H[k + j].of = H[k].calls[j].id /\ H[k + j].name = H[k].calls[j].name
             /\ H[k + j].text > 0 => Takes(T, H[k].calls[j])
  <2>1. CASE k \in 1..n
    <3>1. H[k] = h[k] /\ j \in 1..Len(h[k].calls)
      BY <1>4, <1>9, <2>1
    <3>2. /\ k + j <= n /\ h[k + j].role = "tool"
          /\ h[k + j].of = h[k].calls[j].id /\ h[k + j].name = h[k].calls[j].name
          /\ h[k + j].text > 0 => Takes(T, h[k].calls[j])
      BY <2>1, <3>1 DEF Sound, Answered, Computed, n
    <3>3. k + j \in 1..n /\ n <= Len(H)
      <4>1. h[k] \in EntryRec
        BY <1>1, <2>1 DEF n
      <4>2. Len(h[k].calls) \in Nat
        BY <4>1 DEF EntryRec
      <4> QED
        BY <1>1, <1>4, <2>1, <3>1, <3>2, <4>2
    <3>4. H[k + j] = h[k + j]
      BY <1>4, <3>3
    <3>5. k + j <= Len(H)
      BY <1>1, <1>4, <3>3
    <3> QED
      BY <3>1, <3>2, <3>4, <3>5
  <2>2. CASE k = n + 1
    <3>1. H[k].calls = calls /\ j \in 1..m
      BY <1>2, <1>4, <1>9, <2>2 DEF m
    <3>2. H[k + j] = results[j] /\ k + j <= Len(H)
      BY <1>1, <1>4, <2>2, <3>1
    <3> QED
      BY <1>6, <3>1, <3>2
  <2>3. CASE \E l \in 1..m : H[k] = results[l]
    <3>1. H[k].calls = <<>>
      BY <1>6, <2>3
    <3>2. 1..Len(H[k].calls) = {}
      BY <3>1
    <3> QED
      BY <1>9, <3>2
  <2> QED
    BY <1>5, <2>1, <2>2, <2>3
<1>10. Answered(H) /\ Computed(T, H)
  BY <1>9 DEF Answered, Computed
<1> QED
  BY <1>7, <1>8, <1>10 DEF Sound, H, e

-----------------------------------------------------------------------------
(* A request *)

\* The fitting goes on as in ContextWindow, over questions and answers.
Questions == \A k \in 1..Len(messages) : messages[k].role \in {"user", "assistant"}

\* The registered tools; before the first call the fitting, and from then on the history
\* that has been made, and the body of the call that runs.
PInv ==
    /\ phase \in {"fit", "ask", "wait", "thrown", "done"} /\ round \in Nat
    /\ \E s \in Registrations : Registry(tools, s)
    /\ phase = "fit" => IInv /\ Questions /\ history = <<>> /\ at = 1 /\ round = 0
    /\ phase # "fit" => order \in Orders /\ at \in 1..Len(order) /\ Sound(tools, history)
    /\ body = IF phase = "wait" THEN BodyOf(order[at], history, definitions(tools)) ELSE NoBody

\* An order names a family at every place.
LEMMA OrderType ==
  ASSUME NEW o \in Orders
  PROVE  Len(o) \in Nat /\ 1 \in 1..Len(o) /\ \A k \in 1..Len(o) : o[k] \in Family
<1>1. o \in Seq(Family) /\ o # <<>>
  BY OrdersAssumption
<1> QED
  BY <1>1

LEMMA QuestionsInit == Init => Questions
<1> SUFFICES ASSUME Init PROVE Questions
  OBVIOUS
<1>1. PICK n \in 0..MaxMessages : messages \in [1..n -> [role : {"user", "assistant"}, text : Texts]]
  BY DEF Init, Histories
<1>2. n \in Nat /\ Len(messages) = n
  BY <1>1
<1>3. \A k \in 1..n : messages[k].role \in {"user", "assistant"}
  BY <1>1
<1> QED
  BY <1>2, <1>3 DEF Questions

\* Only the summary, in front of the others, is the system's.
LEMMA ResultRoles ==
  ASSUME IInv, Questions, pc = "done"
  PROVE  /\ Len(result) \in Nat /\ DOMAIN result = 1..Len(result)
         /\ \A k \in 1..Len(result) : /\ result[k].role \in {"user", "assistant", "system"}
                                      /\ result[k].role = "system" => k = 1
<1> DEFINE W == Len(messages)
           cut == Truncated(messages[W], budget)
           S == {messages[k] : k \in 1..W} \cup {Summary(Oldest(k)) : k \in 0..W}
                    \cup (IF W > 0 THEN {cut} ELSE {})
           Role3 == {"user", "assistant", "system"}
           Good(r) == r \in Seq(S) /\ \A k \in 1..Len(r) : r[k].role \in Role3 /\ (r[k].role = "system" => k = 1)
           Quiet(r) == r \in Seq(S) /\ \A k \in 1..Len(r) : r[k].role \in {"user", "assistant"}
<1>1. messages \in Seq(Message) /\ W \in Nat /\ DOMAIN messages = 1..W
  <2>1. messages \in Seq(Message)
    BY DEF IInv
  <2> QED
    BY <2>1
<1>2. /\ \A k \in 1..W : messages[k].role \in {"user", "assistant"} /\ messages[k] \in S
      /\ \A k \in 0..W : Summary(Oldest(k)).role = "system" /\ Summary(Oldest(k)) \in S
  BY DEF Questions, Summary
<1>3. W > 0 => cut \in S /\ cut.role = messages[W].role
  <2>1. W > 0 => messages[W] \in Message
    BY <1>1
  <2> QED
    BY <2>1 DEF Truncated, Message
<1> HIDE DEF cut
<1>4. messages \in Seq(S)
  <2> HIDE DEF S
  <2>1. messages = [k \in 1..W |-> messages[k]]
    BY <1>1
  <2>2. messages \in [1..W -> S]
    BY <1>2, <2>1
  <2> QED
    BY <1>1, <2>2, SeqDef
<1> HIDE DEF S
<1>5. ASSUME NEW k \in 0..W, NEW kept, Quiet(kept) PROVE Good(Behind(Oldest(k), kept))
  <2> DEFINE x == Summary(Oldest(k))
  <2>1. x \in S /\ x.role = "system"
    BY <1>2
  <2> HIDE DEF x
  <2>2. CASE Oldest(k) = <<>>
    BY <1>5, <2>2 DEF Behind
  <2>3. CASE Oldest(k) # <<>>
    <3>1. Behind(Oldest(k), kept) = <<x>> \o kept
      BY <2>3 DEF Behind, x
    <3>2. kept \in Seq(S) /\ Len(kept) \in Nat
      BY <1>5
    <3>3. /\ <<x>> \o kept \in Seq(S) /\ Len(<<x>> \o kept) = 1 + Len(kept)
          /\ (<<x>> \o kept)[1] = x
          /\ \A j \in 1..Len(kept) : (<<x>> \o kept)[1 + j] = kept[j]
      BY <2>1, <3>2
    <3>4. \A j \in 1..(1 + Len(kept)) : j = 1 \/ (j - 1 \in 1..Len(kept) /\ j = 1 + (j - 1))
      BY <3>2
    <3> DEFINE r == <<x>> \o kept
    <3> HIDE DEF r
    <3>5. \A j \in 1..(1 + Len(kept)) : r[j].role \in Role3 /\ (r[j].role = "system" => j = 1)
      <4> TAKE j \in 1..(1 + Len(kept))
      <4>1. CASE j = 1
        BY <2>1, <3>3, <4>1 DEF r
      <4>2. CASE j - 1 \in 1..Len(kept) /\ j = 1 + (j - 1)
        <5>1. r[j] = kept[j - 1]
          BY <3>3, <4>2 DEF r
        <5> QED
          BY <1>5, <4>2, <5>1
      <4> QED
        BY <3>4, <4>1, <4>2
    <3> QED
      BY <3>1, <3>3, <3>5 DEF r
  <2> QED
    BY <2>2, <2>3
<1>6. ASSUME NEW k \in 0..W PROVE Quiet(After(k))
  <2>1. /\ After(k) \in Seq(S) /\ Len(After(k)) = W - k
        /\ \A j \in 1..(W - k) : After(k)[j] = messages[k + j]
    <3>1. After(k) \in Seq(S) /\ Len(After(k)) = W - k
      BY <1>4, <1>6, RestTyped DEF After
    <3>2. \A j \in 1..(W - k) : SubSeq(messages, k + 1, W)[j] = messages[(k + 1) + j - 1]
      <4>1. /\ k + 1 \in 1..(W + 1) /\ W \in k..W /\ W - (k + 1) + 1 = W - k
            /\ \A j \in (k + 1)..W : messages[j] \in S
        BY <1>1, <1>2, <1>6
      <4>2. W \in ((k + 1) - 1)..W
        BY <1>1, <1>6
      <4> QED
        BY <1>1, <1>4, <4>1, <4>2, SubSeqProperties
    <3>3. \A j \in 1..(W - k) : (k + 1) + j - 1 = k + j
      BY <1>1, <1>6
    <3> QED
      BY <3>1, <3>2, <3>3 DEF After
  <2>2. \A j \in 1..(W - k) : k + j \in 1..W
    BY <1>1, <1>6
  <2> QED
    BY <1>2, <2>1, <2>2
<1>7. Good(result)
  <2>1. CASE result = messages
    <3>1. Good(messages)
      BY <1>2, <1>4
    <3> QED
      BY <2>1, <3>1
  <2>2. CASE \E k \in 0..Whole : result = Behind(Oldest(k), After(k))
    <3>1. PICK k \in 0..W : result = Behind(Oldest(k), After(k))
      BY <2>2 DEF Whole
    <3> HIDE DEF Good, Quiet
    <3> QED
      BY <1>5, <1>6, <3>1
  <2>3. CASE /\ Whole > 0 /\ messages[Whole].role = "user"
             /\ result = Behind(Oldest(Whole - 1), <<Truncated(messages[Whole], budget)>>)
    <3>1. W > 0 /\ W - 1 \in 0..W /\ messages[W].role = "user"
      BY <1>1, <2>3 DEF Whole
    <3>2. Quiet(<<cut>>)
      <4>1. cut.role = "user" /\ cut \in S
        BY <1>3, <3>1
      <4>2. <<cut>> \in Seq(S) /\ Len(<<cut>>) = 1 /\ <<cut>>[1] = cut
        BY <4>1
      <4> QED
        BY <4>1, <4>2
    <3>3. result = Behind(Oldest(W - 1), <<cut>>)
      BY <2>3 DEF cut, Whole
    <3> HIDE DEF Good, Quiet
    <3> QED
      BY <1>5, <3>1, <3>2, <3>3
  <2> QED
    BY <2>1, <2>2, <2>3 DEF IInv, NothingIsSkipped
<1> QED
  BY <1>7

\* What fits is a history of its own.
LEMMA BegunHistory ==
  ASSUME IInv, Questions, pc = "done", NEW h,
         h = [k \in DOMAIN result |-> Entry(result[k].role, IF Bytes(result[k].text) = 0 THEN 0 ELSE k, <<>>)]
  PROVE  \A T : Sound(T, h)
<1> DEFINE n == Len(result)
           text(k) == IF Bytes(result[k].text) = 0 THEN 0 ELSE k
<1>1. /\ n \in Nat /\ DOMAIN result = 1..n
      /\ \A k \in 1..n : /\ result[k].role \in {"user", "assistant", "system"}
                         /\ result[k].role = "system" => k = 1
  BY ResultRoles
<1>2. h = [k \in 1..n |-> Entry(result[k].role, text(k), <<>>)]
  BY <1>1
<1>3. \A k \in 1..n : text(k) \in Int
  BY <1>1
<1> HIDE DEF n, text
<1>4. \A k \in 1..n : h[k] \in EntryRec /\ h[k].calls = <<>> /\ h[k].role = result[k].role
  <2> TAKE k \in 1..n
  <2>1. h[k] = Entry(result[k].role, text(k), <<>>)
    BY <1>2
  <2>2. <<>> \in Seq(CallRec) /\ "" \in Id /\ "" \in Names
    BY DEF Id, Names
  <2> QED
    BY <1>1, <1>3, <2>1, <2>2 DEF Entry, EntryRec
<1>5. h \in Seq(EntryRec) /\ Len(h) = n
  <2>1. h \in [1..n -> EntryRec]
    BY <1>2, <1>4
  <2> QED
    BY <1>1, <2>1, SeqDef
<1>6. Speaking(h) /\ SummaryFirst(h)
  BY <1>1, <1>4, <1>5 DEF Speaking, Speaks, SummaryFirst
<1>7. \A k \in 1..n : 1..Len(h[k].calls) = {}
  <2>1. 1..Len(<<>>) = {}
    OBVIOUS
  <2> QED
    BY <1>4, <2>1
<1>8. Answered(h) /\ \A T : Computed(T, h)
  BY <1>5, <1>7 DEF Answered, Computed
<1> QED
  BY <1>6, <1>8 DEF Sound

LEMMA PromptStarts == PromptInit => PInv
<1> SUFFICES ASSUME PromptInit PROVE PInv
  OBVIOUS
<1>1. PICK s \in Registrations : tools = Registered(s)
  BY DEF PromptInit
<1>2. Registry(tools, s)
  BY <1>1, RegisteredTools, RegistrationsAssumption
<1>3. IInv /\ Questions
  BY InitSplits, QuestionsInit DEF PromptInit
<1> QED
  BY <1>2, <1>3 DEF PromptInit, PInv

LEMMA PromptSteps == PInv /\ [PromptNext]_<<vars, promptVars>> => PInv'
<1> SUFFICES ASSUME PInv, [PromptNext]_<<vars, promptVars>> PROVE PInv'
  OBVIOUS
<1>a. PICK s \in Registrations : Registry(tools, s)
  BY DEF PInv
<1>1. CASE Fitting
  <2>1. /\ phase = "fit" /\ IInv /\ Questions /\ [Next]_vars
        /\ phase' = phase /\ history' = history /\ tools' = tools /\ order' = order
        /\ at' = at /\ round' = round /\ body' = body
    BY <1>1 DEF Fitting, PInv, promptVars
  <2>2. IInv'
    BY <2>1, StepSplits
  <2>3. messages' = messages
    BY <1>1 DEF Fitting, Next, ReturnAll, Begin, Keep, Stop, Summarise
  <2>4. Questions'
    BY <2>1, <2>3 DEF Questions
  <2> QED
    BY <1>a, <2>1, <2>2, <2>4 DEF PInv
<1>2. CASE Begun
  <2>1. /\ phase = "fit" /\ pc = "done" /\ IInv /\ Questions /\ at = 1 /\ body = NoBody
        /\ round \in Nat
    BY <1>2 DEF Begun, PInv
  <2>2. \A T : Sound(T, history')
    BY <1>2, <2>1, BegunHistory DEF Begun
  <2>3. phase' = "ask" /\ order' \in Orders /\ at' = at /\ tools' = tools /\ round' = round /\ body' = body
    BY <1>2 DEF Begun
  <2>4. at' \in 1..Len(order')
    BY <2>1, <2>3, OrderType
  <2> QED
    BY <1>a, <2>1, <2>2, <2>3, <2>4 DEF PInv
<1>c. ASSUME phase # "fit" PROVE order \in Orders /\ at \in 1..Len(order) /\ Sound(tools, history) /\ round \in Nat
  BY <1>c DEF PInv
<1>3. CASE Ask
  <2>1. /\ phase = "ask" /\ phase' = "wait" /\ body' = BodyOf(order[at], history, definitions(tools))
        /\ history' = history /\ tools' = tools /\ order' = order /\ at' = at /\ round' = round
    BY <1>3 DEF Ask
  <2> QED
    BY <1>a, <1>c, <2>1 DEF PInv
<1>4. CASE AskThrows
  <2>1. /\ phase = "ask" /\ phase' = "thrown" /\ body' = body /\ body = NoBody
        /\ history' = history /\ tools' = tools /\ order' = order /\ at' = at /\ round' = round
    BY <1>4 DEF AskThrows, PInv
  <2> QED
    BY <1>a, <1>c, <2>1 DEF PInv
<1>5. CASE Fails
  <2>1. /\ phase = "wait" /\ phase' \in {"ask", "done"} /\ body' = NoBody
        /\ at' = IF at < Len(order) THEN at + 1 ELSE at
        /\ history' = history /\ tools' = tools /\ order' = order /\ round' = round
    BY <1>5 DEF Fails
  <2>2. at' \in 1..Len(order)
    <3>1. Len(order) \in Nat /\ at \in 1..Len(order)
      BY <1>c, <2>1, OrderType
    <3> QED
      BY <2>1, <3>1
  <2> QED
    BY <1>a, <1>c, <2>1, <2>2 DEF PInv
<1>6. ASSUME NEW reply \in Replies, AsksForTools(reply) PROVE PInv'
  <2> DEFINE calls == ToolCalls(order[at], reply)
  <2>1. /\ phase = "wait" /\ phase' = "ask" /\ body' = NoBody /\ at' = 1 /\ round' = round + 1
        /\ tools' = tools /\ order' = order
    BY <1>6 DEF AsksForTools
  <2>2. PICK results \in Results(calls) :
           history' = Append(history, Entry("assistant", Said(reply), calls)) \o results
    BY <1>6 DEF AsksForTools
  <2>3. order[at] \in Family /\ 1 \in 1..Len(order) /\ round \in Nat /\ Sound(tools, history)
    BY <1>c, <2>1, OrderType
  <2>4. calls \in Seq(CallRec)
    BY <2>3, RepliedCalls, RepliesAssumption
  <2>5. history \in Seq(EntryRec)
    BY <2>3 DEF Sound, Speaking
  <2>6. Said(reply) \in Int
    <3>1. Len(history) \in Nat
      BY <2>5
    <3> QED
      BY <3>1 DEF Said, NewText
  <2> HIDE DEF calls
  <2>7. Returned(tools, calls, results)
    BY <2>4, <2>5, ResultsReturned
  <2>8. Sound(tools, history')
    BY <2>2, <2>3, <2>4, <2>6, <2>7, RoundKeeps
  <2>9. round' \in Nat
    BY <2>1, <2>3
  <2> QED
    BY <1>a, <1>c, <2>1, <2>3, <2>8, <2>9 DEF PInv
<1>7. ASSUME NEW reply \in Replies, Ends(reply) PROVE PInv'
  <2>1. /\ phase = "wait" /\ phase' = "done" /\ body' = NoBody
        /\ history' = history /\ tools' = tools /\ order' = order /\ at' = at /\ round' = round
    BY <1>7 DEF Ends
  <2> QED
    BY <1>a, <1>c, <2>1 DEF PInv
<1>8. CASE UNCHANGED <<vars, promptVars>>
  <2>1. /\ phase' = phase /\ history' = history /\ tools' = tools /\ order' = order
        /\ at' = at /\ round' = round /\ body' = body
    BY <1>8 DEF promptVars
  <2>2. IInv => IInv'
    BY <1>8, StepSplits
  <2>3. Questions => Questions'
    BY <1>8 DEF vars, Questions
  <2> QED
    BY <1>a, <2>1, <2>2, <2>3 DEF PInv
<1> QED
  BY <1>1, <1>2, <1>3, <1>4, <1>5, <1>6, <1>7, <1>8 DEF PromptNext

LEMMA PromptInvariant == PromptSpec => []PInv
BY PromptStarts, PromptSteps, PTL DEF PromptSpec

\* What holds of the body of a call.
LEMMA Waiting ==
  ASSUME PInv, phase = "wait"
  PROVE  /\ order[at] \in Family /\ Sound(tools, history)
         /\ body = BodyOf(order[at], history, definitions(tools))
         /\ \E s \in Registrations : Registry(tools, s)
BY OrderType DEF PInv

LEMMA PInvAnswers == PInv => EveryCallHasItsResult
<1> SUFFICES ASSUME PInv PROVE EveryCallHasItsResult
  OBVIOUS
<1>1. CASE phase = "wait"
  BY <1>1, Waiting, BodyAnswers DEF Sound
<1>2. CASE phase # "wait"
  <2>1. body.turns = <<>>
    BY <1>2 DEF PInv, NoBody
  <2>2. DOMAIN body.turns = {}
    BY <2>1
  <2> QED
    BY <2>2 DEF EveryCallHasItsResult
<1> QED
  BY <1>1, <1>2

LEMMA PInvTells == PInv => TellsTheHistory
<1> SUFFICES ASSUME PInv, phase = "wait" PROVE TellsTheHistory
  BY DEF TellsTheHistory
<1> DEFINE family == order[at]  offered == Declared(family, body.tools)
<1>1. family \in Family /\ Sound(tools, history) /\ body = BodyOf(family, history, definitions(tools))
  BY Waiting
<1>2. PICK s \in Registrations : Registry(tools, s)
  BY Waiting
<1>3. Told = TextsOf(Picked(history, ToldOf(family, history)))
  BY <1>1, BodyTells DEF Sound
<1>4. body.tools = DeclarationsFor(family, definitions(tools))
  BY <1>1 DEF BodyOf
<1>5. Offers(offered, tools)
  <2>1. offered = Declared(family, DeclarationsFor(family, definitions(tools)))
    BY <1>4
  <2> HIDE DEF offered, family
  <2> QED
    BY <1>1, <1>2, <2>1, BodyOffers
<1> QED
  BY <1>3, <1>5 DEF TellsTheHistory, ToldOf, Offers

LEMMA PInvSurvives == PInv => ArgumentsSurvive
<1> SUFFICES ASSUME PInv, phase = "wait" PROVE ArgumentsSurvive
  BY DEF ArgumentsSurvive
<1>1. /\ order[at] \in Family /\ Sound(tools, history)
      /\ body = BodyOf(order[at], history, definitions(tools))
  BY Waiting
<1>2. Survive(order[at], FlattenSeq(CallsBy(history)), CallsIn(Parts))
  BY <1>1, BodyKeepsCalls DEF Sound
<1>3. \A k \in DOMAIN history : \A j \in DOMAIN history[k].calls :
         history[k + j].text > 0 => Takes(tools, history[k].calls[j])
  <2>1. history \in Seq(EntryRec)
    BY <1>1 DEF Sound, Speaking
  <2>2. DOMAIN history = 1..Len(history)
    BY <2>1
  <2>3. \A k \in 1..Len(history) : DOMAIN history[k].calls = 1..Len(history[k].calls)
    <3> TAKE k \in 1..Len(history)
    <3>1. history[k] \in EntryRec
      BY <2>1
    <3>2. history[k].calls \in Seq(CallRec)
      BY <3>1 DEF EntryRec
    <3> QED
      BY <3>2
  <2> QED
    BY <1>1, <2>2, <2>3 DEF Sound, Computed
<1> QED
  BY <1>2, <1>3 DEF ArgumentsSurvive, Survive, CallsBy, Takes

\* In every request of every round each call of a turn has its result behind it, under its
\* key: the tool loop (ChatSDK.cc:191-211) and the builder of each family agree on the order.
THEOREM AnswersCorrect == PromptSpec => []EveryCallHasItsResult
BY PromptInvariant, PInvAnswers, PTL

\* Every request tells the history in its order and once, but for what Gemini's builder
\* leaves out, and offers each registered tool under its name.
THEOREM TellsCorrect == PromptSpec => []TellsTheHistory
BY PromptInvariant, PInvTells, PTL

\* No family loses a call or changes an object of arguments, and every result in the
\* history is one that a registered tool has for the arguments of the call before it.
THEOREM ArgumentsCorrect == PromptSpec => []ArgumentsSurvive
BY PromptInvariant, PInvSurvives, PTL

\* The fitting of a request is that of ContextWindow, and none when it is over.
LEMMA PromptMeasures == Measured /\ [PromptNext]_<<vars, promptVars>> => Measured'
<1> SUFFICES ASSUME Measured, [PromptNext]_<<vars, promptVars>> PROVE Measured'
  OBVIOUS
<1>1. CASE [Next]_vars
  BY <1>1, MeasuredStep
<1>2. CASE Begun
  <2>1. /\ messages' = <<>> /\ budget' = 0 /\ result' = <<>> /\ pc' = "done"
    BY <1>2 DEF Begun
  <2>2. FitsAsItIs' /\ Fit' = messages'
    BY <2>1 DEF FitsAsItIs, Fit
  <2>3. messages' \in Seq(Message) /\ budget' \in Int
    BY <2>1
  <2> QED
    BY <2>1, <2>2, <2>3 DEF Measured
<1>3. Fitting => [Next]_vars
  BY DEF Fitting
<1>4. /\ Ask => UNCHANGED vars
      /\ AskThrows => UNCHANGED vars
      /\ Fails => UNCHANGED vars
  BY DEF Ask, AskThrows, Fails
<1>5. \A reply \in Replies : AsksForTools(reply) \/ Ends(reply) => UNCHANGED vars
  BY DEF AsksForTools, Ends
<1> QED
  BY <1>1, <1>2, <1>3, <1>4, <1>5 DEF PromptNext

\* What ContextWindow promises of a call holds in every request: the history its rounds
\* begin with is what fitToBudget keeps, has the question, and is within its bound.
THEOREM RequestsFit == PromptSpec => [](LoopIsFit /\ QuestionSurvives /\ OverrunIsBounded)
<1>1. PromptInit => Measured
  BY MeasuredInit DEF PromptInit
<1>2. Measured => LoopIsFit
  BY DEF Measured, LoopIsFit
<1> QED
  BY <1>1, <1>2, PromptMeasures, MeasuredSurvives, MeasuredIsBounded, PTL DEF PromptSpec
=============================================================================
