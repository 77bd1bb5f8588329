------------------------- MODULE StreamParserProofs -------------------------
(***************************************************************************)
(* Proofs about StreamParser: for every family, every stream and every way *)
(* of cutting it.                                                          *)
(*                                                                         *)
(* The invariant relates what was shown to the wire.  Every chunk comes    *)
(* from a line that has left the buffer (Sources) and says what that line  *)
(* says; chunks stand in the order of their lines, and two of one line are *)
(* a text and its end (Ordered).  A step adds chunks of one line that lies *)
(* behind all that has left the buffer before, for the buffer is the rest  *)
(* of what has arrived (BufferIsTheRest).                                  *)
(*                                                                         *)
(* A cut that is found is found whatever still comes (FirstCutStays): that *)
(* is why the cuts of the network do not matter (PiecesCorrect).  ToldSoFar*)
(* adds up what was told and what the rest will tell.  For well framed     *)
(* streams the places between frames are named (Framing), and what has left*)
(* the buffer ends at one of them (TakenByFrames, TextsCorrect).           *)
(***************************************************************************)
EXTENDS StreamParser, SumTheorems

Ends == {"end", "apology"}

Kinds == {"text", "blank", "end", "apology"}

\* A chunk comes from a line that has left the buffer, and says what the line
\* says; only the end that the provider adds itself has no line.
Sources ==
    \A i \in DOMAIN shown :
        \/ /\ shown[i].at \in 1..taken
           /\ shown[i].what = "text" => wire[shown[i].at] \in {"text", "tail"}
           /\ shown[i].what = "blank" => wire[shown[i].at] = "blank"
           /\ shown[i].what \in Ends => wire[shown[i].at] \in Final
        \/ shown[i] = [what |-> "end", at |-> 0] /\ i = Len(shown) /\ pc = "done"

\* Chunks stand in the order of their lines; two of one line are a text and its end.
Ordered ==
    \A i, j \in DOMAIN shown :
        i < j /\ shown[j].at # 0 =>
            \/ shown[i].at < shown[j].at
            \/ shown[i].at = shown[j].at /\ shown[i].what = "text" /\ shown[j].what = "end"

\* The stream has finished when an end was shown, and nothing is added after it
\* but when it has not.
Finished ==
    /\ streamFinish => \E i \in DOMAIN shown : shown[i].what \in Ends
    /\ result = "text" => \E i \in DOMAIN shown : shown[i].what \in Ends
    /\ result # "none" => pc = "done"
    /\ \A i \in DOMAIN shown : shown[i].at = 0 => ~streamFinish

\* The answer is what was shown, part by part.
Answer ==
    /\ ToSet(full_content) = {shown[i].at : i \in {k \in DOMAIN shown : shown[k].what = "text"}}
    /\ \A i, j \in DOMAIN full_content : i < j => full_content[i] < full_content[j]

IInv == TypeOK /\ BufferIsTheRest /\ Sources /\ Ordered /\ Finished /\ Answer

-----------------------------------------------------------------------------
\* What was sent is a sequence of symbols.
LEMMA WireType ==
  ASSUME TypeOK
  PROVE  wire \in Seq(Symbol) /\ Len(wire) \in Nat /\ got \in Nat /\ taken \in Nat
<1>1. wire \in Seq(Symbol)
  BY SentAssumption DEF TypeOK
<1> QED
  BY <1>1 DEF TypeOK

\* A separator that is found lies inside the sequence.
LEMMA CutIsInsideOf ==
  ASSUME NEW q \in Seq(Symbol), NEW c \in FirstCut(q)
  PROVE  /\ c[1] \in 1..Len(q) /\ c[2] \in Separators /\ Len(c[2]) \in {2, 4}
         /\ c[1] + Len(c[2]) - 1 <= Len(q)
<1>1. c[1] \in 1..Len(q) /\ c[2] \in Separators /\ IsPrefix(c[2], SubSeq(q, c[1], Len(q)))
  BY DEF FirstCut
<1>2. Len(c[2]) \in {2, 4}
  BY <1>1 DEF Separators
<1>3. Len(q) \in Nat
  OBVIOUS
<1>4. Len(SubSeq(q, c[1], Len(q))) = Len(q) - c[1] + 1
  BY <1>1, <1>3
<1>5. Len(c[2]) <= Len(SubSeq(q, c[1], Len(q)))
  BY <1>1 DEF IsPrefix
<1> QED
  BY <1>1, <1>2, <1>3, <1>4, <1>5

\* A separator that is found lies inside the buffer.
LEMMA CutIsInside ==
  ASSUME TypeOK, NEW c \in FirstCut(buffer)
  PROVE  /\ c[1] \in 1..Len(buffer) /\ c[2] \in Separators /\ Len(c[2]) \in {2, 4}
         /\ c[1] + Len(c[2]) - 1 <= Len(buffer)
BY CutIsInsideOf DEF TypeOK

\* The line that is read of an event is a line of the wire, behind all that has
\* left the buffer before.
LEMMA LineOfEvent ==
  ASSUME TypeOK, BufferIsTheRest, NEW c \in FirstCut(buffer),
         NEW i \in DataAt(SubSeq(buffer, 1, c[1] - 1))
  PROVE  LET event == SubSeq(buffer, 1, c[1] - 1)
         IN  /\ i \in DOMAIN event /\ event[i] = wire[taken + i] /\ event[i] \in Data
             /\ taken + i \in (taken + 1)..(taken + c[1] - 1)
             /\ taken + i \in DOMAIN wire
<1> DEFINE event == SubSeq(buffer, 1, c[1] - 1)
<1>1. /\ c[1] \in 1..Len(buffer) /\ buffer \in Seq(Symbol) /\ Len(buffer) \in Nat
      /\ wire \in Seq(Symbol) /\ Len(wire) \in Nat /\ got \in 0..Len(wire) /\ taken \in 0..got
  BY CutIsInside, WireType DEF TypeOK
<1>2. Len(event) = c[1] - 1 /\ DOMAIN event = 1..(c[1] - 1)
      /\ \A k \in 1..(c[1] - 1) : event[k] = buffer[k]
  BY <1>1
<1>3. i \in 1..(c[1] - 1) /\ event[i] \in Data
  BY <1>2 DEF DataAt
<1>4. Len(buffer) = got - taken /\ \A k \in 1..(got - taken) : buffer[k] = wire[taken + k]
  BY <1>1 DEF BufferIsTheRest
<1>5. event[i] = wire[taken + i]
  BY <1>1, <1>2, <1>3, <1>4
<1>6. taken + i \in 1..Len(wire) /\ DOMAIN wire = 1..Len(wire)
  BY <1>1, <1>3, <1>4
<1> QED
  BY <1>1, <1>2, <1>3, <1>5, <1>6

\* The end of the end of a sequence is its end.
LEMMA RestOfRest ==
  ASSUME NEW S, NEW w \in Seq(S), NEW t \in Nat, NEW g \in t..Len(w), NEW n \in 0..(g - t)
  PROVE  /\ SubSeq(SubSeq(w, t + 1, g), n + 1, g - t) = SubSeq(w, t + n + 1, g)
         /\ SubSeq(w, t + n + 1, g) \in Seq(S)
<1> DEFINE q == SubSeq(w, t + 1, g)
           a == SubSeq(q, n + 1, g - t)
           b == SubSeq(w, t + n + 1, g)
<1>1. Len(w) \in Nat /\ g \in Nat /\ n \in Nat /\ \A x \in 1..Len(w) : w[x] \in S
  OBVIOUS
<1>2. \A x \in 1..(g - t) : q[x] = w[t + x]
  <2>1. \A x \in (t + 1)..g : w[x] \in S
    BY <1>1
  <2> QED
    BY <1>1, <2>1, SubSeqProperties
<1> HIDE DEF q
<1>3. a \in Seq(S) /\ Len(a) = g - t - n /\ \A x \in 1..(g - t - n) : a[x] = q[n + x]
  <2>1. \A x \in (n + 1)..(g - t) : q[x] \in S
    BY <1>1, <1>2
  <2> QED
    BY <1>1, <2>1, SubSeqProperties
<1>4. b \in Seq(S) /\ Len(b) = g - t - n /\ \A x \in 1..(g - t - n) : b[x] = w[t + n + x]
  <2>1. \A x \in (t + n + 1)..g : w[x] \in S
    BY <1>1
  <2> QED
    BY <1>1, <2>1, SubSeqProperties
<1>5. \A x \in 1..Len(a) : a[x] = b[x]
  BY <1>1, <1>2, <1>3, <1>4
<1> HIDE DEF a, b
<1>6. a = b
  BY <1>3, <1>4, <1>5, SeqEqual
<1> QED
  BY <1>4, <1>6 DEF a, b, q

\* What leaves the buffer is its beginning.
LEMMA ErasedIsTaken ==
  ASSUME TypeOK, BufferIsTheRest, NEW c \in FirstCut(buffer), Erase(c), UNCHANGED <<wire, got>>
  PROVE  /\ BufferIsTheRest' /\ taken' \in 0..got /\ buffer' \in Seq(Symbol)
         /\ taken' >= taken + c[1] - 1 /\ taken' >= taken
<1>1. /\ wire \in Seq(Symbol) /\ Len(wire) \in Nat /\ got \in taken..Len(wire) /\ taken \in Nat
  BY WireType DEF TypeOK
<1>2. buffer = SubSeq(wire, taken + 1, got) /\ Len(buffer) = got - taken
  BY <1>1 DEF BufferIsTheRest
<1>3. PICK p \in Nat, n \in 1..(got - taken) :
        /\ p = c[1] /\ n >= p - 1
        /\ buffer' = SubSeq(buffer, n + 1, Len(buffer)) /\ taken' = taken + n
  <2>1. PICK l \in {2, 4} : l = Len(c[2])
    BY CutIsInside
  <2>2. PICK p \in Nat : p = c[1] /\ p \in 1..Len(buffer) /\ p + l - 1 <= Len(buffer)
    BY <2>1, CutIsInside
  <2>3. buffer' = SubSeq(buffer, p + l, Len(buffer)) /\ taken' = taken + p + l - 1
    BY <2>1, <2>2 DEF Erase
  <2>4. l \in Nat /\ l >= 2 /\ got - taken \in Nat /\ p + l - 1 <= got - taken
    BY <1>1, <1>2, <2>2
  <2> DEFINE m == p + l - 1
  <2>5. m \in 1..(got - taken) /\ m + 1 = p + l /\ m >= p - 1 /\ taken + m = taken + p + l - 1
    BY <1>1, <2>4
  <2> HIDE DEF m
  <2> QED
    BY <2>2, <2>3, <2>5
<1>4. buffer' = SubSeq(wire, taken + n + 1, got) /\ buffer' \in Seq(Symbol)
  BY <1>1, <1>2, <1>3, RestOfRest
<1> QED
  BY <1>1, <1>3, <1>4 DEF BufferIsTheRest

\* A line says at most one thing, or a text and its end, and says what it is.
LEMMA SaysWhatItIs ==
  ASSUME family \in Family, NEW event, NEW i \in DOMAIN event, event[i] \in Data
  PROVE  LET says == Says(event[i], event)
         IN  /\ \/ says = <<>>
                \/ \E w \in Kinds : says = <<w>>
                \/ says = <<"text", "end">>
             /\ "text" \in ToSet(says) => event[i] \in {"text", "tail"}
             /\ "blank" \in ToSet(says) => event[i] = "blank"
             /\ ToSet(says) \cap Ends # {} => event[i] \in Final
<1> USE DEF Kinds, Ends, Final, ToSet
<1>1. CASE family = "openai"
  <2>1. event = <<"done">> => event[i] = "done"
    OBVIOUS
  <2> QED
    BY <1>1, <2>1 DEF Says, SaysOpenAI
<1>2. CASE family = "claude"
  BY <1>2 DEF Says, SaysClaude
<1>3. CASE family = "gemini"
  BY <1>3 DEF Says, SaysGemini
<1> QED
  BY <1>1, <1>2, <1>3 DEF Family

-----------------------------------------------------------------------------
\* What an event adds to what was shown, and what it leaves of the invariant.
LEMMA ProcessStep ==
  ASSUME IInv, pc = "cut", NEW c \in FirstCut(buffer), Erase(c),
         Process(SubSeq(buffer, 1, c[1] - 1)), UNCHANGED <<family, sent, wire, got, result>>,
         pc' \in {"wait", "cut"}
  PROVE  IInv'
<1> DEFINE event == SubSeq(buffer, 1, c[1] - 1)
<1>1. /\ TypeOK /\ BufferIsTheRest' /\ taken' \in 0..got /\ buffer' \in Seq(Symbol)
      /\ taken' >= taken + c[1] - 1 /\ taken' >= taken /\ taken \in Nat /\ got \in Nat
      /\ got \in 0..Len(wire) /\ c[1] \in Nat
  BY ErasedIsTaken, CutIsInside, WireType DEF IInv, TypeOK
<1>2. result = "none"
  BY DEF IInv, Finished, TypeOK
<1>3. ASSUME DataAt(event) = {} PROVE IInv'
  <2>1. UNCHANGED <<shown, full_content, streamFinish>>
    BY <1>3 DEF Process
  <2>2. TypeOK'
    BY <1>1, <2>1 DEF TypeOK
  <2>3. Sources'
    BY <1>1, <2>1 DEF IInv, Sources, TypeOK
  <2> QED
    BY <1>1, <1>2, <2>1, <2>2, <2>3 DEF IInv, Ordered, Finished, Answer
<1>4. ASSUME NEW i \in DataAt(event), event[i] # "odd",
             shown' = shown \o [k \in DOMAIN Says(event[i], event) |->
                                   [what |-> Says(event[i], event)[k], at |-> taken + i]],
             full_content' = IF "text" \in ToSet(Says(event[i], event))
                             THEN Append(full_content, taken + i) ELSE full_content,
             streamFinish' = (streamFinish \/ ToSet(Says(event[i], event)) \cap Ends # {})
      PROVE  IInv'
  <2> DEFINE at == taken + i  line == event[i]  says == Says(line, event)
             more == [k \in DOMAIN says |-> [what |-> says[k], at |-> at]]
  <2>1. /\ i \in DOMAIN event /\ line = wire[at] /\ line \in Data
        /\ at \in (taken + 1)..(taken + c[1] - 1) /\ at \in DOMAIN wire /\ at \in Nat
    BY <1>1, LineOfEvent DEF IInv
  <2>2. /\ \/ says = <<>>
           \/ \E w \in Kinds : says = <<w>>
           \/ says = <<"text", "end">>
        /\ "text" \in ToSet(says) => line \in {"text", "tail"}
        /\ "blank" \in ToSet(says) => line = "blank"
        /\ ToSet(says) \cap Ends # {} => line \in Final
    BY <1>1, <2>1, SaysWhatItIs DEF TypeOK
  <2>3. /\ says \in Seq(Kinds) /\ Len(says) \in Nat /\ DOMAIN says = 1..Len(says)
        /\ \A k \in 1..Len(says) : says[k] \in ToSet(says) /\ says[k] \in Kinds
        /\ \A k, l \in 1..Len(says) : k < l => says[k] = "text" /\ says[l] = "end"
        /\ \A w \in ToSet(says) : \E k \in 1..Len(says) : says[k] = w
    <3> HIDE DEF says
    <3>1. CASE says = <<>>
      BY <3>1 DEF ToSet
    <3>2. CASE \E w \in Kinds : says = <<w>>
      BY <3>2 DEF ToSet, Kinds
    <3>3. CASE says = <<"text", "end">>
      BY <3>3 DEF ToSet, Kinds
    <3> QED
      BY <2>2, <3>1, <3>2, <3>3
  <2>4. more \in Seq(Chunk) /\ Len(more) = Len(says)
        /\ \A k \in 1..Len(says) : more[k] = [what |-> says[k], at |-> at]
    <3> HIDE DEF says
    <3>1. more \in [1..Len(says) -> Chunk]
      BY <2>1, <2>3 DEF Chunk, Kinds
    <3> QED
      BY <2>3, <3>1, SeqDef
  <2>5. shown' = shown \o more
    BY <1>4
  <2>6. /\ shown \in Seq(Chunk) /\ Len(shown) \in Nat /\ full_content \in Seq(Nat)
        /\ wire \in Seq(Symbol) /\ streamFinish \in BOOLEAN
    BY <1>1, WireType DEF TypeOK
  <2> DEFINE n == Len(shown)
  <2>7. /\ shown' \in Seq(Chunk) /\ DOMAIN shown' = 1..(n + Len(says)) /\ DOMAIN shown = 1..n
        /\ \A k \in 1..n : shown'[k] = shown[k]
        /\ \A k \in 1..(n + Len(says)) : k > n =>
               k - n \in 1..Len(says) /\ shown'[k] = [what |-> says[k - n], at |-> at]
    <3> HIDE DEF says, more
    <3>1. shown \o more \in Seq(Chunk) /\ Len(shown \o more) = n + Len(says)
          /\ \A k \in 1..(n + Len(says)) :
                (shown \o more)[k] = IF k <= n THEN shown[k] ELSE more[k - n]
      <4>1. Len(more) = Len(says) /\ more \in Seq(Chunk)
        BY <2>4
      <4>2. /\ shown \o more \in Seq(Chunk) /\ Len(shown \o more) = Len(shown) + Len(more)
            /\ \A k \in 1..(Len(shown) + Len(more)) :
                  (shown \o more)[k] = IF k <= Len(shown) THEN shown[k] ELSE more[k - Len(shown)]
        BY <2>6, <4>1, ConcatProperties, Zenon
      <4> QED
        BY <4>1, <4>2, Zenon
    <3>2. shown' \in Seq(Chunk) /\ DOMAIN shown' = 1..(n + Len(says)) /\ DOMAIN shown = 1..n
      BY <2>5, <2>6, <3>1
    <3>3. \A k \in 1..n : shown'[k] = shown[k]
      BY <2>3, <2>5, <2>6, <3>1
    <3>4. ASSUME NEW k \in 1..(n + Len(says)), k > n
          PROVE  k - n \in 1..Len(says) /\ shown'[k] = [what |-> says[k - n], at |-> at]
      <4>1. k - n \in 1..Len(says) /\ ~(k <= n)
        BY <2>3, <2>6, <3>4
      <4>2. shown'[k] = more[k - n]
        BY <2>5, <3>1, <4>1
      <4> QED
        BY <2>4, <4>1, <4>2
    <3> QED
      BY <3>2, <3>3, <3>4
  <2>8. full_content' = IF "text" \in ToSet(says) THEN Append(full_content, at) ELSE full_content
    BY <1>4
  <2>9. streamFinish' = (streamFinish \/ ToSet(says) \cap Ends # {})
    BY <1>4
  <2> HIDE DEF says, line, at, more, n
  <2>10. \A k \in 1..n : shown[k].at \in 1..taken
    BY <2>6, <2>7, SMT DEF IInv, Sources
  <2>11. TypeOK'
    <3>1. full_content' \in Seq(Nat)
      BY <2>1, <2>6, <2>8
    <3>2. streamFinish' \in BOOLEAN
      BY <2>9
    <3> QED
      BY <1>1, <2>7, <3>1, <3>2 DEF TypeOK
  <2>12. \A k \in DOMAIN shown' :
           /\ shown'[k].at \in 1..taken'
           /\ shown'[k].what = "text" => wire[shown'[k].at] \in {"text", "tail"}
           /\ shown'[k].what = "blank" => wire[shown'[k].at] = "blank"
           /\ shown'[k].what \in Ends => wire[shown'[k].at] \in Final
    <3> TAKE k \in DOMAIN shown'
    <3>1. CASE k \in 1..n
      <4>1. shown'[k] = shown[k] /\ shown[k].at \in 1..taken /\ k \in DOMAIN shown
        BY <2>7, <2>10, <3>1
      <4>2. shown[k].at # 0
        BY <1>1, <4>1
      <4>3. shown'[k].at \in 1..taken'
        BY <1>1, <4>1
      <4> QED
        BY <4>1, <4>2, <4>3 DEF IInv, Sources
    <3>2. CASE k > n
      <4>1. shown'[k] = [what |-> says[k - n], at |-> at] /\ says[k - n] \in ToSet(says)
        BY <2>3, <2>7, <3>2
      <4>2. at \in 1..taken'
        BY <1>1, <2>1
      <4> QED
        BY <2>1, <2>2, <4>1, <4>2
    <3> QED
      BY <2>6, <2>7, <3>1, <3>2 DEF n
  <2>13. Ordered'
    <3> SUFFICES ASSUME NEW k \in DOMAIN shown', NEW l \in DOMAIN shown', k < l
                 PROVE  \/ shown'[k].at < shown'[l].at
                        \/ shown'[k].at = shown'[l].at /\ shown'[k].what = "text" /\ shown'[l].what = "end"
      BY DEF Ordered
    <3>1. k \in Nat /\ l \in Nat /\ n \in Nat /\ k \in 1..(n + Len(says)) /\ l \in 1..(n + Len(says))
      BY <2>6, <2>7 DEF n
    <3>2. CASE l <= n
      <4>1. k \in 1..n /\ l \in 1..n
        BY <3>1, <3>2
      <4>2. shown'[k] = shown[k] /\ shown'[l] = shown[l] /\ shown[l].at # 0
        BY <1>1, <2>7, <2>10, <4>1
      <4> QED
        BY <2>7, <4>1, <4>2 DEF IInv, Ordered
    <3>3. CASE k <= n /\ l > n
      <4>1. shown'[k].at \in 1..taken /\ shown'[l].at = at
        BY <2>7, <2>10, <3>1, <3>3
      <4> QED
        BY <1>1, <2>1, <4>1
    <3>4. CASE k > n
      <4>1. /\ shown'[k] = [what |-> says[k - n], at |-> at] /\ k - n \in 1..Len(says)
            /\ shown'[l] = [what |-> says[l - n], at |-> at] /\ l - n \in 1..Len(says)
        BY <2>7, <3>1, <3>4
      <4>2. k - n < l - n
        BY <3>1
      <4>3. says[k - n] = "text" /\ says[l - n] = "end"
        BY <2>3, <4>1, <4>2
      <4> QED
        BY <4>1, <4>3
    <3> QED
      BY <3>1, <3>2, <3>3, <3>4
  <2>14. Finished'
    <3>1. streamFinish' => \E k \in DOMAIN shown' : shown'[k].what \in Ends
      <4>1. CASE streamFinish
        <5>1. PICK k \in DOMAIN shown : shown[k].what \in Ends
          BY <4>1 DEF IInv, Finished
        <5>2. k \in DOMAIN shown' /\ shown'[k] = shown[k]
          BY <2>3, <2>6, <2>7 DEF n
        <5> QED
          BY <5>1, <5>2
      <4>2. CASE ToSet(says) \cap Ends # {}
        <5>1. PICK m \in 1..Len(says) : says[m] \in Ends
          BY <2>3, <4>2
        <5>2. n + m \in 1..(n + Len(says)) /\ n + m > n /\ (n + m) - n = m
          BY <2>3, <2>6 DEF n
        <5>3. shown'[n + m] = [what |-> says[m], at |-> at]
          BY <2>7, <5>2
        <5> QED
          BY <2>7, <5>1, <5>2, <5>3
      <4> QED
        BY <2>9, <4>1, <4>2
    <3>2. \A k \in DOMAIN shown' : shown'[k].at # 0
      BY <1>1, <2>12
    <3> QED
      BY <1>2, <3>1, <3>2 DEF Finished
  <2>15. Answer'
    <3> DEFINE Texts(q) == {k \in DOMAIN q : q[k].what = "text"}
    <3>1. /\ ToSet(full_content) = {shown[k].at : k \in Texts(shown)}
          /\ \A k, l \in DOMAIN full_content : k < l => full_content[k] < full_content[l]
      BY DEF IInv, Answer
    <3>2. n \in Nat
      BY <2>6 DEF n
    <3>3. CASE "text" \in ToSet(says)
      <4>1. full_content' = Append(full_content, at)
        BY <2>8, <3>3
      <4>2. /\ DOMAIN full_content' = 1..(Len(full_content) + 1) /\ Len(full_content) \in Nat
            /\ DOMAIN full_content = 1..Len(full_content)
            /\ \A k \in 1..Len(full_content) : full_content'[k] = full_content[k]
            /\ full_content'[Len(full_content) + 1] = at
        BY <2>1, <2>6, <4>1
      <4>3. ToSet(full_content') = ToSet(full_content) \cup {at}
        BY <4>2 DEF ToSet
      <4>4. \A x \in ToSet(full_content) : x \in 1..taken
        BY <2>7, <2>10, <3>1
      <4>5. \A k, l \in DOMAIN full_content' : k < l => full_content'[k] < full_content'[l]
        <5> SUFFICES ASSUME NEW k \in DOMAIN full_content', NEW l \in DOMAIN full_content', k < l
                     PROVE  full_content'[k] < full_content'[l]
          OBVIOUS
        <5>1. k \in 1..Len(full_content)
          BY <4>2
        <5>2. CASE l \in 1..Len(full_content)
          BY <3>1, <4>2, <5>1, <5>2
        <5>3. CASE l = Len(full_content) + 1
          <6>1. full_content[k] \in 1..taken
            BY <4>2, <4>4, <5>1 DEF ToSet
          <6> QED
            BY <1>1, <2>1, <4>2, <5>1, <5>3, <6>1
        <5> QED
          BY <4>2, <5>2, <5>3
      <4>6. ToSet(full_content') = {shown'[k].at : k \in Texts(shown')}
        <5>1. PICK m \in 1..Len(says) : says[m] = "text"
          BY <2>3, <3>3
        <5>2. n + m \in 1..(n + Len(says)) /\ n + m > n /\ (n + m) - n = m
          BY <2>3, <3>2
        <5>3. n + m \in Texts(shown') /\ shown'[n + m].at = at
          BY <2>7, <5>1, <5>2
        <5>4. \A k \in Texts(shown) : k \in Texts(shown') /\ shown'[k].at = shown[k].at
          BY <2>3, <2>7, <3>2
        <5>5. \A k \in Texts(shown') : \/ shown'[k].at = at
                                       \/ k \in Texts(shown) /\ shown'[k].at = shown[k].at
          BY <2>7, <3>2
        <5> QED
          BY <3>1, <4>3, <5>3, <5>4, <5>5
      <4> QED
        BY <4>5, <4>6 DEF Answer
    <3>4. CASE "text" \notin ToSet(says)
      <4>1. full_content' = full_content
        BY <2>8, <3>4
      <4>2. \A k \in Texts(shown) : k \in Texts(shown') /\ shown'[k].at = shown[k].at
        BY <2>3, <2>7, <3>2
      <4>3. \A k \in Texts(shown') : k \in Texts(shown) /\ shown'[k].at = shown[k].at
        BY <2>3, <2>7, <3>2, <3>4
      <4> QED
        BY <3>1, <4>1, <4>2, <4>3 DEF Answer
    <3> QED
      BY <3>3, <3>4
  <2>16. Sources'
    BY <2>12 DEF Sources
  <2> QED
    BY <1>1, <2>11, <2>13, <2>14, <2>15, <2>16 DEF IInv
<1> QED
  BY <1>3, <1>4 DEF Process, Ends

-----------------------------------------------------------------------------
\* Nothing was sent and nothing was shown: the invariant holds.
LEMMA InitInvariant == Init => IInv
<1> SUFFICES ASSUME Init PROVE IInv
  OBVIOUS
<1>1. sent \in Sent /\ wire = FlattenSeq(sent) /\ wire \in Seq(Symbol) /\ Len(wire) \in Nat
  BY SentAssumption DEF Init
<1>2. TypeOK
  <2>1. <<>> \in Seq(Symbol) /\ <<>> \in Seq(Nat) /\ <<>> \in Seq(Chunk)
    OBVIOUS
  <2>2. got \in 0..Len(wire) /\ taken \in 0..got
    BY <1>1 DEF Init
  <2>3. family \in Family
    BY FamiliesAssumption DEF Init
  <2> QED
    BY <1>1, <2>1, <2>2, <2>3 DEF Init, TypeOK
<1>3. BufferIsTheRest
  BY <1>1 DEF Init, BufferIsTheRest
<1>4. ToSet(full_content) = {} /\ DOMAIN shown = {} /\ DOMAIN full_content = {}
  BY DEF Init, ToSet
<1> QED
  BY <1>2, <1>3, <1>4 DEF Init, IInv, Sources, Ordered, Finished, Answer

\* A piece that arrives is added where the buffer ends.
LEMMA ArriveStep ==
  ASSUME IInv, Arrive
  PROVE  IInv'
<1>1. /\ wire \in Seq(Symbol) /\ Len(wire) \in Nat /\ got \in 0..Len(wire) /\ taken \in 0..got
      /\ buffer = SubSeq(wire, taken + 1, got) /\ pc = "wait"
  BY WireType DEF IInv, TypeOK, BufferIsTheRest, Arrive
<1>2. PICK n \in (got + 1)..Len(wire) : buffer' = buffer \o SubSeq(wire, got + 1, n) /\ got' = n
  BY DEF Arrive
<1>3. SubSeq(wire, taken + 1, got) \o SubSeq(wire, got + 1, n) = SubSeq(wire, taken + 1, n)
  BY <1>1, <1>2, ConcatAdjacentSubSeq
<1>4. BufferIsTheRest' /\ buffer' \in Seq(Symbol)
  <2>1. buffer' = SubSeq(wire, taken + 1, n)
    BY <1>1, <1>2, <1>3
  <2>2. SubSeq(wire, taken + 1, n) \in Seq(Symbol)
    BY <1>1, <1>2
  <2> QED
    BY <1>2, <2>1, <2>2 DEF Arrive, BufferIsTheRest
<1>5. TypeOK'
  BY <1>1, <1>2, <1>4 DEF IInv, TypeOK, Arrive
<1>6. result = "none"
  BY <1>1 DEF IInv, Finished, TypeOK
<1> QED
  BY <1>4, <1>5, <1>1, <1>6 DEF IInv, Arrive, Sources, Ordered, Finished, Answer

\* The end that the provider adds itself is the last thing that is shown.
LEMMA CompleteStep ==
  ASSUME IInv, Complete
  PROVE  IInv'
<1>1. /\ shown \in Seq(Chunk) /\ Len(shown) \in Nat /\ DOMAIN shown = 1..Len(shown)
      /\ pc = "wait" /\ pc' = "done" /\ result' \in {"empty", "text"} /\ streamFinish \in BOOLEAN
      /\ UNCHANGED <<family, sent, wire, got, taken, buffer, full_content, streamFinish>>
      /\ taken \in Nat
  BY WireType DEF IInv, TypeOK, Complete, Return
<1>2. \A i \in DOMAIN shown : shown[i].at \in 1..taken
  BY <1>1 DEF IInv, Sources
<1>3. CASE streamFinish
  <2>1. shown' = shown
    BY <1>3 DEF Complete
  <2>2. TypeOK'
    BY <1>1, <2>1 DEF IInv, TypeOK
  <2>3. Finished'
    <3>1. \A i \in DOMAIN shown : shown[i].at # 0
      BY <1>1, <1>2
    <3> QED
      BY <1>1, <1>3, <2>1, <3>1 DEF IInv, Finished
  <2> QED
    BY <1>1, <1>2, <2>1, <2>2, <2>3 DEF IInv, BufferIsTheRest, Sources, Ordered, Answer
<1>4. CASE ~streamFinish
  <2> DEFINE z == [what |-> "end", at |-> 0]  n == Len(shown)
  <2>1. shown' = Append(shown, z)
    BY <1>4 DEF Complete
  <2>2. /\ shown' \in Seq(Chunk) /\ DOMAIN shown' = 1..(n + 1) /\ n \in Nat /\ Len(shown') = n + 1
        /\ \A k \in 1..n : shown'[k] = shown[k]
        /\ shown'[n + 1] = z
    <3>1. z \in Chunk
      BY DEF Chunk
    <3> QED
      BY <1>1, <2>1, <3>1
  <2>3. TypeOK'
    BY <1>1, <2>2 DEF IInv, TypeOK
  <2>4. Sources'
    <3> SUFFICES ASSUME NEW i \in 1..(n + 1)
                 PROVE  \/ /\ shown'[i].at \in 1..taken'
                           /\ shown'[i].what = "text" => wire'[shown'[i].at] \in {"text", "tail"}
                           /\ shown'[i].what = "blank" => wire'[shown'[i].at] = "blank"
                           /\ shown'[i].what \in Ends => wire'[shown'[i].at] \in Final
                        \/ shown'[i] = z /\ i = Len(shown') /\ pc' = "done"
      BY <2>2 DEF Sources
    <3>1. CASE i = n + 1
      BY <1>1, <2>2, <3>1
    <3>2. CASE i # n + 1
      <4>1. i \in 1..n /\ i \in DOMAIN shown
        BY <1>1, <2>2, <3>2
      <4>2. /\ shown[i].at \in 1..taken
            /\ shown[i].what = "text" => wire[shown[i].at] \in {"text", "tail"}
            /\ shown[i].what = "blank" => wire[shown[i].at] = "blank"
            /\ shown[i].what \in Ends => wire[shown[i].at] \in Final
        BY <1>1, <4>1 DEF IInv, Sources
      <4>3. shown'[i] = shown[i]
        BY <2>2, <4>1
      <4> HIDE DEF z
      <4> QED
        BY <1>1, <4>2, <4>3
    <3> QED
      BY <3>1, <3>2
  <2>5. Ordered'
    <3> SUFFICES ASSUME NEW i \in 1..(n + 1), NEW j \in 1..(n + 1), i < j, shown'[j].at # 0
                 PROVE  \/ shown'[i].at < shown'[j].at
                        \/ shown'[i].at = shown'[j].at /\ shown'[i].what = "text" /\ shown'[j].what = "end"
      BY <2>2 DEF Ordered
    <3>1. i \in 1..n /\ j \in 1..n
      BY <2>2
    <3>2. shown'[i] = shown[i] /\ shown'[j] = shown[j]
      BY <2>2, <3>1
    <3> QED
      BY <1>1, <3>1, <3>2 DEF IInv, Ordered
  <2>6. Finished'
    <3>1. n + 1 \in DOMAIN shown' /\ shown'[n + 1].what \in Ends
      BY <2>2 DEF Ends
    <3> QED
      BY <1>1, <1>4, <3>1 DEF Finished
  <2>7. Answer'
    <3>1. \A k \in DOMAIN shown' : shown'[k].what = "text" => k \in DOMAIN shown /\ shown'[k] = shown[k]
      BY <1>1, <2>2
    <3>2. \A k \in DOMAIN shown : k \in DOMAIN shown' /\ shown'[k] = shown[k]
      BY <1>1, <2>2
    <3>3. {shown'[i].at : i \in {k \in DOMAIN shown' : shown'[k].what = "text"}}
            = {shown[i].at : i \in {k \in DOMAIN shown : shown[k].what = "text"}}
      BY <3>1, <3>2
    <3> QED
      BY <1>1, <3>3 DEF IInv, Answer
  <2> QED
    BY <1>1, <2>3, <2>4, <2>5, <2>6, <2>7 DEF IInv, BufferIsTheRest
<1> QED
  BY <1>1, <1>3, <1>4

\* Every step keeps the invariant.
LEMMA NextInvariant == IInv /\ [Next]_vars => IInv'
<1> SUFFICES ASSUME IInv, [Next]_vars PROVE IInv'
  OBVIOUS
<1>1. ASSUME UNCHANGED <<family, sent, wire, got, taken, buffer, full_content, streamFinish, shown>>,
             pc \in {"send", "wait", "cut"},
             \/ pc' \in {"send", "wait", "cut"} /\ result' = result
             \/ pc' = "done" /\ result' \in {"empty", "exception"}
      PROVE  IInv'
  <2>1. TypeOK'
    BY <1>1 DEF IInv, TypeOK
  <2>2. Finished'
    BY <1>1 DEF IInv, Finished, TypeOK
  <2>3. Sources'
    BY <1>1 DEF IInv, Sources
  <2> QED
    BY <1>1, <2>1, <2>2, <2>3 DEF IInv, BufferIsTheRest, Ordered, Answer
<1>2. CASE Refused
  BY <1>1, <1>2 DEF Refused, Return
<1>3. CASE Accepted
  BY <1>1, <1>3 DEF Accepted
<1>4. CASE Arrive
  BY <1>4, ArriveStep
<1>5. CASE Cut
  <2>1. PICK c \in FirstCut(buffer) : Erase(c) /\ Process(SubSeq(buffer, 1, c[1] - 1))
    BY <1>5 DEF Cut
  <2> QED
    BY <1>5, <2>1, ProcessStep DEF Cut
<1>6. CASE CutThrows
  BY <1>1, <1>6 DEF CutThrows, Return
<1>7. CASE NothingToCut
  BY <1>1, <1>7 DEF NothingToCut
<1>8. CASE Broken
  BY <1>1, <1>8 DEF Broken, Return
<1>9. CASE Complete
  BY <1>9, CompleteStep
<1>10. CASE UNCHANGED vars
  BY <1>10 DEF vars, IInv, TypeOK, BufferIsTheRest, Sources, Ordered, Finished, Answer
<1> QED
  BY <1>2, <1>3, <1>4, <1>5, <1>6, <1>7, <1>8, <1>9, <1>10 DEF Next

\* IInv is an invariant of the three providers' streams, whatever is sent and
\* however the network cuts it.
THEOREM Invariance == Spec => []IInv
  BY InitInvariant, NextInvariant, PTL DEF Spec

\* Every variable keeps its type.
THEOREM TypeCorrect == Spec => []TypeOK
<1>1. IInv => TypeOK
  BY DEF IInv
<1> QED
  BY <1>1, Invariance, PTL

\* No byte of the response is lost, doubled or moved between two pieces.
THEOREM BufferCorrect == Spec => []BufferIsTheRest
<1>1. IInv => BufferIsTheRest
  BY DEF IInv
<1> QED
  BY <1>1, Invariance, PTL

\* The callback got texts of the wire, once and in their order, and the answer is
\* made of exactly these.
THEOREM AnswerCorrect == Spec => []AnswerIsWhatWasShown
<1>1. IInv => AnswerIsWhatWasShown
  <2> SUFFICES ASSUME IInv PROVE AnswerIsWhatWasShown
    OBVIOUS
  <2> DEFINE texts == {i \in DOMAIN shown : shown[i].what = "text"}
  <2>1. /\ wire \in Seq(Symbol) /\ Len(wire) \in Nat /\ taken \in 0..Len(wire)
        /\ DOMAIN wire = 1..Len(wire) /\ taken \in Nat
    BY WireType DEF IInv, TypeOK
  <2>2. \A i \in texts : shown[i].at \in 1..taken /\ wire[shown[i].at] \in {"text", "tail"}
    BY DEF IInv, Sources
  <2>3. \A i, j \in texts : i < j => shown[i].at < shown[j].at
    <3> TAKE i \in texts, j \in texts
    <3>1. shown[j].at # 0 /\ shown[j].what # "end"
      BY <2>1, <2>2
    <3> QED
      BY <3>1 DEF IInv, Ordered
  <2>4. \A p \in ToSet(full_content) : p \in DOMAIN wire /\ wire[p] \in {"text", "tail"}
    BY <2>1, <2>2 DEF IInv, Answer
  <2> QED
    BY <2>3, <2>4 DEF IInv, Answer, AnswerIsWhatWasShown
<1> QED
  BY <1>1, Invariance, PTL

\* A stream that brought an answer was ended, and nothing was said after its end,
\* if the server says nothing after it.
THEOREM EndCorrect == Spec => []AnswersEnd
<1>1. IInv => AnswersEnd
  <2> SUFFICES ASSUME IInv, result = "text",
                      \A i, j \in DOMAIN wire :
                          wire[i] \in Final /\ i < j => wire[j] \notin {"text", "tail", "blank"}
               PROVE  /\ Last(shown).what \in {"end", "apology"}
                      /\ \A i, j \in DOMAIN shown :
                            shown[i].what \in {"end", "apology"} /\ i < j => shown[j].what \notin {"text", "blank"}
    BY DEF AnswersEnd
  <2>1. /\ wire \in Seq(Symbol) /\ Len(wire) \in Nat /\ taken \in 0..Len(wire)
        /\ DOMAIN wire = 1..Len(wire) /\ taken \in Nat
        /\ shown \in Seq(Chunk) /\ Len(shown) \in Nat /\ DOMAIN shown = 1..Len(shown)
    BY WireType DEF IInv, TypeOK
  <2>2. ASSUME NEW i \in DOMAIN shown, NEW j \in DOMAIN shown, shown[i].what \in Ends, i < j,
               shown[j].what \in {"text", "blank"}
        PROVE  FALSE
    <3>1. /\ shown[j].at \in 1..taken /\ wire[shown[j].at] \in {"text", "tail", "blank"}
          /\ shown[j].at # 0
      BY <2>1, <2>2 DEF IInv, Sources
    <3>2. shown[i].at < shown[j].at
      BY <2>2, <3>1 DEF IInv, Ordered, Ends
    <3>3. shown[i].at \in 1..taken /\ wire[shown[i].at] \in Final
      BY <2>1, <2>2 DEF IInv, Sources, Ends
    <3> QED
      BY <2>1, <3>1, <3>2, <3>3
  <2>3. PICK i \in DOMAIN shown : shown[i].what \in Ends
    BY DEF IInv, Finished
  <2>4. Len(shown) \in DOMAIN shown /\ shown[Len(shown)] \in Chunk
    BY <2>1
  <2>5. shown[Len(shown)].what \in Ends
    <3>1. CASE i = Len(shown)
      BY <2>3, <3>1
    <3>2. CASE i < Len(shown)
      <4>1. shown[Len(shown)].what \notin {"text", "blank"}
        BY <2>2, <2>3, <2>4, <3>2
      <4> QED
        BY <2>4, <4>1 DEF Chunk, Ends
    <3> QED
      BY <2>1, <3>1, <3>2
  <2> QED
    BY <2>2, <2>5 DEF Ends, Last
<1> QED
  BY <1>1, Invariance, PTL

-----------------------------------------------------------------------------
(* Events, and the pieces they come in. *)

\* Separator s stands at place x of q.
StandsAt(s, q, x) == x + Len(s) - 1 <= Len(q) /\ \A k \in 1..Len(s) : q[x + k - 1] = s[k]

\* That is what the receiver looks for.
LEMMA FoundIsStanding ==
  ASSUME NEW q \in Seq(Symbol), NEW x \in 1..Len(q), NEW s \in Separators
  PROVE  IsPrefix(s, SubSeq(q, x, Len(q))) <=> StandsAt(s, q, x)
<1> DEFINE r == SubSeq(q, x, Len(q))
<1>1. s \in Seq(Symbol) /\ Len(s) \in Nat /\ SubSeq(s, 1, Len(s)) = s
  <2>1. s \in Seq(Symbol)
    <3>1. "lf" \in Symbol /\ "cr" \in Symbol
      BY DEF Symbol
    <3>2. <<"lf", "lf">> \in Seq(Symbol) /\ <<"cr", "lf", "cr", "lf">> \in Seq(Symbol)
      BY <3>1
    <3> QED
      BY <3>2 DEF Separators
  <2> QED
    BY <2>1, SubSeqFull
<1>2. r \in Seq(Symbol) /\ Len(r) = Len(q) - x + 1 /\ \A k \in 1..Len(r) : r[k] = q[x + k - 1]
  OBVIOUS
<1>3. Len(q) \in Nat /\ x \in Nat
  OBVIOUS
<1> HIDE DEF r
<1>4. Len(s) <= Len(r) <=> x + Len(s) - 1 <= Len(q)
  BY <1>1, <1>2, <1>3
<1>5. ASSUME Len(s) <= Len(r)
      PROVE  SubSeq(r, 1, Len(s)) = s <=> \A k \in 1..Len(s) : r[k] = s[k]
  <2>1. /\ SubSeq(r, 1, Len(s)) \in Seq(Symbol) /\ Len(SubSeq(r, 1, Len(s))) = Len(s)
        /\ \A k \in 1..Len(s) : SubSeq(r, 1, Len(s))[k] = r[k]
    BY <1>1, <1>2, <1>5
  <2> DEFINE b == SubSeq(r, 1, Len(s))
  <2> HIDE DEF b
  <2>2. (\A k \in 1..Len(s) : b[k] = s[k]) => b = s
    BY <1>1, <2>1, SeqEqual DEF b
  <2> QED
    BY <2>1, <2>2 DEF b
<1>6. ASSUME Len(s) <= Len(r) PROVE \A k \in 1..Len(s) : r[k] = q[x + k - 1]
  BY <1>1, <1>2, <1>6
<1>7. SubSeq(s, 1, Len(s)) = SubSeq(r, 1, Len(s)) <=> SubSeq(r, 1, Len(s)) = s
  BY <1>1
<1>8. IsPrefix(s, r) <=> Len(s) <= Len(r) /\ \A k \in 1..Len(s) : r[k] = s[k]
  BY <1>5, <1>7 DEF IsPrefix
<1>9. IsPrefix(s, r) <=> Len(s) <= Len(r) /\ \A k \in 1..Len(s) : q[x + k - 1] = s[k]
  BY <1>6, <1>8
<1> QED
  BY <1>4, <1>9 DEF StandsAt, r

\* The first separator, in those terms.
LEMMA FirstStanding ==
  ASSUME NEW q \in Seq(Symbol), NEW x, NEW s
  PROVE  <<x, s>> \in FirstCut(q) <=>
            /\ x \in 1..Len(q) /\ s \in Separators /\ StandsAt(s, q, x)
            /\ \A y \in 1..Len(q), t \in Separators : StandsAt(t, q, y) => x <= y
<1> DEFINE cuts == {c \in (1..Len(q)) \X Separators : IsPrefix(c[2], SubSeq(q, c[1], Len(q)))}
<1>1. FirstCut(q) = {c \in cuts : \A d \in cuts : c[1] <= d[1]}
  BY DEF FirstCut
<1>2. \A y, t : <<y, t>> \in cuts <=> y \in 1..Len(q) /\ t \in Separators /\ StandsAt(t, q, y)
  BY FoundIsStanding
<1>3. \A d \in cuts : d = <<d[1], d[2]>>
  OBVIOUS
<1> HIDE DEF cuts
<1>4. <<x, s>> \in FirstCut(q) <=> <<x, s>> \in cuts /\ \A d \in cuts : x <= d[1]
  BY <1>1
<1>5. (\A d \in cuts : x <= d[1]) <=> \A y, t : <<y, t>> \in cuts => x <= y
  BY <1>3
<1> QED
  BY <1>2, <1>4, <1>5

\* A cut is a place and a separator.
LEMMA CutIsPair ==
  ASSUME NEW q, NEW c \in FirstCut(q)
  PROVE  c = <<c[1], c[2]>>
BY DEF FirstCut

\* The separators, symbol by symbol.
LEMMA SeparatorSymbols ==
  ASSUME NEW s \in Separators
  PROVE  \/ s = <<"lf", "lf">> /\ Len(s) = 2 /\ s[1] = "lf" /\ s[2] = "lf"
         \/ /\ s = <<"cr", "lf", "cr", "lf">> /\ Len(s) = 4
            /\ s[1] = "cr" /\ s[2] = "lf" /\ s[3] = "cr" /\ s[4] = "lf"
BY DEF Separators

\* There is one first separator at most: they differ in their first symbol.
LEMMA OneFirstCut ==
  ASSUME NEW q \in Seq(Symbol), NEW c \in FirstCut(q)
  PROVE  FirstCut(q) = {c}
<1> SUFFICES ASSUME NEW d \in FirstCut(q) PROVE d = c
  OBVIOUS
<1>1. c = <<c[1], c[2]>> /\ d = <<d[1], d[2]>>
  BY CutIsPair
<1>2. /\ c[1] \in 1..Len(q) /\ c[2] \in Separators /\ StandsAt(c[2], q, c[1])
      /\ d[1] \in 1..Len(q) /\ d[2] \in Separators /\ StandsAt(d[2], q, d[1])
      /\ c[1] <= d[1] /\ d[1] <= c[1]
  BY <1>1, FirstStanding
<1>3. c[1] = d[1]
  BY <1>2
<1>4. c[2][1] = q[c[1]] /\ d[2][1] = q[d[1]]
  <2>1. \A s \in Separators : \A x \in Nat : StandsAt(s, q, x) => s[1] = q[x]
    <3> TAKE s \in Separators
    <3> TAKE x \in Nat
    <3>1. 1 \in 1..Len(s) /\ x + 1 - 1 = x
      BY SeparatorSymbols
    <3> QED
      BY <3>1 DEF StandsAt
  <2> QED
    BY <1>2, <2>1
<1>5. c[2] = d[2]
  BY <1>2, <1>3, <1>4, SeparatorSymbols
<1> QED
  BY <1>1, <1>3, <1>5

\* What comes later does not move the first separator: one that began earlier and was
\* not complete would be the long one, and hold no other.
LEMMA FirstCutStays ==
  ASSUME NEW q \in Seq(Symbol), NEW r \in Seq(Symbol), Len(q) <= Len(r),
         \A x \in 1..Len(q) : r[x] = q[x], NEW c \in FirstCut(q)
  PROVE  FirstCut(r) = {c}
<1>1. Len(q) \in Nat /\ Len(r) \in Nat
  OBVIOUS
<1>2. c = <<c[1], c[2]>>
  BY CutIsPair
<1>3. /\ c[1] \in 1..Len(q) /\ c[2] \in Separators /\ StandsAt(c[2], q, c[1])
      /\ \A y \in 1..Len(q), t \in Separators : StandsAt(t, q, y) => c[1] <= y
  BY <1>2, FirstStanding
<1>4. PICK x \in 1..Len(q), s \in Separators : x = c[1] /\ s = c[2]
  BY <1>3
<1>5. Len(s) \in {2, 4} /\ x + Len(s) - 1 <= Len(q) /\ x \in Nat
  BY <1>3, <1>4, SeparatorSymbols DEF StandsAt
<1>6. \A y \in Nat \ {0}, t \in Separators :
         y + Len(t) - 1 <= Len(q) => (StandsAt(t, r, y) <=> StandsAt(t, q, y))
  <2> TAKE y \in Nat \ {0}, t \in Separators
  <2> HAVE y + Len(t) - 1 <= Len(q)
  <2>1. Len(t) \in {2, 4}
    BY SeparatorSymbols
  <2>2. \A k \in 1..Len(t) : y + k - 1 \in 1..Len(q)
    BY <1>1, <2>1
  <2>3. y + Len(t) - 1 <= Len(r)
    BY <1>1, <2>1
  <2> QED
    BY <2>2, <2>3 DEF StandsAt
<1>7. StandsAt(s, r, x) /\ x \in 1..Len(r)
  BY <1>1, <1>3, <1>4, <1>5, <1>6
<1>8. ASSUME NEW y \in 1..Len(r), NEW t \in Separators, StandsAt(t, r, y), y < x PROVE FALSE
  <2>1. ~StandsAt(t, q, y) /\ y \in Nat \ {0} /\ Len(t) \in {2, 4}
    BY <1>1, <1>3, <1>4, <1>8, SeparatorSymbols
  <2>2. y + Len(t) - 1 > Len(q)
    BY <1>1, <1>6, <1>8, <2>1
  <2>3. x = y + 1 /\ Len(t) = 4 /\ Len(s) = 2
    <3>1. PICK l \in {2, 4}, m \in {2, 4} : l = Len(t) /\ m = Len(s)
      BY <1>5, <2>1
    <3>2. x + m - 1 < y + l - 1 /\ y < x /\ x \in Nat /\ y \in Nat
      <4>1. x + m - 1 <= Len(q) /\ y + l - 1 > Len(q)
        BY <1>5, <2>2, <3>1
      <4> QED
        BY <1>1, <1>5, <1>8, <2>1, <3>1, <4>1
    <3>3. l \in Int /\ m \in Int /\ (l = 2 \/ l = 4) /\ (m = 2 \/ m = 4)
      BY <3>1
    <3>4. x + m - 1 < y + l - 1 /\ y + 1 <= x
      BY <3>2
    <3>5. l = 4 /\ m = 2
      BY <3>2, <3>3, <3>4
    <3>6. x = y + 1
      BY <3>2, <3>4, <3>5
    <3> QED
      BY <3>1, <3>5, <3>6
  <2>4. r[y + 2] = "cr"
    <3>1. t[3] = "cr" /\ 3 \in 1..Len(t) /\ y + 3 - 1 = y + 2
      BY <2>3, SeparatorSymbols
    <3> QED
      BY <1>8, <3>1 DEF StandsAt
  <2>5. r[y + 2] = "lf"
    <3>1. s[2] = "lf" /\ 2 \in 1..Len(s) /\ x + 2 - 1 = y + 2
      BY <2>1, <2>3, SeparatorSymbols
    <3> QED
      BY <1>7, <3>1 DEF StandsAt
  <2> QED
    BY <2>4, <2>5
<1>9. \A y \in 1..Len(r), t \in Separators : StandsAt(t, r, y) => x <= y
  BY <1>5, <1>8
<1>10. <<x, s>> \in FirstCut(r)
  BY <1>7, <1>9, FirstStanding
<1> QED
  BY <1>2, <1>4, <1>10, OneFirstCut

\* The events of q from place p on, by those from later places.
Onward(f, q, p) ==
    UNION {{<<p, p + c[1] - 2>>} \cup f[p + c[1] + Len(c[2]) - 1] :
              c \in FirstCut(SubSeq(q, p, Len(q)))}

\* f[p] are the events of q from place p on.
ReadsAll(f, q) == f = [p \in 1..(Len(q) + 1) |-> Onward(f, q, p)]

\* The next event begins at a later place.
LEMMA NextPlace ==
  ASSUME NEW q \in Seq(Symbol), NEW p \in 1..(Len(q) + 1),
         NEW c \in FirstCut(SubSeq(q, p, Len(q)))
  PROVE  p + c[1] + Len(c[2]) - 1 \in (p + 1)..(Len(q) + 1)
<1> DEFINE r == SubSeq(q, p, Len(q))
<1>1. Len(q) \in Nat /\ p \in Nat
  OBVIOUS
<1>2. r \in Seq(Symbol) /\ Len(r) = Len(q) - p + 1
  <2>1. CASE p <= Len(q)
    BY <2>1
  <2>2. CASE p = Len(q) + 1
    BY <2>2
  <2> QED
    BY <1>1, <2>1, <2>2
<1> HIDE DEF r
<1>3. c[1] \in 1..Len(r) /\ Len(c[2]) \in {2, 4} /\ c[1] + Len(c[2]) - 1 <= Len(r)
  BY <1>2, CutIsInsideOf DEF r
<1>4. PICK l \in {2, 4}, x \in 1..Len(r) : l = Len(c[2]) /\ x = c[1]
  BY <1>3
<1>5. l \in Nat /\ l >= 2 /\ x \in Nat /\ x >= 1 /\ x + l - 1 <= Len(q) - p + 1
  <2>1. x + l - 1 <= Len(q) - p + 1
    BY <1>2, <1>3, <1>4
  <2>2. x \in Nat /\ x >= 1
    BY <1>1, <1>2
  <2> QED
    BY <2>1, <2>2
<1>6. p + x + l - 1 \in (p + 1)..(Len(q) + 1)
  BY <1>1, <1>5
<1> QED
  BY <1>4, <1>6

\* Only the later places count.
LEMMA OnwardLooksAhead ==
  ASSUME NEW q \in Seq(Symbol), NEW p \in 1..(Len(q) + 1), NEW f, NEW g,
         \A x \in (p + 1)..(Len(q) + 1) : f[x] = g[x]
  PROVE  Onward(f, q, p) = Onward(g, q, p)
<1>1. \A c \in FirstCut(SubSeq(q, p, Len(q))) :
        f[p + c[1] + Len(c[2]) - 1] = g[p + c[1] + Len(c[2]) - 1]
  BY NextPlace
<1> QED
  BY <1>1 DEF Onward

\* The function in Events exists: it is built from the last place to the first.
LEMMA EventsAreRead ==
  ASSUME NEW q \in Seq(Symbol)
  PROVE  \E f : ReadsAll(f, q) /\ Events(q) = f[1]
<1> DEFINE n == Len(q) + 1
           Ahead(f, k) == \A p \in (n - k)..n : p >= 1 => f[p] = Onward(f, q, p)
           X == {k \in Nat : \E f : DOMAIN f = 1..n /\ Ahead(f, k)}
<1>1. n \in Nat /\ n >= 1 /\ Len(q) + 1 = n
  OBVIOUS
<1> HIDE DEF n
<1>2. ASSUME NEW f, NEW k \in Nat, DOMAIN f = 1..n, \A p \in (n - k + 1)..n : p >= 1 => f[p] = Onward(f, q, p)
      PROVE  \E g : DOMAIN g = 1..n /\ Ahead(g, k)
  <2> DEFINE m == n - k
             g == [p \in 1..n |-> IF p = m THEN Onward(f, q, p) ELSE f[p]]
  <2>1. m \in Int
    BY <1>1
  <2>2. ASSUME NEW p \in m..n, p >= 1 PROVE g[p] = Onward(f, q, p)
    <3>1. p \in 1..n /\ (p # m => p \in (n - k + 1)..n)
      BY <1>1, <2>1, <2>2
    <3> QED
      BY <1>2, <2>2, <3>1
  <2>3. ASSUME NEW p \in m..n, p >= 1 PROVE Onward(f, q, p) = Onward(g, q, p)
    <3>1. p \in 1..(Len(q) + 1)
      BY <1>1, <2>1, <2>3
    <3>2. \A x \in (p + 1)..(Len(q) + 1) : f[x] = g[x]
      <4>1. \A x \in (p + 1)..n : x \in 1..n /\ x # m
        BY <1>1, <2>1, <2>3
      <4> QED
        BY <1>1, <4>1
    <3> HIDE DEF g
    <3> QED
      BY <3>1, <3>2, OnwardLooksAhead
  <2>4. DOMAIN g = 1..n
    OBVIOUS
  <2> HIDE DEF g
  <2>5. Ahead(g, k)
    BY <2>2, <2>3
  <2> QED
    BY <2>4, <2>5
<1>3. 0 \in X
  <2>1. \A p \in (n - 0 + 1)..n : FALSE
    BY <1>1
  <2>2. DOMAIN [p \in 1..n |-> {}] = 1..n
    OBVIOUS
  <2> QED
    BY <1>2, <2>1, <2>2
<1>4. ASSUME NEW k \in Nat, k \in X PROVE k + 1 \in X
  <2>1. PICK f : DOMAIN f = 1..n /\ Ahead(f, k)
    BY <1>4
  <2>2. n - (k + 1) + 1 = n - k
    BY <1>1
  <2>3. \A p \in (n - (k + 1) + 1)..n : p >= 1 => f[p] = Onward(f, q, p)
    BY <2>1, <2>2
  <2>4. \E g : DOMAIN g = 1..n /\ Ahead(g, k + 1)
    <3> HIDE DEF Ahead
    <3>1. k + 1 \in Nat
      OBVIOUS
    <3> QED
      BY <1>2, <2>1, <2>3, <3>1
  <2> HIDE DEF Ahead
  <2> QED
    BY <2>4
<1> HIDE DEF X
<1>5. n \in X
  BY <1>1, <1>3, <1>4, Induction
<1>6. PICK f : DOMAIN f = 1..n /\ Ahead(f, n)
  BY <1>5 DEF X
<1>7. \A p \in 1..n : f[p] = Onward(f, q, p)
  <2>1. \A p \in 1..n : p \in (n - n)..n /\ p >= 1
    BY <1>1
  <2> QED
    BY <1>6, <2>1
<1> DEFINE F == CHOOSE h : ReadsAll(h, q)
<1>8. ReadsAll(F, q)
  <2>1. ReadsAll([p \in 1..n |-> f[p]], q)
    <3> DEFINE e == [p \in 1..n |-> f[p]]
    <3>1. \A p \in 1..n : e[p] = f[p]
      OBVIOUS
    <3>2. \A p \in 1..n : Onward(e, q, p) = Onward(f, q, p)
      <4> TAKE p \in 1..n
      <4>1. \A x \in (p + 1)..n : x \in 1..n
        BY <1>1
      <4>2. \A x \in (p + 1)..(Len(q) + 1) : e[x] = f[x]
        BY <1>1, <3>1, <4>1
      <4>3. p \in 1..(Len(q) + 1)
        BY <1>1
      <4> HIDE DEF e
      <4> QED
        BY <4>2, <4>3, OnwardLooksAhead
    <3>3. e = [p \in 1..n |-> Onward(e, q, p)]
      BY <1>7, <3>1, <3>2
    <3> HIDE DEF e
    <3>4. ReadsAll(e, q)
      BY <1>1, <3>3 DEF ReadsAll
    <3> QED
      BY <3>4 DEF e
  <2> QED
    BY <2>1
<1>9. Events(q) = F[1]
  BY DEF Events, ReadsAll, Onward
<1> QED
  BY <1>8, <1>9

-----------------------------------------------------------------------------
\* What the events of S say.
Heard(S) == UNION {Told(e[1], e[2]) : e \in S}

\* Gemini's receiver has no turn skipped yet.
Listening == pc # "done" /\ (family = "gemini" => ~streamFinish)

\* However much still comes, what was shown and what the events behind the taken ones
\* will say is what all events say.
ToldSoFar ==
    Listening =>
        \A n \in got..Len(wire) : \A f : ReadsAll(f, SubSeq(wire, 1, n)) =>
            ToSet(shown) \cup Heard(f[taken + 1]) = Heard(f[1])

\* Between two pieces there is nothing to cut.
AllIsCut == pc \in {"send", "wait"} /\ Listening => FirstCut(buffer) = {}

\* Where the family stays, so does what its receiver finds and says.
LEMMA SameFirstCut ==
  ASSUME family' = family, NEW q
  PROVE  FirstCut(q)' = FirstCut(q)
<1>1. Separators' = Separators
  BY DEF Separators
<1> QED
  BY <1>1 DEF FirstCut

LEMMA SameEvents ==
  ASSUME family' = family, NEW f, NEW q
  PROVE  ReadsAll(f, q)' <=> ReadsAll(f, q)
<1>1. \A p : FirstCut(SubSeq(q, p, Len(q)))' = FirstCut(SubSeq(q, p, Len(q)))
  BY SameFirstCut
<1> QED
  BY <1>1 DEF ReadsAll, Onward

LEMMA SameSays ==
  ASSUME family' = family, NEW line, NEW event
  PROVE  Says(line, event)' = Says(line, event) /\ DataAt(event)' = DataAt(event)
BY DEF Says, SaysOpenAI, DataAt

LEMMA SameTold ==
  ASSUME family' = family, wire' = wire, NEW x, NEW y
  PROVE  Told(x, y)' = Told(x, y)
<1> DEFINE e == SubSeq(wire, x, y)
           Heard1(i, says) == {[what |-> w, at |-> x + i - 1] : w \in ToSet(says)}
<1>1. PICK v : v = e
  OBVIOUS
<1>2. Told(x, y) = UNION {Heard1(i, Says(v[i], v)) : i \in DataAt(v)}
  BY <1>1 DEF Told
<1>3. Told(x, y)' = UNION {Heard1(i, Says(v[i], v)') : i \in DataAt(v)'}
  <2>1. Told(x, y)' = UNION {Heard1(i, Says(e[i], e)) : i \in DataAt(e)}'
    BY DEF Told
  <2>2. e' = v
    BY <1>1
  <2> HIDE DEF Heard1
  <2> QED
    BY <2>1, <2>2
<1> HIDE DEF Heard1
<1> QED
  BY <1>2, <1>3, SameSays

LEMMA SameHeard ==
  ASSUME family' = family, wire' = wire, NEW S
  PROVE  Heard(S)' = Heard(S)
BY SameTold DEF Heard

\* The event that is cut out is the first one behind those that were taken, whatever
\* still comes.
LEMMA NextEvent ==
  ASSUME TypeOK, BufferIsTheRest, NEW c \in FirstCut(buffer),
         NEW n \in got..Len(wire), NEW f, ReadsAll(f, SubSeq(wire, 1, n))
  PROVE  f[taken + 1] = {<<taken + 1, taken + c[1] - 1>>} \cup f[taken + c[1] + Len(c[2])]
<1> DEFINE q == SubSeq(wire, 1, n)
           b == SubSeq(wire, taken + 1, n)
<1>1. /\ wire \in Seq(Symbol) /\ Len(wire) \in Nat /\ got \in taken..Len(wire) /\ taken \in Nat
      /\ n \in Nat /\ got <= n /\ n <= Len(wire) /\ taken <= n
  BY WireType DEF TypeOK
<1>2. Len(q) = n /\ SubSeq(q, taken + 1, n) = b
  <2>1. Len(q) = n
    BY <1>1
  <2>2. taken \in 0..(n - 0) /\ n \in 0..Len(wire) /\ 0 \in Nat
    BY <1>1
  <2>3. SubSeq(SubSeq(wire, 0 + 1, n), taken + 1, n - 0) = SubSeq(wire, 0 + taken + 1, n)
    BY <1>1, <2>2, RestOfRest
  <2> QED
    BY <1>1, <2>1, <2>3
<1>3. /\ b \in Seq(Symbol) /\ buffer \in Seq(Symbol) /\ Len(buffer) <= Len(b)
      /\ \A x \in 1..Len(buffer) : b[x] = buffer[x]
  <2>1. /\ buffer = SubSeq(wire, taken + 1, got) /\ buffer \in Seq(Symbol)
        /\ Len(buffer) = got - taken
        /\ \A x \in 1..(got - taken) : buffer[x] = wire[taken + x]
    BY <1>1 DEF BufferIsTheRest
  <2>2. /\ b \in Seq(Symbol) /\ Len(b) = n - taken
        /\ \A x \in 1..(n - taken) : b[x] = wire[taken + x]
    BY <1>1
  <2>3. got - taken <= n - taken /\ \A x \in 1..(got - taken) : x \in 1..(n - taken)
    BY <1>1
  <2> QED
    BY <2>1, <2>2, <2>3
<1>4. FirstCut(b) = {c}
  <2> HIDE DEF b
  <2> QED
    BY <1>3, FirstCutStays
<1>5. f[taken + 1] = Onward(f, q, taken + 1)
  <2>1. taken + 1 \in 1..(Len(q) + 1)
    BY <1>1, <1>2
  <2> HIDE DEF q
  <2> QED
    BY <2>1 DEF ReadsAll, q
<1>6. PICK x \in Nat, l \in Nat : x = c[1] /\ l = Len(c[2])
  <2>1. c[1] \in 1..Len(buffer) /\ Len(c[2]) \in {2, 4}
    BY CutIsInside
  <2>2. c[1] \in Nat /\ Len(c[2]) \in Nat
    BY <1>3, <2>1
  <2> QED
    BY <2>2
<1>7. Onward(f, q, taken + 1)
        = {<<taken + 1, taken + 1 + x - 2>>} \cup f[taken + 1 + x + l - 1]
  <2> HIDE DEF q, b
  <2>1. FirstCut(SubSeq(q, taken + 1, Len(q))) = {c}
    BY <1>2, <1>4
  <2> QED
    BY <1>6, <2>1 DEF Onward
<1>8. taken + 1 + x - 2 = taken + x - 1 /\ taken + 1 + x + l - 1 = taken + x + l
  BY <1>1
<1> QED
  BY <1>5, <1>6, <1>7, <1>8

\* What is shown of an event is what it says.
LEMMA EventIsTold ==
  ASSUME TypeOK, BufferIsTheRest, NEW c \in FirstCut(buffer),
         Process(SubSeq(buffer, 1, c[1] - 1))
  PROVE  ToSet(shown') = ToSet(shown) \cup Told(taken + 1, taken + c[1] - 1)
<1> DEFINE event == SubSeq(buffer, 1, c[1] - 1)
           said(i) == {[what |-> w, at |-> taken + 1 + i - 1] : w \in ToSet(Says(event[i], event))}
<1>1. /\ wire \in Seq(Symbol) /\ Len(wire) \in Nat /\ got \in taken..Len(wire) /\ taken \in Nat
      /\ shown \in Seq(Chunk) /\ family \in Family
  BY WireType DEF TypeOK
<1>2. PICK x \in Nat : x = c[1] /\ x \in 1..Len(buffer)
  <2>1. c[1] \in 1..Len(buffer) /\ Len(buffer) \in Nat
    BY CutIsInside DEF TypeOK
  <2> QED
    BY <2>1
<1>3. event = SubSeq(wire, taken + 1, taken + x - 1) /\ event \in Seq(Symbol)
  <2>1. /\ buffer = SubSeq(wire, taken + 1, got) /\ buffer \in Seq(Symbol)
        /\ Len(buffer) = got - taken
        /\ \A k \in 1..(got - taken) : buffer[k] = wire[taken + k]
    BY <1>1 DEF BufferIsTheRest
  <2>2. event \in Seq(Symbol) /\ Len(event) = x - 1 /\ \A k \in 1..(x - 1) : event[k] = buffer[k]
    <3>1. event = SubSeq(buffer, 1, x - 1) /\ x - 1 \in 0..Len(buffer)
      BY <1>1, <1>2, <2>1
    <3>2. /\ SubSeq(buffer, 1, x - 1) \in Seq(Symbol) /\ Len(SubSeq(buffer, 1, x - 1)) = x - 1
          /\ \A k \in 1..(x - 1) : SubSeq(buffer, 1, x - 1)[k] = buffer[k]
      <4>1. buffer \in Seq(Symbol) /\ Len(buffer) \in Nat /\ x \in Nat /\ x >= 1 /\ x <= Len(buffer)
        BY <1>1, <1>2, <2>1
      <4> QED
        BY <4>1
    <3> HIDE DEF event
    <3> QED
      BY <3>1, <3>2
  <2> DEFINE v == SubSeq(wire, taken + 1, taken + x - 1)
  <2>3. v \in Seq(Symbol) /\ Len(v) = x - 1 /\ \A k \in 1..(x - 1) : v[k] = wire[taken + k]
    BY <1>1, <1>2, <2>1
  <2>4. \A k \in 1..(x - 1) : k \in 1..(got - taken)
    BY <1>1, <1>2, <2>1
  <2>5. \A k \in 1..Len(event) : event[k] = v[k]
    BY <2>1, <2>2, <2>3, <2>4
  <2> HIDE DEF v, event
  <2>6. event = v
    BY <2>2, <2>3, <2>5, SeqEqual
  <2> QED
    BY <2>2, <2>6 DEF v
<1>4. Told(taken + 1, taken + c[1] - 1) = UNION {said(i) : i \in DataAt(event)}
  <2> HIDE DEF event
  <2> QED
    BY <1>2, <1>3 DEF Told
<1> HIDE DEF event
<1>5. CASE DataAt(event) = {} /\ shown' = shown
  BY <1>4, <1>5
<1>6. ASSUME NEW i \in DataAt(event),
             shown' = shown \o [k \in DOMAIN Says(event[i], event) |->
                                  [what |-> Says(event[i], event)[k], at |-> taken + i]]
      PROVE  ToSet(shown') = ToSet(shown) \cup UNION {said(j) : j \in DataAt(event)}
  <2>1. i \in DOMAIN event /\ event[i] \in Data /\ i \in Nat
    <3>1. DOMAIN event = 1..Len(event)
      BY <1>3
    <3> QED
      BY <3>1 DEF DataAt
  <2>2. DataAt(event) = {i}
    <3>1. ASSUME NEW j \in DataAt(event) PROVE j = i
      <4>1. j \in Nat /\ i <= j /\ j <= i
        <5>1. DOMAIN event = 1..Len(event) /\ Len(event) \in Nat
          BY <1>3
        <5> QED
          BY <5>1 DEF DataAt
      <4> QED
        BY <2>1, <4>1
    <3> QED
      BY <3>1
  <2> DEFINE says == Says(event[i], event)
             new == [k \in DOMAIN says |-> [what |-> says[k], at |-> taken + i]]
  <2>3. \/ says = <<>>
        \/ \E w \in Kinds : says = <<w>>
        \/ says = <<"text", "end">>
    BY <1>1, <2>1, SaysWhatItIs
  <2>4. new \in Seq(Chunk) /\ DOMAIN new = DOMAIN says
    <3> HIDE DEF says
    <3>1. taken + i \in Nat
      BY <1>1, <2>1
    <3>2. PICK m \in Nat : DOMAIN says = 1..m
      <4>1. CASE says = <<>>
        <5>1. DOMAIN says = 1..0 /\ 0 \in Nat
          BY <4>1
        <5> QED
          BY <5>1
      <4>2. CASE \E w \in Kinds : says = <<w>>
        <5>1. DOMAIN says = 1..1 /\ 1 \in Nat
          BY <4>2
        <5> QED
          BY <5>1
      <4>3. CASE says = <<"text", "end">>
        <5>1. DOMAIN says = 1..2 /\ 2 \in Nat
          BY <4>3
        <5> QED
          BY <5>1
      <4> QED
        BY <2>3, <4>1, <4>2, <4>3
    <3>3. \A k \in 1..m : says[k] \in Kinds
      <4>1. \A k \in DOMAIN says : says[k] \in Kinds
        <5>1. CASE says = <<>>
          BY <5>1
        <5>2. CASE \E w \in Kinds : says = <<w>>
          BY <5>2
        <5>3. CASE says = <<"text", "end">>
          BY <5>3 DEF Kinds
        <5> QED
          BY <2>3, <5>1, <5>2, <5>3
      <4> QED
        BY <3>2, <4>1
    <3>4. new \in [1..m -> Chunk]
      BY <3>1, <3>2, <3>3 DEF Chunk, Kinds
    <3> QED
      BY <3>2, <3>4
  <2>5. ToSet(shown \o new) = ToSet(shown) \cup ToSet(new)
    <3> HIDE DEF new
    <3>1. Range(shown \o new) = Range(shown) \cup Range(new)
      BY <1>1, <2>4, RangeConcatenation
    <3>2. \A t : Range(t) = ToSet(t)
      BY DEF Range, ToSet
    <3> QED
      BY <3>1, <3>2
  <2>6. ToSet(new) = said(i)
    <3>1. taken + 1 + i - 1 = taken + i
      BY <1>1, <2>1
    <3> HIDE DEF says
    <3>2. said(i) = {[what |-> w, at |-> taken + i] : w \in ToSet(says)}
      BY <3>1 DEF says
    <3> QED
      BY <3>2 DEF ToSet
  <2> HIDE DEF new, said
  <2> QED
    BY <1>6, <2>2, <2>5, <2>6 DEF new
<1>7. Process(event)
  BY DEF event
<1>8. \/ DataAt(event) = {} /\ shown' = shown
      \/ \E i \in DataAt(event) :
           shown' = shown \o [k \in DOMAIN Says(event[i], event) |->
                                [what |-> Says(event[i], event)[k], at |-> taken + i]]
  BY <1>7 DEF Process
<1> HIDE DEF said
<1> QED
  BY <1>4, <1>5, <1>6, <1>8

LEMMA SameReading ==
  ASSUME family' = family, wire' = wire, NEW f, NEW n
  PROVE  ReadsAll(f, SubSeq(wire, 1, n))' <=> ReadsAll(f, SubSeq(wire, 1, n))
<1>1. PICK v : v = SubSeq(wire, 1, n)
  OBVIOUS
<1>2. SubSeq(wire, 1, n)' = v
  BY <1>1
<1> QED
  BY <1>1, <1>2, SameEvents

-----------------------------------------------------------------------------
\* Nothing is told when nothing has come.
LEMMA ToldInit == Init => ToldSoFar /\ AllIsCut
<1> SUFFICES ASSUME Init PROVE ToldSoFar /\ AllIsCut
  OBVIOUS
<1>1. got = 0 /\ taken = 0 /\ buffer = <<>> /\ shown = <<>>
  BY DEF Init
<1>2. ToSet(shown) = {} /\ taken + 1 = 1
  BY <1>1 DEF ToSet
<1>3. FirstCut(buffer) = {}
  BY <1>1 DEF FirstCut
<1> QED
  BY <1>2, <1>3 DEF ToldSoFar, AllIsCut

\* What a cut tells is no longer to be told.
LEMMA ToldCut ==
  ASSUME IInv, ToldSoFar, Cut
  PROVE  ToldSoFar' /\ AllIsCut'
<1>1. /\ TypeOK /\ BufferIsTheRest /\ pc = "cut" /\ family' = family /\ wire' = wire /\ got' = got
      /\ pc' = IF LeavesLoop THEN "wait" ELSE "cut"
  BY DEF Cut, IInv
<1>2. PICK c \in FirstCut(buffer) : Erase(c) /\ Process(SubSeq(buffer, 1, c[1] - 1))
  BY DEF Cut
<1>3. streamFinish => streamFinish'
  <2> DEFINE event == SubSeq(buffer, 1, c[1] - 1)
  <2>1. Process(event)
    BY <1>2
  <2> HIDE DEF event
  <2>2. CASE DataAt(event) = {} /\ UNCHANGED streamFinish
    BY <2>2
  <2>3. CASE \E i \in DataAt(event) :
               streamFinish' = (streamFinish \/ ToSet(Says(event[i], event)) \cap {"end", "apology"} # {})
    BY <2>3
  <2> QED
    BY <2>1, <2>2, <2>3 DEF Process
<1>4. Listening' => Listening
  BY <1>1, <1>3 DEF Listening
<1>5. AllIsCut'
  BY <1>1 DEF AllIsCut, Listening, LeavesLoop
<1>6. ASSUME Listening', NEW n \in got..Len(wire), NEW f, ReadsAll(f, SubSeq(wire, 1, n))
      PROVE  ToSet(shown') \cup Heard(f[taken' + 1]) = Heard(f[1])
  <2> DEFINE e == <<taken + 1, taken + c[1] - 1>>
             later == f[taken + c[1] + Len(c[2])]
  <2>1. ToSet(shown) \cup Heard(f[taken + 1]) = Heard(f[1])
    BY <1>4, <1>6 DEF ToldSoFar
  <2>2. f[taken + 1] = {e} \cup later
    BY <1>1, <1>2, <1>6, NextEvent
  <2>3. taken' + 1 = taken + c[1] + Len(c[2])
    <3>1. PICK x \in Nat, l \in Nat : x = c[1] /\ l = Len(c[2])
      <4>1. c[1] \in 1..Len(buffer) /\ Len(c[2]) \in {2, 4} /\ Len(buffer) \in Nat
        BY <1>1, <1>2, CutIsInside DEF TypeOK
      <4>2. c[1] \in Nat /\ Len(c[2]) \in Nat
        BY <4>1
      <4> QED
        BY <4>2
    <3>2. taken \in Nat /\ taken' = taken + x + l - 1
      BY <1>1, <1>2, <3>1, WireType DEF Erase
    <3>3. taken' + 1 = taken + x + l
      BY <3>2
    <3> QED
      BY <3>1, <3>3
  <2>4. ToSet(shown') = ToSet(shown) \cup Told(taken + 1, taken + c[1] - 1)
    BY <1>1, <1>2, EventIsTold
  <2> HIDE DEF later
  <2>5. Heard({e} \cup later) = Told(taken + 1, taken + c[1] - 1) \cup Heard(later)
    <3>1. e[1] = taken + 1 /\ e[2] = taken + c[1] - 1
      OBVIOUS
    <3> HIDE DEF e
    <3>2. Heard({e} \cup later) = Told(e[1], e[2]) \cup Heard(later)
      BY DEF Heard
    <3> QED
      BY <3>1, <3>2
  <2>6. f[taken' + 1] = later
    BY <2>3 DEF later
  <2> QED
    BY <2>1, <2>2, <2>4, <2>5, <2>6
<1>7. ASSUME NEW n, NEW f
      PROVE  /\ ReadsAll(f, SubSeq(wire, 1, n))' <=> ReadsAll(f, SubSeq(wire, 1, n))
             /\ Heard(f[1])' = Heard(f[1])
  BY <1>1, SameReading, SameHeard
<1>8. ASSUME NEW f PROVE Heard(f[taken + 1])' = Heard(f[taken' + 1])
  <2>1. PICK v : v = f[taken' + 1]
    OBVIOUS
  <2>2. f[taken + 1]' = v
    BY <2>1
  <2> QED
    BY <1>1, <2>1, <2>2, SameHeard
<1>9. ToldSoFar'
  BY <1>1, <1>6, <1>7, <1>8 DEF ToldSoFar
<1> QED
  BY <1>5, <1>9

\* What comes, and what changes nothing, leaves what was told.
LEMMA ToldStays ==
  ASSUME IInv, ToldSoFar, UNCHANGED <<family, wire, taken, shown>>, got' \in got..Len(wire),
         Listening' => Listening
  PROVE  ToldSoFar'
<1>1. \A n \in got'..Len(wire) : n \in got..Len(wire)
  BY WireType DEF IInv
<1>2. ASSUME NEW n, NEW f
      PROVE  /\ ReadsAll(f, SubSeq(wire, 1, n))' <=> ReadsAll(f, SubSeq(wire, 1, n))
             /\ Heard(f[1])' = Heard(f[1])
  BY SameReading, SameHeard
<1>3. ASSUME NEW f PROVE Heard(f[taken + 1])' = Heard(f[taken + 1])
  <2>1. PICK v : v = f[taken + 1]
    OBVIOUS
  <2>2. f[taken + 1]' = v
    BY <2>1
  <2> QED
    BY <2>1, <2>2, SameHeard
<1> QED
  BY <1>1, <1>2, <1>3 DEF ToldSoFar

LEMMA ToldNext == IInv /\ ToldSoFar /\ AllIsCut /\ [Next]_vars => ToldSoFar' /\ AllIsCut'
<1> SUFFICES ASSUME IInv, ToldSoFar, AllIsCut, [Next]_vars PROVE ToldSoFar' /\ AllIsCut'
  OBVIOUS
<1>1. TypeOK /\ wire \in Seq(Symbol) /\ Len(wire) \in Nat /\ got \in Nat /\ got \in 0..Len(wire)
  BY WireType DEF IInv, TypeOK
<1>2. got \in got..Len(wire)
  BY <1>1
<1>3. ASSUME UNCHANGED <<family, wire, taken, shown>>, got' = got, pc' = "done"
      PROVE  ToldSoFar' /\ AllIsCut'
  BY <1>3 DEF ToldSoFar, AllIsCut, Listening
<1>4. ASSUME UNCHANGED <<family, wire, got, taken, shown, streamFinish>>, pc # "done"
      PROVE  ToldSoFar'
  BY <1>2, <1>4, ToldStays DEF Listening
<1>5. ASSUME UNCHANGED <<family, buffer, streamFinish>>, FirstCut(buffer) = {}
      PROVE  AllIsCut'
  <2>1. PICK v : v = buffer
    OBVIOUS
  <2>2. buffer' = v
    BY <1>5, <2>1
  <2>3. FirstCut(buffer)' = {}
    BY <1>5, <2>1, <2>2, SameFirstCut
  <2> QED
    BY <2>3 DEF AllIsCut
<1>6. CASE Refused
  BY <1>3, <1>6 DEF Refused, Return
<1>7. CASE Accepted
  <2>1. ToldSoFar'
    BY <1>4, <1>7 DEF Accepted
  <2>2. Listening' <=> Listening
    BY <1>7 DEF Accepted, Listening
  <2>3. FirstCut(buffer) = {} \/ ~Listening
    BY <1>7 DEF Accepted, AllIsCut
  <2>4. CASE ~Listening
    BY <2>1, <2>2, <2>4 DEF AllIsCut
  <2>5. CASE FirstCut(buffer) = {}
    BY <1>5, <1>7, <2>1, <2>5 DEF Accepted
  <2> QED
    BY <2>1, <2>3, <2>4, <2>5
<1>8. CASE Arrive
  <2>1. PICK n \in (got + 1)..Len(wire) : got' = n
    BY <1>8 DEF Arrive
  <2>2. got' \in got..Len(wire)
    BY <1>1, <2>1
  <2>3. ToldSoFar'
    BY <1>8, <2>2, ToldStays DEF Arrive, Listening
  <2> QED
    BY <1>8, <2>3 DEF Arrive, AllIsCut
<1>9. CASE Cut
  BY <1>9, ToldCut
<1>10. CASE CutThrows
  BY <1>3, <1>10 DEF CutThrows, Return
<1>11. CASE NothingToCut
  BY <1>4, <1>5, <1>11 DEF NothingToCut
<1>12. CASE Broken
  BY <1>3, <1>12 DEF Broken, Return
<1>13. CASE Complete
  BY <1>13 DEF Complete, Return, ToldSoFar, AllIsCut, Listening
<1>14. CASE UNCHANGED vars
  <2>1. CASE pc = "done"
    BY <1>14, <2>1 DEF vars, ToldSoFar, AllIsCut, Listening
  <2>2. CASE pc # "done"
    <3>1. ToldSoFar'
      BY <1>4, <1>14, <2>2 DEF vars
    <3>2. CASE FirstCut(buffer) = {}
      BY <1>5, <1>14, <3>1, <3>2 DEF vars
    <3>3. CASE FirstCut(buffer) # {}
      BY <1>14, <3>1, <3>3 DEF vars, AllIsCut, Listening
    <3> QED
      BY <3>2, <3>3
  <2> QED
    BY <2>1, <2>2
<1> QED
  BY <1>6, <1>7, <1>8, <1>9, <1>10, <1>11, <1>12, <1>13, <1>14 DEF Next

\* Between two pieces nothing behind the taken events can be told yet.
LEMMA ToldIsAll == IInv /\ ToldSoFar /\ AllIsCut => PiecesDoNotMatter
<1> SUFFICES ASSUME IInv, ToldSoFar, AllIsCut, pc = "wait", family = "gemini" => ~streamFinish
             PROVE  ToSet(shown) = UNION {Told(e[1], e[2]) : e \in Events(SubSeq(wire, 1, got))}
  BY DEF PiecesDoNotMatter
<1> DEFINE q == SubSeq(wire, 1, got)
<1>1. /\ wire \in Seq(Symbol) /\ Len(wire) \in Nat /\ got \in taken..Len(wire) /\ taken \in Nat
      /\ got \in Nat
  BY WireType DEF IInv, TypeOK
<1>2. q \in Seq(Symbol) /\ Len(q) = got
  BY <1>1
<1>3. Listening /\ FirstCut(buffer) = {}
  BY DEF Listening, AllIsCut
<1>4. PICK f : ReadsAll(f, q) /\ Events(q) = f[1]
  <2> HIDE DEF q
  <2> QED
    BY <1>2, EventsAreRead
<1>5. SubSeq(q, taken + 1, Len(q)) = buffer
  <2>1. taken \in 0..(got - 0) /\ got \in 0..Len(wire) /\ 0 \in Nat
    BY <1>1
  <2>2. SubSeq(SubSeq(wire, 0 + 1, got), taken + 1, got - 0) = SubSeq(wire, 0 + taken + 1, got)
    BY <1>1, <2>1, RestOfRest
  <2>3. buffer = SubSeq(wire, taken + 1, got)
    BY DEF IInv, BufferIsTheRest
  <2>4. 0 + taken + 1 = taken + 1 /\ 0 + 1 = 1 /\ got - 0 = got
    BY <1>1
  <2> QED
    BY <1>2, <2>2, <2>3, <2>4
<1>6. f[taken + 1] = {}
  <2>1. taken + 1 \in 1..(Len(q) + 1)
    BY <1>1, <1>2
  <2> HIDE DEF q
  <2>2. f[taken + 1] = Onward(f, q, taken + 1)
    BY <1>4, <2>1 DEF ReadsAll
  <2> QED
    BY <1>3, <1>5, <2>2 DEF Onward
<1>7. ToSet(shown) \cup Heard(f[taken + 1]) = Heard(f[1])
  <2>1. got \in got..Len(wire)
    BY <1>1
  <2> QED
    BY <1>3, <1>4, <2>1 DEF ToldSoFar
<1>8. Heard({}) = {}
  BY DEF Heard
<1> QED
  BY <1>4, <1>6, <1>7, <1>8 DEF Heard

\* What a stream says does not depend on how the network cut it, for every stream, well
\* framed or not: between two pieces the callback got what the events of all that has
\* arrived say.  (OpenAICompatProvider.cc:199-210, GeminiProvider.cc:211-249)
THEOREM PiecesCorrect == Spec => []PiecesDoNotMatter
<1>1. Init => IInv /\ ToldSoFar /\ AllIsCut
  BY InitInvariant, ToldInit
<1>2. IInv /\ ToldSoFar /\ AllIsCut /\ [Next]_vars => (IInv /\ ToldSoFar /\ AllIsCut)'
  BY NextInvariant, ToldNext
<1> QED
  BY <1>1, <1>2, ToldIsAll, PTL DEF Spec

-----------------------------------------------------------------------------
TextLine == {"text", "tail"}

\* B are places between the frames of the wire, from its beginning to its end, and
\* what ends a stream is in the last frame.
Framing(B) ==
    /\ 0 \in B /\ B \subseteq 0..Len(wire)
    /\ \A b \in B : b # Len(wire) =>
         \E s \in Frames :
            /\ b + Len(s) \in B
            /\ \A k \in 1..Len(s) : wire[b + k] = s[k]
            /\ ToSet(s) \cap Final # {} => b + Len(s) = Len(wire)

\* What has left the buffer are whole frames, and their texts are in the answer.
TakenByFrames ==
    \A B : Framing(B) =>
        /\ taken \in B
        /\ streamFinish \/ result = "text" => taken = Len(wire)
        /\ \A p \in 1..taken : wire[p] \in TextLine => p \in ToSet(full_content)

\* A frame is a sequence of symbols.
LEMMA FrameSymbols ==
  ASSUME NEW s \in Frames
  PROVE  s \in Seq(Symbol) /\ Len(s) \in {3, 5}
<1> USE DEF Symbol, Data
<1>1. CASE \E d \in Data \cup {"note"} : s = <<d, "lf", "lf">>
  BY <1>1
<1>2. CASE \E d \in Data : s = <<"note", "lf", d, "lf", "lf">>
  BY <1>2
<1>3. CASE \E d \in Data : s = <<d, "cr", "lf", "cr", "lf">>
  BY <1>3
<1> QED
  BY <1>1, <1>2, <1>3 DEF Frames

\* What is found in a stream that begins with a frame: the end of this frame, and in
\* front of it the line.
FindsFrame(w, s) ==
    \E c \in FirstCut(w) :
        /\ c[1] \in Nat /\ Len(c[2]) \in Nat
        /\ c[1] + Len(c[2]) - 1 = Len(s)
        /\ DataAt(SubSeq(w, 1, c[1] - 1)) = {k \in 1..Len(s) : s[k] \in Data}

Begins(w, s) == w \in Seq(Symbol) /\ Len(s) <= Len(w) /\ \A k \in 1..Len(s) : w[k] = s[k]

\* The beginning of a sequence is known by its symbols.
LEMMA BeginningIs ==
  ASSUME NEW w \in Seq(Symbol), NEW v \in Seq(Symbol), Len(v) <= Len(w),
         \A k \in 1..Len(v) : w[k] = v[k]
  PROVE  SubSeq(w, 1, Len(v)) = v
<1> DEFINE a == SubSeq(w, 1, Len(v))
<1>1. Len(v) \in Nat /\ Len(w) \in Nat
  OBVIOUS
<1>2. a \in Seq(Symbol) /\ Len(a) = Len(v) /\ \A k \in 1..Len(v) : a[k] = w[k]
  BY <1>1
<1> HIDE DEF a
<1>3. \A k \in 1..Len(a) : a[k] = v[k]
  BY <1>2
<1>4. a = v
  BY <1>2, <1>3, SeqEqual
<1> QED
  BY <1>4 DEF a

LEMMA FindsShortFrame ==
  ASSUME NEW w, NEW d \in Data \cup {"note"}, Begins(w, <<d, "lf", "lf">>)
  PROVE  FindsFrame(w, <<d, "lf", "lf">>)
<1> DEFINE s == <<d, "lf", "lf">>
           t == <<"lf", "lf">>
<1>1. w \in Seq(Symbol) /\ Len(w) \in Nat /\ 3 <= Len(w) /\ w[1] = d /\ w[2] = "lf" /\ w[3] = "lf"
  BY DEF Begins
<1>2. 2 \in 1..Len(w) /\ t \in Separators /\ StandsAt(t, w, 2)
  BY <1>1 DEF Separators, StandsAt
<1>3. ASSUME NEW y \in 1..Len(w), NEW u \in Separators, StandsAt(u, w, y) PROVE 2 <= y
  <2>1. u[1] \in {"lf", "cr"} /\ 1 \in 1..Len(u)
    BY SeparatorSymbols
  <2>2. w[y + 1 - 1] = u[1] /\ y \in Nat /\ y >= 1
    BY <1>1, <1>3, <2>1 DEF StandsAt
  <2>3. d \notin {"lf", "cr"}
    BY DEF Data
  <2>4. y + 1 - 1 = y
    BY <2>2
  <2>5. y # 1
    BY <1>1, <2>1, <2>2, <2>3, <2>4
  <2> QED
    BY <2>2, <2>5
<1>4. <<2, t>> \in FirstCut(w)
  BY <1>1, <1>2, <1>3, FirstStanding
<1>5. DataAt(SubSeq(w, 1, 2 - 1)) = {k \in 1..Len(s) : s[k] \in Data}
  <2>1. SubSeq(w, 1, 2 - 1) = <<d>>
    <3> DEFINE v == <<d>>
    <3>1. v \in Seq(Symbol) /\ Len(v) = 1 /\ \A k \in 1..1 : w[k] = v[k]
      <4>1. d \in Symbol
        BY DEF Symbol
      <4> QED
        BY <1>1, <4>1
    <3> HIDE DEF v
    <3>2. SubSeq(w, 1, 1) = v
      BY <1>1, <3>1, BeginningIs
    <3> QED
      BY <3>2 DEF v
  <2>2. DataAt(<<d>>) = IF d \in Data THEN {1} ELSE {}
    BY DEF DataAt
  <2>3. "lf" \notin Data
    BY DEF Data
  <2>4. {k \in 1..Len(s) : s[k] \in Data} = IF d \in Data THEN {1} ELSE {}
    BY <2>3
  <2> QED
    BY <2>1, <2>2, <2>4
<1> DEFINE c == <<2, t>>
<1>6. c[1] = 2 /\ Len(c[2]) = 2 /\ Len(s) = 3
  OBVIOUS
<1> HIDE DEF c, s
<1>7. /\ c[1] \in Nat /\ Len(c[2]) \in Nat /\ c[1] + Len(c[2]) - 1 = Len(s)
      /\ DataAt(SubSeq(w, 1, c[1] - 1)) = {k \in 1..Len(s) : s[k] \in Data}
  BY <1>5, <1>6
<1>8. FindsFrame(w, s)
  BY <1>4, <1>7 DEF FindsFrame, c
<1> QED
  BY <1>8 DEF s

LEMMA FindsNamedFrame ==
  ASSUME family = "claude", NEW w, NEW d \in Data, Begins(w, <<"note", "lf", d, "lf", "lf">>)
  PROVE  FindsFrame(w, <<"note", "lf", d, "lf", "lf">>)
<1> DEFINE s == <<"note", "lf", d, "lf", "lf">>
           t == <<"lf", "lf">>
<1>1. /\ w \in Seq(Symbol) /\ Len(w) \in Nat /\ 5 <= Len(w)
      /\ w[1] = "note" /\ w[2] = "lf" /\ w[3] = d /\ w[4] = "lf" /\ w[5] = "lf"
  BY DEF Begins
<1>2. 4 \in 1..Len(w) /\ t \in Separators /\ StandsAt(t, w, 4)
  BY <1>1 DEF Separators, StandsAt
<1>3. ASSUME NEW y \in 1..Len(w), NEW u \in Separators, StandsAt(u, w, y) PROVE 4 <= y
  <2>1. u = <<"lf", "lf">>
    BY DEF Separators
  <2>2. w[y] = "lf" /\ w[y + 1] = "lf" /\ y \in Nat /\ y >= 1
    <3>1. 1 \in 1..Len(u) /\ 2 \in 1..Len(u) /\ u[1] = "lf" /\ u[2] = "lf"
      BY <2>1
    <3>2. w[y + 1 - 1] = "lf" /\ w[y + 2 - 1] = "lf"
      BY <1>3, <3>1 DEF StandsAt
    <3>3. y + 1 - 1 = y /\ y + 2 - 1 = y + 1 /\ y \in Nat /\ y >= 1
      BY <1>1
    <3> QED
      BY <3>2, <3>3
  <2>3. d # "lf"
    BY DEF Data
  <2>4. y # 1 /\ y # 2 /\ y # 3
    BY <1>1, <2>2, <2>3
  <2> QED
    BY <2>2, <2>4
<1>4. <<4, t>> \in FirstCut(w)
  BY <1>1, <1>2, <1>3, FirstStanding
<1>5. DataAt(SubSeq(w, 1, 4 - 1)) = {k \in 1..Len(s) : s[k] \in Data}
  <2>1. SubSeq(w, 1, 4 - 1) = <<"note", "lf", d>>
    <3> DEFINE v == <<"note", "lf", d>>
    <3>1. v \in Seq(Symbol) /\ Len(v) = 3 /\ \A k \in 1..3 : w[k] = v[k]
      <4>1. d \in Symbol /\ "note" \in Symbol /\ "lf" \in Symbol
        BY DEF Symbol
      <4>2. \A k \in 1..3 : k = 1 \/ k = 2 \/ k = 3
        OBVIOUS
      <4> QED
        BY <1>1, <4>1, <4>2
    <3> HIDE DEF v
    <3>2. SubSeq(w, 1, 3) = v
      BY <1>1, <3>1, BeginningIs
    <3> QED
      BY <3>2 DEF v
  <2>2. "lf" \notin Data /\ "note" \notin Data
    BY DEF Data
  <2>3. DataAt(<<"note", "lf", d>>) = {3}
    BY <2>2 DEF DataAt
  <2>4. {k \in 1..Len(s) : s[k] \in Data} = {3}
    BY <2>2
  <2> QED
    BY <2>1, <2>3, <2>4
<1> DEFINE c == <<4, t>>
<1>6. c[1] = 4 /\ Len(c[2]) = 2 /\ Len(s) = 5
  OBVIOUS
<1> HIDE DEF c, s
<1>7. /\ c[1] \in Nat /\ Len(c[2]) \in Nat /\ c[1] + Len(c[2]) - 1 = Len(s)
      /\ DataAt(SubSeq(w, 1, c[1] - 1)) = {k \in 1..Len(s) : s[k] \in Data}
  BY <1>5, <1>6
<1>8. FindsFrame(w, s)
  BY <1>4, <1>7 DEF FindsFrame, c
<1> QED
  BY <1>8 DEF s

LEMMA FindsLongFrame ==
  ASSUME family = "gemini", NEW w, NEW d \in Data, Begins(w, <<d, "cr", "lf", "cr", "lf">>)
  PROVE  FindsFrame(w, <<d, "cr", "lf", "cr", "lf">>)
<1> DEFINE s == <<d, "cr", "lf", "cr", "lf">>
           t == <<"cr", "lf", "cr", "lf">>
<1>1. /\ w \in Seq(Symbol) /\ Len(w) \in Nat /\ 5 <= Len(w)
      /\ w[1] = d /\ w[2] = "cr" /\ w[3] = "lf" /\ w[4] = "cr" /\ w[5] = "lf"
  BY DEF Begins
<1>2. 2 \in 1..Len(w) /\ t \in Separators /\ StandsAt(t, w, 2)
  BY <1>1 DEF Separators, StandsAt
<1>3. ASSUME NEW y \in 1..Len(w), NEW u \in Separators, StandsAt(u, w, y) PROVE 2 <= y
  <2>1. u[1] \in {"lf", "cr"} /\ 1 \in 1..Len(u)
    BY SeparatorSymbols
  <2>2. w[y + 1 - 1] = u[1] /\ y \in Nat /\ y >= 1
    BY <1>1, <1>3, <2>1 DEF StandsAt
  <2>3. d \notin {"lf", "cr"}
    BY DEF Data
  <2>4. y + 1 - 1 = y
    BY <2>2
  <2>5. y # 1
    BY <1>1, <2>1, <2>2, <2>3, <2>4
  <2> QED
    BY <2>2, <2>5
<1>4. <<2, t>> \in FirstCut(w)
  BY <1>1, <1>2, <1>3, FirstStanding
<1>5. DataAt(SubSeq(w, 1, 2 - 1)) = {k \in 1..Len(s) : s[k] \in Data}
  <2>1. SubSeq(w, 1, 2 - 1) = <<d>>
    <3> DEFINE v == <<d>>
    <3>1. v \in Seq(Symbol) /\ Len(v) = 1 /\ \A k \in 1..1 : w[k] = v[k]
      <4>1. d \in Symbol
        BY DEF Symbol
      <4> QED
        BY <1>1, <4>1
    <3> HIDE DEF v
    <3>2. SubSeq(w, 1, 1) = v
      BY <1>1, <3>1, BeginningIs
    <3> QED
      BY <3>2 DEF v
  <2>2. DataAt(<<d>>) = {1}
    BY DEF DataAt
  <2>3. "lf" \notin Data /\ "cr" \notin Data
    BY DEF Data
  <2>4. {k \in 1..Len(s) : s[k] \in Data} = {1}
    BY <2>3
  <2> QED
    BY <2>1, <2>2, <2>4
<1> DEFINE c == <<2, t>>
<1>6. c[1] = 2 /\ Len(c[2]) = 4 /\ Len(s) = 5
  OBVIOUS
<1> HIDE DEF c, s
<1>7. /\ c[1] \in Nat /\ Len(c[2]) \in Nat /\ c[1] + Len(c[2]) - 1 = Len(s)
      /\ DataAt(SubSeq(w, 1, c[1] - 1)) = {k \in 1..Len(s) : s[k] \in Data}
  BY <1>5, <1>6
<1>8. FindsFrame(w, s)
  BY <1>4, <1>7 DEF FindsFrame, c
<1> QED
  BY <1>8 DEF s

LEMMA FrameIsFound ==
  ASSUME NEW s \in Frames, NEW w, Begins(w, s)
  PROVE  FindsFrame(w, s)
<1>1. CASE \E d \in Data \cup {"note"} : s = <<d, "lf", "lf">>
  BY <1>1, FindsShortFrame
<1>2. CASE family = "claude" /\ \E d \in Data : s = <<"note", "lf", d, "lf", "lf">>
  BY <1>2, FindsNamedFrame
<1>3. CASE family = "gemini" /\ \E d \in Data : s = <<d, "cr", "lf", "cr", "lf">>
  BY <1>3, FindsLongFrame
<1> QED
  BY <1>1, <1>2, <1>3 DEF Frames

\* A stream that is sent frame by frame has such places.
LEMMA FramesAreFraming ==
  ASSUME TypeOK, \A i \in DOMAIN sent : sent[i] \in Frames,
         \A i, j \in DOMAIN sent : ToSet(sent[i]) \cap Final # {} => j <= i
  PROVE  \E B : Framing(B)
<1>1. sent \in Seq(Seq(Symbol)) /\ wire = FlattenSeq(sent) /\ wire \in Seq(Symbol)
  BY SentAssumption DEF TypeOK
<1>2. Len(sent) \in Nat /\ DOMAIN sent = 1..Len(sent)
  BY <1>1
<1>3. CASE Len(sent) = 0
  <2>1. wire = <<>>
    BY <1>1, <1>3 DEF FlattenSeq
  <2>2. Framing({0})
    BY <2>1 DEF Framing
  <2> QED
    BY <2>2
<1>4. CASE Len(sent) # 0
  <2> DEFINE n == Len(sent)
             f == CHOOSE g : Flattens(g, sent)
             off(j) == IF j = 0 THEN 0 ELSE Len(f[j])
             B == {off(j) : j \in 0..n}
  <2>1. Flattens(f, sent)
    BY <1>2, FlattensExists
  <2>2. wire = f[n]
    BY <1>1, <1>4 DEF FlattenSeq, Flattens
  <2> HIDE DEF f
  <2>3. \A m \in 1..n : /\ f[m] \in Seq(Symbol)
                        /\ \A i \in 1..m : /\ Len(f[i]) <= Len(f[m])
                                           /\ \A k \in 1..Len(f[i]) : f[m][k] = f[i][k]
    BY <1>1, <2>1, FlattenGrows
  <2>4. n \in Nat /\ n \in 1..n
    BY <1>2, <1>4
  <2>5. \A j \in 1..n : f[j] = IF j = 1 THEN sent[j] ELSE f[j - 1] \o sent[j]
    BY <2>1 DEF Flattens
  <2>6. \A j \in 1..n : /\ f[j] \in Seq(Symbol) /\ Len(f[j]) \in 0..Len(wire)
                        /\ \A k \in 1..Len(f[j]) : wire[k] = f[j][k]
    <3> TAKE j \in 1..n
    <3>1. f[j] \in Seq(Symbol) /\ Len(f[j]) \in Nat
      BY <2>3
    <3>2. Len(f[j]) <= Len(wire) /\ \A k \in 1..Len(f[j]) : wire[k] = f[j][k]
      BY <2>2, <2>3, <2>4
    <3>3. Len(wire) \in Nat
      BY <1>1
    <3> QED
      BY <3>1, <3>2, <3>3
  <2>7. ASSUME NEW j \in 1..n
        PROVE  /\ Len(sent[j]) \in Nat /\ off(j - 1) \in Nat
               /\ off(j) = off(j - 1) + Len(sent[j])
               /\ \A k \in 1..Len(sent[j]) : wire[off(j - 1) + k] = sent[j][k]
    <3>1. sent[j] \in Seq(Symbol) /\ Len(sent[j]) \in Nat
      BY <1>1, <1>2
    <3>2. CASE j = 1
      <4>1. f[1] = sent[1] /\ off(j - 1) = 0 /\ off(j) = Len(f[1])
        BY <2>5, <3>2
      <4>2. \A k \in 1..Len(sent[1]) : wire[k] = sent[1][k] /\ 0 + k = k
        BY <2>6, <3>2, <4>1
      <4> QED
        BY <3>1, <3>2, <4>1, <4>2
    <3>3. CASE j # 1
      <4> DEFINE a == f[j - 1]
                 b == sent[j]
      <4>1. j - 1 \in 1..n /\ j - 1 # 0 /\ j # 0
        BY <2>4, <3>3
      <4>2. f[j] = a \o b /\ a \in Seq(Symbol) /\ b \in Seq(Symbol)
        BY <2>5, <2>6, <3>1, <3>3, <4>1
      <4>3. off(j - 1) = Len(a) /\ off(j) = Len(f[j])
        BY <4>1
      <4> HIDE DEF a, b
      <4>4. /\ Len(a) \in Nat /\ Len(b) \in Nat /\ Len(a \o b) = Len(a) + Len(b)
            /\ \A k \in 1..Len(b) : (a \o b)[Len(a) + k] = b[k]
        BY <4>2
      <4>5. \A k \in 1..Len(b) : Len(a) + k \in 1..Len(f[j])
        BY <4>2, <4>4
      <4>6. \A k \in 1..Len(b) : wire[Len(a) + k] = b[k]
        BY <2>6, <4>2, <4>4, <4>5
      <4> HIDE DEF off
      <4> QED
        BY <4>2, <4>3, <4>4, <4>6 DEF b
    <3> QED
      BY <3>2, <3>3
  <2>8. off(n) = Len(wire) /\ off(0) = 0
    BY <1>4, <2>2
  <2>9. \A j \in 0..n : off(j) \in 0..Len(wire)
    <3> TAKE j \in 0..n
    <3>1. CASE j = 0
      BY <1>1, <3>1
    <3>2. CASE j # 0
      <4>1. j \in 1..n
        BY <2>4, <3>2
      <4> QED
        BY <2>6, <3>2, <4>1
    <3> QED
      BY <3>1, <3>2
  <2> HIDE DEF off
  <2>10. 0 \in B /\ B \subseteq 0..Len(wire)
    BY <2>4, <2>8, <2>9
  <2>11. ASSUME NEW b \in B, b # Len(wire)
         PROVE  \E s \in Frames :
                   /\ b + Len(s) \in B
                   /\ \A k \in 1..Len(s) : wire[b + k] = s[k]
                   /\ ToSet(s) \cap Final # {} => b + Len(s) = Len(wire)
    <3>1. PICK i \in 0..n : b = off(i)
      OBVIOUS
    <3>2. i # n
      BY <2>8, <2>11, <3>1
    <3>3. i + 1 \in 1..n /\ i + 1 \in 0..n /\ (i + 1) - 1 = i
      BY <2>4, <3>2
    <3>4. /\ off(i + 1) = off(i) + Len(sent[i + 1])
          /\ \A k \in 1..Len(sent[i + 1]) : wire[off(i) + k] = sent[i + 1][k]
      BY <2>7, <3>3
    <3>5. sent[i + 1] \in Frames
      BY <1>2, <3>3
    <3>6. ASSUME ToSet(sent[i + 1]) \cap Final # {} PROVE i + 1 = n
      <4>1. n <= i + 1
        BY <1>2, <2>4, <3>3, <3>6
      <4> QED
        BY <2>4, <3>3, <4>1
    <3>7. off(i + 1) \in B
      BY <3>3
    <3> HIDE DEF B
    <3> QED
      BY <2>8, <3>1, <3>4, <3>5, <3>6, <3>7
  <2>12. Framing(B)
    <3> HIDE DEF B
    <3> QED
      BY <2>10, <2>11 DEF Framing
  <2> QED
    BY <2>12
<1> QED
  BY <1>3, <1>4

\* What is cut out at such a place is a frame.
LEMMA CutTakesFrame ==
  ASSUME TypeOK, BufferIsTheRest, NEW B, Framing(B), taken \in B, NEW c \in FirstCut(buffer)
  PROVE  \E s \in Frames :
            /\ c[1] + Len(c[2]) - 1 = Len(s)
            /\ taken + Len(s) \in B
            /\ \A k \in 1..Len(s) : wire[taken + k] = s[k]
            /\ ToSet(s) \cap Final # {} => taken + Len(s) = Len(wire)
            /\ DataAt(SubSeq(buffer, 1, c[1] - 1)) = {k \in 1..Len(s) : s[k] \in Data}
<1> DEFINE w == SubSeq(wire, taken + 1, Len(wire))
<1>1. /\ wire \in Seq(Symbol) /\ Len(wire) \in Nat /\ got \in taken..Len(wire) /\ taken \in Nat
      /\ B \subseteq 0..Len(wire)
  BY WireType DEF TypeOK, Framing
<1>2. /\ buffer \in Seq(Symbol) /\ Len(buffer) = got - taken
      /\ \A k \in 1..(got - taken) : buffer[k] = wire[taken + k]
  BY <1>1 DEF BufferIsTheRest
<1>3. /\ w \in Seq(Symbol) /\ Len(w) = Len(wire) - taken
      /\ \A k \in 1..(Len(wire) - taken) : w[k] = wire[taken + k]
  BY <1>1
<1> HIDE DEF w
<1>4. PICK x \in 1..Len(buffer) : x = c[1]
  BY CutIsInside
<1>5. taken # Len(wire)
  BY <1>1, <1>2, <1>4
<1>6. PICK s \in Frames :
        /\ taken + Len(s) \in B
        /\ \A k \in 1..Len(s) : wire[taken + k] = s[k]
        /\ ToSet(s) \cap Final # {} => taken + Len(s) = Len(wire)
  BY <1>5 DEF Framing
<1>7. Begins(w, s)
  <2>1. Len(s) \in Nat
    BY FrameSymbols
  <2>2. Len(s) <= Len(w) /\ \A k \in 1..Len(s) : k \in 1..(Len(wire) - taken)
    BY <1>1, <1>3, <1>6, <2>1
  <2> QED
    BY <1>3, <1>6, <2>2 DEF Begins
<1>8. FirstCut(w) = {c}
  <2>1. Len(buffer) <= Len(w) /\ \A k \in 1..Len(buffer) : w[k] = buffer[k]
    <3>1. \A k \in 1..(got - taken) : k \in 1..(Len(wire) - taken)
      BY <1>1
    <3> QED
      BY <1>1, <1>2, <1>3, <3>1
  <2> QED
    BY <1>2, <1>3, <2>1, FirstCutStays
<1>9. /\ c[1] + Len(c[2]) - 1 = Len(s)
      /\ DataAt(SubSeq(w, 1, c[1] - 1)) = {k \in 1..Len(s) : s[k] \in Data}
  BY <1>7, <1>8, FrameIsFound DEF FindsFrame
<1>10. SubSeq(w, 1, x - 1) = SubSeq(buffer, 1, x - 1)
  <2> DEFINE v == SubSeq(buffer, 1, x - 1)
  <2>1. Len(buffer) \in Nat /\ x \in Nat /\ x >= 1 /\ x <= Len(buffer)
    BY <1>2, <1>4
  <2>2. v \in Seq(Symbol) /\ Len(v) = x - 1 /\ \A k \in 1..(x - 1) : v[k] = buffer[k]
    BY <1>2, <2>1
  <2> HIDE DEF v
  <2>3. \A k \in 1..(x - 1) : k \in 1..(got - taken) /\ k \in 1..(Len(wire) - taken)
    BY <1>1, <1>2, <2>1
  <2>4. Len(v) <= Len(w) /\ \A k \in 1..Len(v) : w[k] = v[k]
    <3>1. \A k \in 1..(x - 1) : w[k] = v[k]
      BY <1>2, <1>3, <2>2, <2>3
    <3>2. x - 1 <= Len(w)
      BY <1>1, <1>2, <1>3, <2>1
    <3> QED
      BY <2>2, <3>1, <3>2
  <2>5. SubSeq(w, 1, Len(v)) = v
    BY <1>3, <2>2, <2>4, BeginningIs
  <2> QED
    BY <2>2, <2>5 DEF v
<1> QED
  BY <1>4, <1>6, <1>9, <1>10

\* Where nothing can be cut, nothing is left.
LEMMA AllFramesTaken ==
  ASSUME TypeOK, BufferIsTheRest, NEW B, Framing(B), taken \in B,
         got = Len(wire), FirstCut(buffer) = {}
  PROVE  taken = Len(wire)
<1> SUFFICES ASSUME taken # Len(wire) PROVE FALSE
  OBVIOUS
<1>1. /\ wire \in Seq(Symbol) /\ Len(wire) \in Nat /\ got \in taken..Len(wire) /\ taken \in Nat
      /\ B \subseteq 0..Len(wire)
  BY WireType DEF TypeOK, Framing
<1>2. /\ buffer \in Seq(Symbol) /\ Len(buffer) = Len(wire) - taken
      /\ \A k \in 1..(Len(wire) - taken) : buffer[k] = wire[taken + k]
  BY <1>1 DEF BufferIsTheRest
<1>3. PICK s \in Frames : taken + Len(s) \in B /\ \A k \in 1..Len(s) : wire[taken + k] = s[k]
  BY DEF Framing
<1>4. Begins(buffer, s)
  <2>1. Len(s) \in Nat
    BY FrameSymbols
  <2>2. Len(s) <= Len(buffer) /\ \A k \in 1..Len(s) : k \in 1..(Len(wire) - taken)
    BY <1>1, <1>2, <1>3, <2>1
  <2> QED
    BY <1>2, <1>3, <2>2 DEF Begins
<1> QED
  BY <1>4, FrameIsFound DEF FindsFrame

LEMMA SameFraming ==
  ASSUME family' = family, wire' = wire, NEW B
  PROVE  Framing(B)' <=> Framing(B)
<1>1. Frames' = Frames
  BY DEF Frames
<1> QED
  BY <1>1 DEF Framing

-----------------------------------------------------------------------------
\* A line with text says it.
LEMMA TextIsTold ==
  ASSUME family \in Family, NEW event, NEW i \in DOMAIN event, event[i] \in TextLine
  PROVE  "text" \in ToSet(Says(event[i], event))
<1>1. "text" \in ToSet(<<"text">>) /\ "text" \in ToSet(<<"text", "end">>)
  <2>1. <<"text">>[1] = "text" /\ 1 \in DOMAIN <<"text">>
    OBVIOUS
  <2>2. <<"text", "end">>[1] = "text" /\ 1 \in DOMAIN <<"text", "end">>
    OBVIOUS
  <2> QED
    BY <2>1, <2>2 DEF ToSet
<1> HIDE DEF ToSet
<1>2. CASE family = "openai"
  <2>1. event # <<"done">>
    BY DEF TextLine
  <2> QED
    BY <1>1, <1>2, <2>1 DEF Says, SaysOpenAI, TextLine
<1>3. CASE family = "claude"
  BY <1>1, <1>3 DEF Says, SaysClaude, TextLine
<1>4. CASE family = "gemini"
  BY <1>1, <1>4 DEF Says, SaysGemini, TextLine
<1> QED
  BY <1>2, <1>3, <1>4 DEF Family

\* A cut takes a frame, and its text with it.
LEMMA FrameCut ==
  ASSUME IInv, TakenByFrames, Cut
  PROVE  TakenByFrames'
<1>1. /\ TypeOK /\ BufferIsTheRest /\ pc = "cut" /\ family' = family /\ wire' = wire /\ got' = got
      /\ result' = result /\ result = "none"
  BY DEF Cut, IInv, Finished
<1>2. PICK c \in FirstCut(buffer) : Erase(c) /\ Process(SubSeq(buffer, 1, c[1] - 1))
  BY DEF Cut
<1> DEFINE event == SubSeq(buffer, 1, c[1] - 1)
<1>3. SUFFICES ASSUME NEW B, Framing(B)
               PROVE  /\ taken' \in B
                      /\ streamFinish' => taken' = Len(wire)
                      /\ \A p \in 1..taken' : wire[p] \in TextLine => p \in ToSet(full_content')
  BY <1>1, SameFraming DEF TakenByFrames
<1>4. /\ taken \in B /\ (streamFinish => taken = Len(wire))
      /\ \A p \in 1..taken : wire[p] \in TextLine => p \in ToSet(full_content)
  BY <1>3 DEF TakenByFrames
<1>5. PICK s \in Frames :
        /\ c[1] + Len(c[2]) - 1 = Len(s)
        /\ taken + Len(s) \in B
        /\ \A k \in 1..Len(s) : wire[taken + k] = s[k]
        /\ ToSet(s) \cap Final # {} => taken + Len(s) = Len(wire)
        /\ DataAt(event) = {k \in 1..Len(s) : s[k] \in Data}
  BY <1>1, <1>2, <1>3, <1>4, CutTakesFrame
<1>6. /\ Len(s) \in Nat /\ taken \in Nat /\ Len(wire) \in Nat /\ full_content \in Seq(Nat)
      /\ taken \in 0..got /\ got \in 0..Len(wire)
  BY <1>1, FrameSymbols, WireType DEF TypeOK
<1>7. taken' = taken + Len(s)
  <2>1. PICK x \in Nat, l \in Nat : x = c[1] /\ l = Len(c[2])
    <3>1. c[1] \in 1..Len(buffer) /\ Len(c[2]) \in {2, 4} /\ Len(buffer) \in Nat
      BY <1>1, <1>2, CutIsInside DEF TypeOK
    <3>2. c[1] \in Nat /\ Len(c[2]) \in Nat
      BY <3>1
    <3> QED
      BY <3>2
  <2>2. taken' = taken + x + l - 1 /\ x + l - 1 = Len(s)
    BY <1>2, <1>5, <2>1 DEF Erase
  <2>3. taken + x + l - 1 = taken + (x + l - 1)
    BY <1>6, <2>1
  <2> QED
    BY <2>2, <2>3
<1>8. taken + Len(s) <= Len(wire)
  BY <1>3, <1>5, <1>6 DEF Framing
<1>9. streamFinish => taken' = Len(wire)
  BY <1>4, <1>6, <1>7, <1>8
<1>10. \A p \in 1..taken' : p \in 1..taken \/ \E k \in 1..Len(s) : p = taken + k
  <2> TAKE p \in 1..taken'
  <2>1. CASE p <= taken
    BY <1>6, <1>7, <2>1
  <2>2. CASE ~(p <= taken)
    <3>1. p - taken \in 1..Len(s) /\ p = taken + (p - taken)
      BY <1>6, <1>7, <2>2
    <3> QED
      BY <3>1
  <2> QED
    BY <2>1, <2>2
<1>11. Process(event)
  BY <1>2
<1>12. \A k \in 1..Len(s) : s[k] \in TextLine => k \in DataAt(event)
  BY <1>5 DEF TextLine, Data
<1>13. CASE DataAt(event) = {} /\ UNCHANGED <<full_content, streamFinish>>
  BY <1>4, <1>5, <1>7, <1>9, <1>10, <1>12, <1>13
<1>14. ASSUME NEW i \in DataAt(event),
              full_content' = IF "text" \in ToSet(Says(event[i], event))
                              THEN Append(full_content, taken + i) ELSE full_content,
              streamFinish' = (streamFinish \/ ToSet(Says(event[i], event)) \cap Ends # {})
       PROVE  /\ taken' \in B
              /\ streamFinish' => taken' = Len(wire)
              /\ \A p \in 1..taken' : wire[p] \in TextLine => p \in ToSet(full_content')
  <2>1. i \in DOMAIN event /\ event[i] \in Data /\ event[i] = wire[taken + i]
    BY <1>1, <1>2, LineOfEvent
  <2>2. i \in 1..Len(s) /\ event[i] = s[i] /\ s[i] \in Data
    BY <1>5, <2>1
  <2>3. \A k \in DataAt(event) : k = i
    <3>1. \A k \in DataAt(event) : k <= i /\ i <= k
      BY DEF DataAt
    <3>2. \A k \in DataAt(event) : k \in Nat
      BY <1>5
    <3> QED
      BY <3>1, <3>2
  <2>4. streamFinish' => taken' = Len(wire)
    <3>1. CASE streamFinish
      BY <1>9, <3>1
    <3>2. CASE ToSet(Says(event[i], event)) \cap Ends # {}
      <4>1. event[i] \in Final
        <5> HIDE DEF event
        <5> QED
          BY <1>1, <2>1, <3>2, SaysWhatItIs DEF TypeOK
      <4>2. s[i] \in ToSet(s)
        <5>1. s \in Seq(Symbol)
          BY FrameSymbols
        <5> QED
          BY <2>2, <5>1 DEF ToSet
      <4> QED
        BY <1>5, <1>7, <2>2, <4>1, <4>2
    <3> QED
      BY <1>14, <3>1, <3>2
  <2>5. event[i] \in TextLine => "text" \in ToSet(Says(event[i], event))
    <3> HIDE DEF event
    <3> QED
      BY <1>1, <2>1, TextIsTold DEF TypeOK
  <2>6. /\ full_content' \in Seq(Nat) /\ ToSet(full_content) \subseteq ToSet(full_content')
        /\ event[i] \in TextLine => taken + i \in ToSet(full_content')
    <3> HIDE DEF event
    <3>1. taken + i \in Nat
      BY <1>6, <2>2
    <3> DEFINE t == Append(full_content, taken + i)
    <3>2. /\ t \in Seq(Nat) /\ Len(full_content) \in Nat /\ Len(t) = Len(full_content) + 1
          /\ \A k \in 1..Len(full_content) : t[k] = full_content[k]
          /\ t[Len(full_content) + 1] = taken + i
      BY <1>6, <3>1
    <3>3. DOMAIN t = 1..(Len(full_content) + 1) /\ DOMAIN full_content = 1..Len(full_content)
      BY <1>6, <3>2
    <3> HIDE DEF t
    <3>4. ToSet(full_content) \subseteq ToSet(t) /\ taken + i \in ToSet(t)
      BY <3>2, <3>3 DEF ToSet
    <3> QED
      BY <1>6, <1>14, <2>5, <3>2, <3>4 DEF t
  <2>7. ASSUME NEW p \in 1..taken', wire[p] \in TextLine PROVE p \in ToSet(full_content')
    <3>1. CASE p \in 1..taken
      BY <1>4, <2>6, <2>7, <3>1
    <3>2. CASE \E k \in 1..Len(s) : p = taken + k
      <4>1. PICK k \in 1..Len(s) : p = taken + k
        BY <3>2
      <4>2. s[k] \in TextLine
        BY <1>5, <2>7, <4>1
      <4>3. k = i
        BY <1>12, <2>3, <4>2
      <4> QED
        BY <2>2, <2>6, <4>1, <4>2, <4>3
    <3> QED
      BY <1>10, <3>1, <3>2
  <2> QED
    BY <1>5, <1>7, <2>4, <2>7
<1>15. \/ DataAt(event) = {} /\ UNCHANGED <<full_content, streamFinish>>
       \/ \E i \in DataAt(event) :
            /\ full_content' = IF "text" \in ToSet(Says(event[i], event))
                               THEN Append(full_content, taken + i) ELSE full_content
            /\ streamFinish' = (streamFinish \/ ToSet(Says(event[i], event)) \cap Ends # {})
  <2> HIDE DEF event
  <2> QED
    BY <1>11 DEF Process, Ends
<1> QED
  BY <1>13, <1>14, <1>15

LEMMA FramesNext ==
  IInv /\ AllIsCut /\ TakenByFrames /\ [Next]_vars => TakenByFrames'
<1> SUFFICES ASSUME IInv, AllIsCut, TakenByFrames, [Next]_vars PROVE TakenByFrames'
  OBVIOUS
<1>1. ASSUME UNCHANGED <<family, wire, taken, full_content, streamFinish>>,
             result' = "text" => result = "text"
      PROVE  TakenByFrames'
  BY <1>1, SameFraming DEF TakenByFrames
<1>2. CASE Refused
  BY <1>1, <1>2 DEF Refused, Return
<1>3. CASE Accepted
  BY <1>1, <1>3 DEF Accepted
<1>4. CASE Arrive
  BY <1>1, <1>4 DEF Arrive
<1>5. CASE Cut
  BY <1>5, FrameCut
<1>6. CASE CutThrows
  BY <1>1, <1>6 DEF CutThrows, Return
<1>7. CASE NothingToCut
  BY <1>1, <1>7 DEF NothingToCut
<1>8. CASE Broken
  BY <1>1, <1>8 DEF Broken, Return
<1>9. CASE Complete
  <2>1. /\ UNCHANGED <<family, wire, taken, full_content, streamFinish>>
        /\ pc = "wait" /\ got = Len(wire)
    BY <1>9 DEF Complete
  <2>2. ASSUME NEW B, Framing(B) PROVE taken = Len(wire)
    <3>1. taken \in B /\ (streamFinish => taken = Len(wire))
      BY <2>2 DEF TakenByFrames
    <3>2. CASE streamFinish
      BY <3>1, <3>2
    <3>3. CASE ~streamFinish
      <4>1. FirstCut(buffer) = {}
        BY <2>1, <3>3 DEF AllIsCut, Listening
      <4> QED
        BY <2>1, <2>2, <3>1, <4>1, AllFramesTaken DEF IInv
    <3> QED
      BY <3>2, <3>3
  <2> QED
    BY <2>1, <2>2, SameFraming DEF TakenByFrames
<1>10. CASE UNCHANGED vars
  BY <1>1, <1>10 DEF vars
<1> QED
  BY <1>2, <1>3, <1>4, <1>5, <1>6, <1>7, <1>8, <1>9, <1>10 DEF Next

\* A stream that is framed well, with its end at the end, arrives in full, however it was
\* cut.  (OpenAICompatProvider.cc:199-210, ClaudeProvider.cc:455-468, GeminiProvider.cc:211-249)
THEOREM TextsCorrect == Spec => []EveryTextArrives
<1>1. Init => IInv /\ ToldSoFar /\ AllIsCut /\ TakenByFrames
  <2>1. Init => TakenByFrames
    BY DEF Init, TakenByFrames, Framing
  <2> QED
    BY <2>1, InitInvariant, ToldInit
<1>2. IInv /\ ToldSoFar /\ AllIsCut /\ TakenByFrames /\ [Next]_vars
        => (IInv /\ ToldSoFar /\ AllIsCut /\ TakenByFrames)'
  BY NextInvariant, ToldNext, FramesNext
<1>3. IInv /\ TakenByFrames => EveryTextArrives
  <2> SUFFICES ASSUME IInv, TakenByFrames, result = "text",
                      \A i \in DOMAIN sent : sent[i] \in Frames,
                      \A i, j \in DOMAIN sent : ToSet(sent[i]) \cap Final # {} => j <= i
               PROVE  ToSet(full_content) = {i \in DOMAIN wire : wire[i] \in {"text", "tail"}}
    BY DEF EveryTextArrives
  <2>1. /\ TypeOK /\ wire \in Seq(Symbol) /\ Len(wire) \in Nat /\ DOMAIN wire = 1..Len(wire)
    BY WireType DEF IInv
  <2>2. PICK B : Framing(B)
    BY <2>1, FramesAreFraming
  <2>3. taken = Len(wire) /\ \A p \in 1..taken : wire[p] \in TextLine => p \in ToSet(full_content)
    BY <2>2 DEF TakenByFrames
  <2>4. ASSUME NEW p \in ToSet(full_content) PROVE p \in DOMAIN wire /\ wire[p] \in TextLine
    <3>1. PICK i \in DOMAIN shown : p = shown[i].at /\ shown[i].what = "text"
      BY DEF IInv, Answer
    <3>2. shown[i].at \in 1..taken /\ wire[shown[i].at] \in TextLine
      BY <3>1 DEF IInv, Sources, TextLine
    <3> QED
      BY <2>1, <2>3, <3>1, <3>2
  <2> QED
    BY <2>1, <2>3, <2>4 DEF TextLine
<1> QED
  BY <1>1, <1>2, <1>3, PTL DEF Spec
=============================================================================
