---------------------------- MODULE SumTheorems ----------------------------
(***************************************************************************)
(* Facts about SumFunctionOnSet and SumFunction, which the models use for  *)
(* totals of counters and of costs: the total of finitely many natural     *)
(* numbers is one, taking an index out takes its value out, and so on.     *)
(*                                                                         *)
(* A sum is the value at S of a function defined by recursion over the     *)
(* subsets of S (iter in Folds).  That this function exists is proved by   *)
(* induction on the size of a subset, in the form Induction has it: a set  *)
(* of numbers that has 0 and is closed under successor has every number.   *)
(* Iteration says the same of any function that is defined step by step.   *)
(***************************************************************************)
EXTENDS Integers, Sequences, FiniteSets, Functions, FiniteSetTheorems,
        SequenceTheorems, WellFoundedInduction, TLAPS

\* Induction over the numbers: the least number that X lacked would be neither 0 nor a
\* successor of one that X has.
LEMMA Induction ==
  ASSUME NEW X, 0 \in X, \A n \in Nat : n \in X => n + 1 \in X
  PROVE  \A n \in Nat : n \in X
<1> DEFINE R == OpToRel(<, Nat)
           T == {n \in Nat : n \notin X}
<1>1. IsWellFoundedOn(R, Nat)
  BY NatLessThanWellFounded
<1>2. \A x, y \in Nat : x < y => <<x, y>> \in R
  BY DEF OpToRel
<1> HIDE DEF R
<1>3. ASSUME T # {} PROVE FALSE
  <2>1. PICK x \in T : \A y \in T : ~(<<y, x>> \in R)
    BY <1>1, <1>3, WFMin
  <2>2. x # 0 /\ x - 1 \in Nat /\ x - 1 < x
    BY <2>1
  <2>3. x - 1 \notin X
    BY <2>2
  <2> QED
    BY <1>2, <2>1, <2>2, <2>3
<1> QED
  BY <1>3

\* f[i] is what step makes of f[i - 1].
Iterates(f, base, n, step) == f[0] = base /\ \A i \in 1..n : f[i] = step[<<i, f[i - 1]>>]

\* A function that is defined step by step exists.
LEMMA Iteration ==
  ASSUME NEW S, NEW base \in S, NEW n \in Nat, NEW step \in [(1..n) \X S -> S]
  PROVE  \E f \in [0..n -> S] : Iterates(f, base, n, step)
<1> DEFINE Upto(m) == \E f \in [0..m -> S] :
                         f[0] = base /\ \A i \in 1..m : f[i] = step[<<i, f[i - 1]>>]
           X == {m \in Nat : m <= n => Upto(m)}
<1>1. Upto(0)
  <2> DEFINE f == [i \in 0..0 |-> base]
  <2>1. f \in [0..0 -> S] /\ f[0] = base /\ \A i \in 1..0 : f[i] = step[<<i, f[i - 1]>>]
    OBVIOUS
  <2> QED
    BY <2>1
<1>2. ASSUME NEW m \in Nat, m + 1 <= n, Upto(m) PROVE Upto(m + 1)
  <2>1. PICK f \in [0..m -> S] :
           f[0] = base /\ \A i \in 1..m : f[i] = step[<<i, f[i - 1]>>]
    BY <1>2
  <2> DEFINE g == [i \in 0..(m + 1) |-> IF i = m + 1 THEN step[<<m + 1, f[m]>>] ELSE f[i]]
  <2>2. step[<<m + 1, f[m]>>] \in S
    <3>1. <<m + 1, f[m]>> \in (1..n) \X S
      BY <1>2, <2>1
    <3> QED
      BY <3>1
  <2>3. g \in [0..(m + 1) -> S]
    BY <2>1, <2>2
  <2>4. g[0] = base
    BY <2>1
  <2>5. ASSUME NEW i \in 1..(m + 1) PROVE g[i] = step[<<i, g[i - 1]>>]
    <3>1. i - 1 \in 0..m /\ i - 1 # m + 1 /\ i - 1 \in 0..(m + 1) /\ i \in 0..(m + 1)
      OBVIOUS
    <3>2. g[i - 1] = f[i - 1]
      BY <3>1
    <3>3. CASE i = m + 1
      <4>1. i - 1 = m
        BY <3>3
      <4> QED
        BY <3>1, <3>2, <3>3, <4>1
    <3>4. CASE i # m + 1
      <4>1. i \in 1..m /\ g[i] = f[i]
        BY <3>1, <3>4
      <4> QED
        BY <2>1, <3>2, <4>1
    <3> QED
      BY <3>3, <3>4
  <2> HIDE DEF g
  <2> QED
    BY <2>3, <2>4, <2>5
<1> HIDE DEF Upto
<1>3. \A m \in Nat : m \in X => m + 1 \in X
  BY <1>2
<1>4. 0 \in X
  BY <1>1
<1> HIDE DEF X
<1>5. n \in X
  BY <1>3, <1>4, Induction
<1>6. Upto(n)
  BY <1>5 DEF X
<1> QED
  BY <1>6 DEF Upto, Iterates

\* f[j] is what the first j of the sequences in s are in one.
Flattens(f, s) == f = [j \in 1..Len(s) |-> IF j = 1 THEN s[j] ELSE f[j - 1] \o s[j]]

\* There is a function that flattens row by row.
LEMMA FlattensExists ==
  ASSUME NEW n \in Nat, NEW s, Len(s) = n
  PROVE  \E f : Flattens(f, s)
<1> DEFINE Upto(m) == \E f : f = [j \in 1..m |-> IF j = 1 THEN s[j] ELSE f[j - 1] \o s[j]]
           X == {m \in Nat : Upto(m)}
<1>1. 0 \in X
  <2> DEFINE f == [j \in 1..0 |-> s[j]]
  <2>1. f = [j \in 1..0 |-> IF j = 1 THEN s[j] ELSE f[j - 1] \o s[j]]
    <3>1. 1..0 = {}
      OBVIOUS
    <3> QED
      BY <3>1
  <2> QED
    BY <2>1
<1>2. ASSUME NEW m \in Nat, m \in X PROVE Upto(m + 1)
  <2>1. PICK f : f = [j \in 1..m |-> IF j = 1 THEN s[j] ELSE f[j - 1] \o s[j]]
    BY <1>2
  <2> DEFINE g == [j \in 1..(m + 1) |->
                    IF j <= m THEN f[j] ELSE IF j = 1 THEN s[j] ELSE f[j - 1] \o s[j]]
  <2>2. \A j \in 1..(m + 1) : g[j] = IF j = 1 THEN s[j] ELSE g[j - 1] \o s[j]
    <3> TAKE j \in 1..(m + 1)
    <3>1. CASE j <= m
      <4>1. j \in 1..m /\ (j # 1 => j - 1 \in 1..m /\ j - 1 <= m /\ j - 1 \in 1..(m + 1))
        BY <3>1
      <4>2. f[j] = IF j = 1 THEN s[j] ELSE f[j - 1] \o s[j]
        BY <2>1, <4>1
      <4>3. g[j] = f[j] /\ (j # 1 => g[j - 1] = f[j - 1])
        BY <3>1, <4>1
      <4> QED
        BY <4>2, <4>3
    <3>2. CASE ~(j <= m)
      <4>1. j # 1 => j - 1 \in 1..(m + 1) /\ j - 1 <= m
        BY <3>2
      <4>2. g[j] = IF j = 1 THEN s[j] ELSE f[j - 1] \o s[j]
        BY <3>2
      <4>3. j # 1 => g[j - 1] = f[j - 1]
        BY <4>1
      <4> QED
        BY <4>2, <4>3
    <3> QED
      BY <3>1, <3>2
  <2>3. DOMAIN g = 1..(m + 1) /\ g = [j \in 1..(m + 1) |-> g[j]]
    OBVIOUS
  <2> HIDE DEF g
  <2>4. g = [j \in 1..(m + 1) |-> IF j = 1 THEN s[j] ELSE g[j - 1] \o s[j]]
    BY <2>2, <2>3
  <2> QED
    BY <2>4
<1> HIDE DEF Upto
<1>3. \A m \in Nat : m \in X => m + 1 \in X
  BY <1>2
<1> HIDE DEF X
<1>4. n \in X
  BY <1>1, <1>3, Induction
<1>5. Upto(n)
  BY <1>4 DEF X
<1> QED
  BY <1>5 DEF Upto, Flattens

\* What is in one keeps its place when more is put behind it.
LEMMA FlattenGrows ==
  ASSUME NEW S, NEW s \in Seq(Seq(S)), NEW f, Flattens(f, s)
  PROVE  \A m \in 1..Len(s) :
            /\ f[m] \in Seq(S)
            /\ \A i \in 1..m : Len(f[i]) <= Len(f[m]) /\ \A k \in 1..Len(f[i]) : f[m][k] = f[i][k]
<1> DEFINE Good(m) == /\ f[m] \in Seq(S)
                      /\ \A i \in 1..m : /\ f[i] \in Seq(S) /\ Len(f[i]) <= Len(f[m])
                                         /\ \A k \in 1..Len(f[i]) : f[m][k] = f[i][k]
           X == {d \in Nat : d + 1 <= Len(s) => Good(d + 1)}
<1>1. /\ Len(s) \in Nat /\ \A j \in 1..Len(s) : s[j] \in Seq(S)
      /\ \A j \in 1..Len(s) : f[j] = IF j = 1 THEN s[j] ELSE f[j - 1] \o s[j]
  <2>1. \A j \in 1..Len(s) : f[j] = IF j = 1 THEN s[j] ELSE f[j - 1] \o s[j]
    BY DEF Flattens
  <2>2. Len(s) \in Nat
    OBVIOUS
  <2>3. \A j \in 1..Len(s) : s[j] \in Seq(S)
    OBVIOUS
  <2> QED
    BY <2>1, <2>2, <2>3
<1>2. 0 \in X
  <2>1. ASSUME 1 <= Len(s) PROVE Good(1)
    <3>1. f[1] = s[1] /\ f[1] \in Seq(S) /\ Len(f[1]) \in Nat
      BY <1>1, <2>1
    <3>2. \A i \in 1..1 : i = 1
      OBVIOUS
    <3> QED
      BY <3>1, <3>2
  <2> QED
    BY <2>1
<1>3. ASSUME NEW d \in Nat, d \in X, (d + 1) + 1 <= Len(s) PROVE Good((d + 1) + 1)
  <2> DEFINE m == d + 1
             a == f[m]
             b == s[m + 1]
  <2>1. m \in 1..Len(s) /\ m + 1 \in 1..Len(s) /\ m + 1 # 1 /\ (m + 1) - 1 = m
    BY <1>1, <1>3
  <2>2. Good(m)
    BY <1>3, <2>1
  <2>3. f[m + 1] = a \o b /\ a \in Seq(S) /\ b \in Seq(S)
    BY <1>1, <2>1, <2>2
  <2> HIDE DEF a, b
  <2>4. /\ a \o b \in Seq(S) /\ Len(a \o b) = Len(a) + Len(b) /\ Len(a) \in Nat /\ Len(b) \in Nat
        /\ \A k \in 1..Len(a) : (a \o b)[k] = a[k]
    BY <2>3
  <2>5. ASSUME NEW i \in 1..(m + 1)
        PROVE  f[i] \in Seq(S) /\ Len(f[i]) <= Len(f[m + 1]) /\ \A k \in 1..Len(f[i]) : f[m + 1][k] = f[i][k]
    <3>1. CASE i = m + 1
      <4>1. f[m + 1] \in Seq(S) /\ Len(f[m + 1]) \in Nat
        BY <2>3, <2>4
      <4> QED
        BY <3>1, <4>1
    <3>2. CASE i # m + 1
      <4>1. i \in 1..m
        BY <2>1, <3>2
      <4>2. /\ f[i] \in Seq(S) /\ Len(f[i]) <= Len(a)
            /\ \A k \in 1..Len(f[i]) : a[k] = f[i][k]
        BY <2>2, <4>1 DEF a
      <4>3. Len(f[i]) \in Nat
        BY <4>2
      <4> QED
        BY <2>3, <2>4, <4>2, <4>3
    <3> QED
      BY <3>1, <3>2
  <2> QED
    BY <2>3, <2>4, <2>5
<1> HIDE DEF Good
<1>4. \A d \in Nat : d \in X => d + 1 \in X
  BY <1>3
<1> HIDE DEF X
<1>5. \A d \in Nat : d \in X
  BY <1>2, <1>4, Induction
<1>6. ASSUME NEW m \in 1..Len(s) PROVE Good(m)
  <2>1. m - 1 \in Nat /\ (m - 1) + 1 = m /\ m <= Len(s)
    BY <1>1
  <2> QED
    BY <1>5, <2>1 DEF X
<1> QED
  BY <1>6 DEF Good

Some(s) == CHOOSE x \in s : TRUE

\* The value at s, from those at smaller sets; and a function that has them all.
At(iter, f, s) == IF s = {} THEN 0 ELSE f[Some(s)] + iter[s \ {Some(s)}]

Unfolds(iter, f, S) == iter = [s \in SUBSET S |-> At(iter, f, s)]

\* The same for the sets of up to n elements.
UnfoldsTo(iter, f, S, n) ==
    \A s \in SUBSET S : Cardinality(s) <= n => iter[s] = At(iter, f, s)

\* What is taken out of a set first is in it.
LEMMA SomeIsIn == ASSUME NEW s, s # {} PROVE Some(s) \in s
BY DEF Some

\* A sum is what a function that unfolds has at S.
LEMMA SumIsChosen ==
  ASSUME NEW f, NEW S
  PROVE  SumFunctionOnSet(f, S) = (CHOOSE iter : Unfolds(iter, f, S))[S]
BY DEF SumFunctionOnSet, FoldFunctionOnSet, MapThenFoldSet, Unfolds, At, Some

\* A set of n + 1 elements without one of them has n.
LEMMA OneLess ==
  ASSUME NEW s, IsFiniteSet(s), NEW x \in s
  PROVE  /\ IsFiniteSet(s \ {x}) /\ Cardinality(s \ {x}) \in Nat
         /\ Cardinality(s) = Cardinality(s \ {x}) + 1
<1>1. /\ IsFiniteSet(s \ {x})
      /\ Cardinality(s \ {x}) = IF x \in s THEN Cardinality(s) - 1 ELSE Cardinality(s)
  BY FS_RemoveElement
<1>2. Cardinality(s) \in Nat /\ Cardinality(s \ {x}) \in Nat
  BY <1>1, FS_CardinalityType
<1> QED
  BY <1>1, <1>2

\* The recursion defines a function.
LEMMA Unfolding ==
  ASSUME NEW f, NEW S, IsFiniteSet(S)
  PROVE  \E iter : Unfolds(iter, f, S)
<1> DEFINE X == {n \in Nat : \E iter : UnfoldsTo(iter, f, S, n)}
<1>0. \A s \in SUBSET S : IsFiniteSet(s) /\ Cardinality(s) \in Nat
  BY FS_Subset, FS_CardinalityType
<1>1. 0 \in X
  <2> DEFINE iter == [s \in SUBSET S |-> 0]
  <2>1. \A s \in SUBSET S : Cardinality(s) <= 0 => s = {}
    BY <1>0, FS_EmptySet
  <2>2. UnfoldsTo(iter, f, S, 0)
    BY <2>1 DEF UnfoldsTo, At
  <2> QED
    BY <2>2
<1>2. ASSUME NEW n \in Nat, n \in X PROVE n + 1 \in X
  <2>1. PICK old : UnfoldsTo(old, f, S, n)
    BY <1>2
  <2> DEFINE iter == [s \in SUBSET S |-> IF Cardinality(s) = n + 1 THEN At(old, f, s) ELSE old[s]]
  <2>2. ASSUME NEW s \in SUBSET S, Cardinality(s) <= n + 1 PROVE iter[s] = At(iter, f, s)
    <3>0. iter[s] = At(old, f, s)
      <4>1. CASE Cardinality(s) = n + 1
        BY <4>1
      <4>2. CASE Cardinality(s) # n + 1
        <5>1. Cardinality(s) <= n
          BY <1>0, <2>2, <4>2
        <5>2. old[s] = At(old, f, s)
          BY <2>1, <5>1 DEF UnfoldsTo
        <5> QED
          BY <4>2, <5>2
      <4> QED
        BY <4>1, <4>2
    <3>1. CASE s = {}
      BY <3>0, <3>1 DEF At
    <3>2. CASE s # {}
      <4>1. Some(s) \in s /\ s \ {Some(s)} \in SUBSET S
        BY <3>2, SomeIsIn
      <4>2. Cardinality(s \ {Some(s)}) \in Nat /\ Cardinality(s) = Cardinality(s \ {Some(s)}) + 1
        BY <1>0, <4>1, OneLess
      <4>a. Cardinality(s \ {Some(s)}) # n + 1
        BY <2>2, <4>2, <1>0
      <4>3. iter[s \ {Some(s)}] = old[s \ {Some(s)}]
        BY <4>1, <4>a
      <4> QED
        BY <3>0, <3>2, <4>3 DEF At
    <3> QED
      BY <3>1, <3>2
  <2>3. UnfoldsTo(iter, f, S, n + 1)
    BY <2>2 DEF UnfoldsTo
  <2> QED
    BY <2>3
<1> HIDE DEF X
<1>3. Cardinality(S) \in X
  BY <1>1, <1>2, Induction, FS_CardinalityType
<1>4. PICK iter : UnfoldsTo(iter, f, S, Cardinality(S))
  BY <1>3 DEF X
<1> DEFINE all == [s \in SUBSET S |-> iter[s]]
<1>5. \A s \in SUBSET S : Cardinality(s) <= Cardinality(S)
  BY FS_Subset
<1>6. \A s \in SUBSET S : iter[s] = At(iter, f, s)
  BY <1>4, <1>5 DEF UnfoldsTo
<1>7. \A s \in SUBSET S : At(iter, f, s) = At(all, f, s)
  BY SomeIsIn DEF At
<1>8. all = [s \in SUBSET S |-> At(all, f, s)]
  BY <1>6, <1>7
<1> QED
  BY <1>8 DEF Unfolds

\* The function whose value at S is the sum.
Iter(f, S) == CHOOSE iter : Unfolds(iter, f, S)

\* Such a function has the value it unfolds to.
LEMMA IterUnfolds ==
  ASSUME NEW f, NEW S, IsFiniteSet(S), NEW s \in SUBSET S
  PROVE  Iter(f, S)[s] = At(Iter(f, S), f, s)
<1>1. Unfolds(Iter(f, S), f, S)
  BY Unfolding DEF Iter
<1> HIDE DEF Iter
<1> QED
  BY <1>1 DEF Unfolds

\* A sum depends on nothing but the values it adds.
LEMMA IterSame ==
  ASSUME NEW f, NEW g, NEW S, NEW T, IsFiniteSet(S), IsFiniteSet(T),
         NEW u \in SUBSET (S \cap T), \A x \in u : f[x] = g[x]
  PROVE  Iter(f, S)[u] = Iter(g, T)[u]
<1> DEFINE X == {n \in Nat : \A s \in SUBSET u : Cardinality(s) <= n => Iter(f, S)[s] = Iter(g, T)[s]}
<1>0. IsFiniteSet(u) /\ \A s \in SUBSET u : IsFiniteSet(s) /\ Cardinality(s) \in Nat
  BY FS_Subset, FS_CardinalityType
<1>a. \A s \in SUBSET u : Iter(f, S)[s] = At(Iter(f, S), f, s) /\ Iter(g, T)[s] = At(Iter(g, T), g, s)
  BY IterUnfolds
<1>1. 0 \in X
  <2>1. \A s \in SUBSET u : Cardinality(s) <= 0 => s = {}
    BY <1>0, FS_EmptySet
  <2> QED
    BY <1>a, <2>1 DEF At
<1>2. ASSUME NEW n \in Nat, n \in X PROVE n + 1 \in X
  <2>1. ASSUME NEW s \in SUBSET u, Cardinality(s) <= n + 1 PROVE Iter(f, S)[s] = Iter(g, T)[s]
    <3>1. CASE s = {}
      BY <1>a, <3>1 DEF At
    <3>2. CASE s # {}
      <4>1. Some(s) \in s /\ s \ {Some(s)} \in SUBSET u
        BY <3>2, SomeIsIn
      <4>2. Cardinality(s \ {Some(s)}) \in Nat /\ Cardinality(s) = Cardinality(s \ {Some(s)}) + 1
        BY <1>0, <4>1, OneLess
      <4>3. Iter(f, S)[s \ {Some(s)}] = Iter(g, T)[s \ {Some(s)}]
        BY <1>2, <2>1, <4>1, <4>2
      <4>4. f[Some(s)] = g[Some(s)]
        BY <4>1
      <4>5. Iter(f, S)[s] = At(Iter(f, S), f, s) /\ Iter(g, T)[s] = At(Iter(g, T), g, s)
        BY <1>a
      <4> QED
        BY <3>2, <4>3, <4>4, <4>5 DEF At
    <3> QED
      BY <3>1, <3>2
  <2> QED
    BY <2>1
<1> HIDE DEF X
<1>3. Cardinality(u) \in X
  BY <1>0, <1>1, <1>2, Induction
<1> QED
  BY <1>0, <1>3 DEF X

\* Only the values at the indices count.
THEOREM SumSame ==
  ASSUME NEW f, NEW g, NEW S, IsFiniteSet(S), \A x \in S : f[x] = g[x]
  PROVE  SumFunctionOnSet(f, S) = SumFunctionOnSet(g, S)
<1>1. Iter(f, S)[S] = Iter(g, S)[S]
  BY IterSame
<1> QED
  BY <1>1, SumIsChosen DEF Iter

\* The sum of nothing.
THEOREM SumOfNone == ASSUME NEW f PROVE SumFunctionOnSet(f, {}) = 0
<1>1. Iter(f, {})[{}] = At(Iter(f, {}), f, {})
  BY IterUnfolds, FS_EmptySet
<1> QED
  BY <1>1, SumIsChosen DEF Iter, At

\* The recursion, said of sums.
LEMMA SumUnfolds ==
  ASSUME NEW f, NEW S, IsFiniteSet(S), S # {}
  PROVE  SumFunctionOnSet(f, S) = f[Some(S)] + SumFunctionOnSet(f, S \ {Some(S)})
<1>1. Some(S) \in S /\ IsFiniteSet(S \ {Some(S)})
  BY SomeIsIn, OneLess
<1>2. Iter(f, S)[S \ {Some(S)}] = Iter(f, S \ {Some(S)})[S \ {Some(S)}]
  BY <1>1, IterSame
<1>3. Iter(f, S)[S] = At(Iter(f, S), f, S)
  BY IterUnfolds
<1> QED
  BY <1>2, <1>3, SumIsChosen DEF Iter, At

\* The sum of finitely many numbers is a number.
THEOREM SumType ==
  ASSUME NEW f, NEW S, IsFiniteSet(S), \A x \in S : f[x] \in Nat
  PROVE  SumFunctionOnSet(f, S) \in Nat
<1> DEFINE X == {n \in Nat : \A s \in SUBSET S : Cardinality(s) <= n => SumFunctionOnSet(f, s) \in Nat}
<1>0. \A s \in SUBSET S : IsFiniteSet(s) /\ Cardinality(s) \in Nat
  BY FS_Subset, FS_CardinalityType
<1>1. 0 \in X
  <2>1. \A s \in SUBSET S : Cardinality(s) <= 0 => s = {}
    BY <1>0, FS_EmptySet
  <2> QED
    BY <2>1, SumOfNone
<1>2. ASSUME NEW n \in Nat, n \in X PROVE n + 1 \in X
  <2>1. ASSUME NEW s \in SUBSET S, Cardinality(s) <= n + 1, s # {} PROVE SumFunctionOnSet(f, s) \in Nat
    <3>1. Some(s) \in s /\ f[Some(s)] \in Nat /\ s \ {Some(s)} \in SUBSET S
      BY <2>1, SomeIsIn
    <3>2. Cardinality(s \ {Some(s)}) \in Nat /\ Cardinality(s) = Cardinality(s \ {Some(s)}) + 1
      BY <1>0, <3>1, OneLess
    <3>3. SumFunctionOnSet(f, s \ {Some(s)}) \in Nat
      BY <1>2, <2>1, <3>1, <3>2
    <3>4. SumFunctionOnSet(f, s) = f[Some(s)] + SumFunctionOnSet(f, s \ {Some(s)})
      BY <1>0, <2>1, SumUnfolds
    <3> QED
      BY <3>1, <3>3, <3>4
  <2> QED
    BY <2>1, SumOfNone
<1> HIDE DEF X
<1>3. Cardinality(S) \in X
  BY <1>0, <1>1, <1>2, Induction
<1> QED
  BY <1>0, <1>3 DEF X

\* Any index may be taken out first.
THEOREM SumTakesOut ==
  ASSUME NEW f, NEW S, IsFiniteSet(S), \A x \in S : f[x] \in Nat, NEW a \in S
  PROVE  SumFunctionOnSet(f, S) = f[a] + SumFunctionOnSet(f, S \ {a})
<1> DEFINE Out(s) == \A x \in s : SumFunctionOnSet(f, s) = f[x] + SumFunctionOnSet(f, s \ {x})
           X == {n \in Nat : \A s \in SUBSET S : Cardinality(s) <= n => Out(s)}
<1>0. \A s \in SUBSET S : IsFiniteSet(s) /\ Cardinality(s) \in Nat
  BY FS_Subset, FS_CardinalityType
<1>1. 0 \in X
  <2>1. \A s \in SUBSET S : Cardinality(s) <= 0 => s = {}
    BY <1>0, FS_EmptySet
  <2> QED
    BY <2>1
<1>2. ASSUME NEW n \in Nat, n \in X PROVE n + 1 \in X
  <2>1. ASSUME NEW s \in SUBSET S, Cardinality(s) <= n + 1, NEW x \in s
        PROVE  SumFunctionOnSet(f, s) = f[x] + SumFunctionOnSet(f, s \ {x})
    <3> DEFINE c == Some(s)
    <3>1. c \in s
      BY SomeIsIn
    <3>2. SumFunctionOnSet(f, s) = f[c] + SumFunctionOnSet(f, s \ {c})
      BY <1>0, SumUnfolds
    <3>3. CASE c = x
      BY <3>2, <3>3
    <3>4. CASE c # x
      <4> HIDE DEF c
      <4>1. x \in s \ {c} /\ c \in s \ {x} /\ s \ {c} \in SUBSET S /\ s \ {x} \in SUBSET S
        BY <3>1, <3>4
      <4>2. /\ Cardinality(s) = Cardinality(s \ {c}) + 1 /\ Cardinality(s) = Cardinality(s \ {x}) + 1
            /\ Cardinality(s \ {c}) \in Nat /\ Cardinality(s \ {x}) \in Nat
        BY <1>0, <3>1, OneLess
      <4>3. Out(s \ {c}) /\ Out(s \ {x})
        BY <1>2, <2>1, <4>1, <4>2
      <4>4. /\ SumFunctionOnSet(f, s \ {c}) = f[x] + SumFunctionOnSet(f, (s \ {c}) \ {x})
            /\ SumFunctionOnSet(f, s \ {x}) = f[c] + SumFunctionOnSet(f, (s \ {x}) \ {c})
        BY <4>1, <4>3
      <4>5. (s \ {c}) \ {x} = (s \ {x}) \ {c} /\ (s \ {c}) \ {x} \in SUBSET S
        BY <4>1
      <4>6. SumFunctionOnSet(f, (s \ {c}) \ {x}) \in Nat /\ f[c] \in Nat /\ f[x] \in Nat
        BY <1>0, <3>1, <4>5, SumType
      <4> QED
        BY <3>2, <4>4, <4>5, <4>6
    <3> QED
      BY <3>3, <3>4
  <2> QED
    BY <2>1
<1> HIDE DEF X
<1>3. Cardinality(S) \in X
  BY <1>0, <1>1, <1>2, Induction
<1> QED
  BY <1>0, <1>3 DEF X

\* The sum of all values of a function.
THEOREM SumFunctionType ==
  ASSUME NEW S, IsFiniteSet(S), NEW f \in [S -> Nat]
  PROVE  SumFunction(f) \in Nat
<1>1. SumFunction(f) = SumFunctionOnSet(f, S)
  BY DEF SumFunction, SumFunctionOnSet, FoldFunction
<1>2. \A x \in S : f[x] \in Nat
  OBVIOUS
<1> QED
  BY <1>1, <1>2, SumType

\* One value of a function changes.
THEOREM SumExcept ==
  ASSUME NEW S, IsFiniteSet(S), NEW f \in [S -> Nat], NEW a \in S, NEW v \in Nat
  PROVE  /\ SumFunction(f) \in Nat
         /\ SumFunction([f EXCEPT ![a] = v]) + f[a] = SumFunction(f) + v
<1> DEFINE g == [f EXCEPT ![a] = v]
<1>1. SumFunction(f) = SumFunctionOnSet(f, S) /\ SumFunction(g) = SumFunctionOnSet(g, S)
  BY DEF SumFunction, SumFunctionOnSet, FoldFunction
<1>2. \A x \in S : f[x] \in Nat /\ g[x] \in Nat
  OBVIOUS
<1>3. IsFiniteSet(S \ {a})
  BY OneLess
<1>4. SumFunctionOnSet(f, S) = f[a] + SumFunctionOnSet(f, S \ {a})
  BY <1>2, SumTakesOut
<1>5. SumFunctionOnSet(g, S) = v + SumFunctionOnSet(g, S \ {a})
  <2>1. g[a] = v
    OBVIOUS
  <2> HIDE DEF g
  <2> QED
    BY <1>2, <2>1, SumTakesOut
<1>6. SumFunctionOnSet(g, S \ {a}) = SumFunctionOnSet(f, S \ {a})
  <2>1. \A x \in S \ {a} : g[x] = f[x]
    OBVIOUS
  <2> HIDE DEF g
  <2> QED
    BY <1>3, <2>1, SumSame
<1>7. SumFunctionOnSet(f, S \ {a}) \in Nat
  BY <1>2, <1>3, SumType
<1> HIDE DEF g
<1>8. SumFunction(f) \in Nat /\ SumFunction(g) + f[a] = SumFunction(f) + v
  BY <1>1, <1>2, <1>4, <1>5, <1>6, <1>7
<1> QED
  BY <1>8 DEF g

\* A counter goes up by one: so does the sum.
THEOREM SumIncrement ==
  ASSUME NEW S, IsFiniteSet(S), NEW f \in [S -> Nat], NEW a \in S
  PROVE  /\ SumFunction(f) \in Nat
         /\ SumFunction([f EXCEPT ![a] = @ + 1]) = SumFunction(f) + 1
<1> DEFINE v == f[a] + 1
           g == [f EXCEPT ![a] = v]
<1>1. f[a] \in Nat /\ v \in Nat /\ v = f[a] + 1
  OBVIOUS
<1>2. g = [f EXCEPT ![a] = @ + 1] /\ g \in [S -> Nat]
  OBVIOUS
<1>3. SumFunction(f) \in Nat /\ SumFunction(g) + f[a] = SumFunction(f) + v
  <2>1. v \in Nat
    BY <1>1
  <2> HIDE DEF v
  <2>2. \A w \in Nat : /\ SumFunction(f) \in Nat
                      /\ SumFunction([f EXCEPT ![a] = w]) + f[a] = SumFunction(f) + w
    BY SumExcept
  <2> QED
    BY <2>1, <2>2
<1> HIDE DEF g, v
<1>4. SumFunction(g) \in Nat
  BY <1>2, SumFunctionType
<1>5. SumFunction(g) = SumFunction(f) + 1
  BY <1>1, <1>3, <1>4
<1> QED
  BY <1>2, <1>3, <1>5

\* All counters at zero.
THEOREM SumOfZeros ==
  ASSUME NEW S, IsFiniteSet(S)
  PROVE  SumFunction([x \in S |-> 0]) = 0
<1> DEFINE f == [x \in S |-> 0]
           X == {n \in Nat : \A s \in SUBSET S : Cardinality(s) <= n => SumFunctionOnSet(f, s) = 0}
<1>0. \A s \in SUBSET S : IsFiniteSet(s) /\ Cardinality(s) \in Nat
  BY FS_Subset, FS_CardinalityType
<1>1. 0 \in X
  <2>1. \A s \in SUBSET S : Cardinality(s) <= 0 => s = {}
    BY <1>0, FS_EmptySet
  <2> QED
    BY <2>1, SumOfNone
<1>2. ASSUME NEW n \in Nat, n \in X PROVE n + 1 \in X
  <2>1. ASSUME NEW s \in SUBSET S, Cardinality(s) <= n + 1, s # {} PROVE SumFunctionOnSet(f, s) = 0
    <3>1. Some(s) \in s /\ f[Some(s)] = 0 /\ s \ {Some(s)} \in SUBSET S
      BY <2>1, SomeIsIn
    <3>2. Cardinality(s \ {Some(s)}) \in Nat /\ Cardinality(s) = Cardinality(s \ {Some(s)}) + 1
      BY <1>0, <3>1, OneLess
    <3>3. SumFunctionOnSet(f, s \ {Some(s)}) = 0
      BY <1>2, <2>1, <3>1, <3>2
    <3>4. SumFunctionOnSet(f, s) = f[Some(s)] + SumFunctionOnSet(f, s \ {Some(s)})
      BY <1>0, <2>1, SumUnfolds
    <3> QED
      BY <3>1, <3>3, <3>4
  <2> QED
    BY <2>1, SumOfNone
<1> HIDE DEF X
<1>3. Cardinality(S) \in X
  BY <1>0, <1>1, <1>2, Induction
<1>4. SumFunctionOnSet(f, S) = 0
  BY <1>0, <1>3 DEF X
<1>5. SumFunction(f) = SumFunctionOnSet(f, S)
  BY DEF SumFunction, SumFunctionOnSet, FoldFunction
<1> QED
  BY <1>4, <1>5

-----------------------------------------------------------------------------
(* Sums over intervals, which are sums along a sequence. *)

\* The sum of a row of numbers is a number.
THEOREM SumOnInterval ==
  ASSUME NEW f, NEW a \in Int, NEW b \in Int, \A x \in a..b : f[x] \in Nat
  PROVE  SumFunctionOnSet(f, a..b) \in Nat
<1>1. IsFiniteSet(a..b)
  BY FS_Interval
<1> QED
  BY <1>1, SumType

\* An interval without its last number.
THEOREM SumFromTheTop ==
  ASSUME NEW f, NEW a \in Int, NEW b \in Int, a <= b, \A x \in a..b : f[x] \in Nat
  PROVE  SumFunctionOnSet(f, a..b) = SumFunctionOnSet(f, a..(b - 1)) + f[b]
<1>1. IsFiniteSet(a..b) /\ b \in a..b /\ (a..b) \ {b} = a..(b - 1)
  BY FS_Interval
<1>2. SumFunctionOnSet(f, a..b) = f[b] + SumFunctionOnSet(f, a..(b - 1))
  BY <1>1, SumTakesOut
<1>3. SumFunctionOnSet(f, a..(b - 1)) \in Nat /\ f[b] \in Nat
  <2>1. b - 1 \in Int /\ \A x \in a..(b - 1) : f[x] \in Nat
    OBVIOUS
  <2> QED
    BY <2>1, SumOnInterval
<1> QED
  BY <1>2, <1>3

\* An interval without its first number.
THEOREM SumFromTheBottom ==
  ASSUME NEW f, NEW a \in Int, NEW b \in Int, a <= b, \A x \in a..b : f[x] \in Nat
  PROVE  SumFunctionOnSet(f, a..b) = f[a] + SumFunctionOnSet(f, (a + 1)..b)
<1>1. IsFiniteSet(a..b) /\ a \in a..b /\ (a..b) \ {a} = (a + 1)..b
  BY FS_Interval
<1> QED
  BY <1>1, SumTakesOut

\* Behind place d, g has the first n values of f.
Shifts(g, d, f, n) == \A x \in 1..n : f[x] \in Nat /\ g[d + x] = f[x]

\* The same values at other places in a row.
THEOREM SumShift ==
  ASSUME NEW f, NEW g, NEW d \in Int, NEW n \in Nat, Shifts(g, d, f, n)
  PROVE  SumFunctionOnSet(g, (d + 1)..(d + n)) = SumFunctionOnSet(f, 1..n)
<1> DEFINE X == {m \in Nat : m <= n =>
                   SumFunctionOnSet(g, (d + 1)..(d + m)) = SumFunctionOnSet(f, 1..m)}
<1>1. 0 \in X
  <2>1. (d + 1)..(d + 0) = {} /\ 1..0 = {}
    OBVIOUS
  <2>2. SumFunctionOnSet(g, (d + 1)..(d + 0)) = 0 /\ SumFunctionOnSet(f, 1..0) = 0
    BY <2>1, SumOfNone
  <2> QED
    BY <2>2
<1>2. ASSUME NEW m \in Nat, m \in X, m + 1 <= n
      PROVE  SumFunctionOnSet(g, (d + 1)..(d + (m + 1))) = SumFunctionOnSet(f, 1..(m + 1))
  <2>1. \A x \in 1..(m + 1) : f[x] \in Nat /\ g[d + x] = f[x]
    BY <1>2 DEF Shifts
  <2>2. \A y \in (d + 1)..(d + (m + 1)) : g[y] \in Nat
    <3> TAKE y \in (d + 1)..(d + (m + 1))
    <3>1. y - d \in 1..(m + 1) /\ d + (y - d) = y
      OBVIOUS
    <3> QED
      BY <2>1, <3>1
  <2>3. SumFunctionOnSet(f, 1..(m + 1)) = SumFunctionOnSet(f, 1..((m + 1) - 1)) + f[m + 1]
    BY <2>1, SumFromTheTop
  <2>4. SumFunctionOnSet(g, (d + 1)..(d + (m + 1)))
          = SumFunctionOnSet(g, (d + 1)..((d + (m + 1)) - 1)) + g[d + (m + 1)]
    <3>1. d + 1 \in Int /\ d + (m + 1) \in Int /\ d + 1 <= d + (m + 1)
      OBVIOUS
    <3> QED
      BY <2>2, <3>1, SumFromTheTop
  <2>5. (m + 1) - 1 = m /\ (d + (m + 1)) - 1 = d + m /\ g[d + (m + 1)] = f[m + 1] /\ m <= n
    BY <1>2, <2>1
  <2>6. SumFunctionOnSet(g, (d + 1)..(d + m)) = SumFunctionOnSet(f, 1..m)
    BY <1>2, <2>5
  <2> QED
    BY <2>3, <2>4, <2>5, <2>6
<1>3. \A m \in Nat : m \in X => m + 1 \in X
  BY <1>2
<1> HIDE DEF X
<1>4. n \in X
  BY <1>1, <1>3, Induction
<1> QED
  BY <1>4 DEF X

\* An interval in two.
THEOREM SumInTwo ==
  ASSUME NEW f, NEW m \in Nat, NEW n \in Nat, \A x \in 1..(m + n) : f[x] \in Nat
  PROVE  SumFunctionOnSet(f, 1..(m + n))
           = SumFunctionOnSet(f, 1..m) + SumFunctionOnSet(f, (m + 1)..(m + n))
<1> DEFINE X == {k \in Nat : k <= n =>
                   SumFunctionOnSet(f, 1..(m + k))
                     = SumFunctionOnSet(f, 1..m) + SumFunctionOnSet(f, (m + 1)..(m + k))}
<1>0. SumFunctionOnSet(f, 1..m) \in Nat
  <2>1. 1 \in Int /\ m \in Int /\ \A x \in 1..m : f[x] \in Nat
    OBVIOUS
  <2> QED
    BY <2>1, SumOnInterval
<1>1. 0 \in X
  <2>1. (m + 1)..(m + 0) = {} /\ 1..(m + 0) = 1..m
    OBVIOUS
  <2>2. SumFunctionOnSet(f, (m + 1)..(m + 0)) = 0
    BY <2>1, SumOfNone
  <2> QED
    BY <1>0, <2>1, <2>2
<1>2. ASSUME NEW k \in Nat, k \in X, k + 1 <= n
      PROVE  SumFunctionOnSet(f, 1..(m + (k + 1)))
               = SumFunctionOnSet(f, 1..m) + SumFunctionOnSet(f, (m + 1)..(m + (k + 1)))
  <2>1. \A x \in 1..(m + (k + 1)) : f[x] \in Nat
    BY <1>2
  <2>2. SumFunctionOnSet(f, 1..(m + (k + 1)))
          = SumFunctionOnSet(f, 1..((m + (k + 1)) - 1)) + f[m + (k + 1)]
    BY <2>1, SumFromTheTop
  <2>3. SumFunctionOnSet(f, (m + 1)..(m + (k + 1)))
          = SumFunctionOnSet(f, (m + 1)..((m + (k + 1)) - 1)) + f[m + (k + 1)]
    <3>1. /\ m + 1 \in Int /\ m + (k + 1) \in Int /\ m + 1 <= m + (k + 1)
          /\ \A x \in (m + 1)..(m + (k + 1)) : f[x] \in Nat
      BY <2>1
    <3> QED
      BY <3>1, SumFromTheTop
  <2>4. (m + (k + 1)) - 1 = m + k /\ f[m + (k + 1)] \in Nat
    BY <2>1
  <2>5. SumFunctionOnSet(f, 1..(m + k))
          = SumFunctionOnSet(f, 1..m) + SumFunctionOnSet(f, (m + 1)..(m + k))
    BY <1>2
  <2>6. SumFunctionOnSet(f, (m + 1)..(m + k)) \in Nat
    <3>1. m + 1 \in Int /\ m + k \in Int /\ \A x \in (m + 1)..(m + k) : f[x] \in Nat
      BY <2>1
    <3> QED
      BY <3>1, SumOnInterval
  <2> QED
    BY <1>0, <2>2, <2>3, <2>4, <2>5, <2>6
<1>3. \A k \in Nat : k \in X => k + 1 \in X
  BY <1>2
<1> HIDE DEF X
<1>4. n \in X
  BY <1>1, <1>3, Induction
<1> QED
  BY <1>4 DEF X

\* The sum of a sequence: that of the values at its places.
THEOREM SumOfRow ==
  ASSUME NEW q \in Seq(Nat)
  PROVE  /\ SumFunction(q) = SumFunctionOnSet(q, 1..Len(q))
         /\ SumFunction(q) \in Nat
<1>1. DOMAIN q = 1..Len(q) /\ Len(q) \in Nat /\ \A x \in 1..Len(q) : q[x] \in Nat
  OBVIOUS
<1>2. SumFunction(q) = SumFunctionOnSet(q, 1..Len(q))
  BY <1>1 DEF SumFunction, SumFunctionOnSet, FoldFunction
<1>3. SumFunctionOnSet(q, 1..Len(q)) \in Nat
  BY <1>1, SumOnInterval
<1> QED
  BY <1>2, <1>3

\* Two rows of values, one behind the other.
LEMMA SumOfTwoRows ==
  ASSUME NEW a, NEW b, NEW q, NEW m \in Nat, NEW n \in Nat,
         Shifts(q, 0, a, m), Shifts(q, m, b, n)
  PROVE  SumFunctionOnSet(q, 1..(m + n)) = SumFunctionOnSet(a, 1..m) + SumFunctionOnSet(b, 1..n)
<1>0. /\ \A x \in 1..m : a[x] \in Nat /\ q[x] = a[x]
      /\ \A x \in 1..n : b[x] \in Nat /\ q[m + x] = b[x]
  BY DEF Shifts
<1>1. \A x \in 1..(m + n) : q[x] \in Nat
  <2> TAKE x \in 1..(m + n)
  <2>1. CASE x \in 1..m
    BY <1>0, <2>1
  <2>2. CASE x \notin 1..m
    <3>1. x - m \in 1..n /\ m + (x - m) = x
      BY <2>2
    <3> QED
      BY <1>0, <3>1
  <2> QED
    BY <2>1, <2>2
<1>2. SumFunctionOnSet(q, 1..(m + n))
        = SumFunctionOnSet(q, 1..m) + SumFunctionOnSet(q, (m + 1)..(m + n))
  <2>1. \A j, k \in Nat : (\A x \in 1..(j + k) : q[x] \in Nat) =>
            SumFunctionOnSet(q, 1..(j + k))
              = SumFunctionOnSet(q, 1..j) + SumFunctionOnSet(q, (j + 1)..(j + k))
    BY SumInTwo
  <2> QED
    BY <1>1, <2>1
<1>3. SumFunctionOnSet(q, 1..m) = SumFunctionOnSet(a, 1..m)
  <2>1. IsFiniteSet(1..m)
    BY FS_Interval
  <2> QED
    BY <1>0, <2>1, SumSame
<1>4. SumFunctionOnSet(q, (m + 1)..(m + n)) = SumFunctionOnSet(b, 1..n)
  <2>1. m \in Int
    OBVIOUS
  <2> QED
    BY <2>1, SumShift
<1> QED
  BY <1>2, <1>3, <1>4

\* One sequence behind another.
THEOREM SumOfConcat ==
  ASSUME NEW a \in Seq(Nat), NEW b \in Seq(Nat)
  PROVE  SumFunction(a \o b) = SumFunction(a) + SumFunction(b)
<1>1. /\ Len(a) \in Nat /\ Len(b) \in Nat /\ a \o b \in Seq(Nat)
      /\ Len(a \o b) = Len(a) + Len(b)
  OBVIOUS
<1>2. \A x \in 1..Len(a) : a[x] \in Nat /\ (a \o b)[x] = a[x]
  OBVIOUS
<1>3. \A x \in 1..Len(b) : b[x] \in Nat /\ (a \o b)[Len(a) + x] = b[x]
  OBVIOUS
<1>4. SumFunctionOnSet(a \o b, 1..(Len(a) + Len(b)))
        = SumFunctionOnSet(a, 1..Len(a)) + SumFunctionOnSet(b, 1..Len(b))
  <2> DEFINE q == a \o b  m == Len(a)  n == Len(b)
  <2> HIDE DEF q, m, n
  <2>1. SumFunctionOnSet(q, 1..(m + n)) = SumFunctionOnSet(a, 1..m) + SumFunctionOnSet(b, 1..n)
    <3>1. /\ m \in Nat /\ n \in Nat
          /\ \A x \in 1..m : a[x] \in Nat /\ q[x] = a[x]
          /\ \A x \in 1..n : b[x] \in Nat /\ q[m + x] = b[x]
      BY <1>1, <1>2, <1>3 DEF q, m, n
    <3>2. Shifts(q, 0, a, m) /\ Shifts(q, m, b, n)
      BY <3>1 DEF Shifts
    <3> QED
      BY <3>1, <3>2, SumOfTwoRows
  <2> QED
    BY <2>1 DEF q, m, n
<1> QED
  BY <1>1, <1>4, SumOfRow

\* A sequence of one.
THEOREM SumOfSingleton ==
  ASSUME NEW n \in Nat
  PROVE  SumFunction(<<n>>) = n
<1> DEFINE q == <<n>>
<1>1. q \in Seq(Nat) /\ Len(q) = 1 /\ q[1] = n
  OBVIOUS
<1> HIDE DEF q
<1>2. SumFunction(q) = SumFunctionOnSet(q, 1..1)
  BY <1>1, SumOfRow
<1>3. SumFunctionOnSet(q, 1..1) = SumFunctionOnSet(q, 1..(1 - 1)) + q[1]
  <2>1. 1 \in Int /\ 1 <= 1 /\ \A x \in 1..1 : q[x] \in Nat
    BY <1>1
  <2> QED
    BY <2>1, SumFromTheTop
<1>4. SumFunctionOnSet(q, 1..(1 - 1)) = 0
  <2>1. 1..(1 - 1) = {}
    OBVIOUS
  <2> QED
    BY <2>1, SumOfNone
<1> QED
  BY <1>1, <1>2, <1>3, <1>4 DEF q
============================================================================
