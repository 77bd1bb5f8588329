---------------------------- MODULE RouterProofs ----------------------------
(***************************************************************************)
(* What every plan of the router holds, for any number of backends, any    *)
(* weights, chains and groups: the properties of the run Router_plans.     *)
(*                                                                         *)
(* The argument has two halves.  TypeOK is inductive.  Given TypeOK, each  *)
(* property is a fact about BuildOrder and Appended, which are sets of     *)
(* bijections constrained by an ordering of their elements: Arranged and   *)
(* Chains unfold the two, Planned puts them together.                      *)
(*                                                                         *)
(* That this is what plan()'s loop leaves is an induction over the places  *)
(* of the fallbacks (slots) in the order in which the loop comes to them:  *)
(* Ends is what is left after some of them, OneSlotMore says how one more  *)
(* changes it, OneCandidateMore a whole chain, OneTurn one turn of the     *)
(* loop.                                                                   *)
(***************************************************************************)
EXTENDS Router, SumTheorems, FunctionTheorems

\* Each action keeps every variable in its type.
THEOREM TypeCorrect == Spec => []TypeOK
<1>1. Init => TypeOK
  BY BackendsAssumption, MaxAgeAssumption, RecoverTimesAssumption DEF Init, TypeOK, AtLeastZero
<1>2. TypeOK /\ [Next]_vars => TypeOK'
  <2> SUFFICES ASSUME TypeOK, [Next]_vars PROVE TypeOK'
    OBVIOUS
  <2> USE DEF TypeOK, registry, breakers, vars
  <2>1. ASSUME NEW b \in Backends, AddBackend(b) PROVE TypeOK'
    BY <2>1, BackendsAssumption, MaxAgeAssumption DEF AddBackend, AtLeastZero
  <2>2. ASSUME NEW g \in Groups, AddRoute(g) PROVE TypeOK'
    BY <2>2, GroupsAssumption DEF AddRoute
  <2>3. ASSUME NEW m \in Model, MarkUnavailable(m) PROVE TypeOK'
    BY <2>3, MaxAgeAssumption DEF MarkUnavailable, Trip
  <2>4. ASSUME NEW m \in Model, MarkAvailable(m) PROVE TypeOK'
    BY <2>4, MaxAgeAssumption DEF MarkAvailable, Reset
  <2>5. ASSUME NEW ms \in RecoverTimes, SetRecoverAfterMs(ms) PROVE TypeOK'
    BY <2>5 DEF SetRecoverAfterMs
  <2>6. CASE Tick
    <3>1. age' \in [Model -> 0..MaxAge]
      BY <2>6, MaxAgeAssumption DEF Tick, Older
    <3> QED
      BY <2>6, <3>1 DEF Tick, Older
  <2>7. CASE UNCHANGED vars
    BY <2>7
  <2> QED
    BY <2>1, <2>2, <2>3, <2>4, <2>5, <2>6, <2>7 DEF Next
<1> QED
  BY <1>1, <1>2, PTL DEF Spec

-----------------------------------------------------------------------------
\* The set of a sequence's elements is finite, and made of its elements.
LEMMA Elements ==
  ASSUME NEW S, NEW q \in Seq(S)
  PROVE  /\ ToSet(q) \subseteq S
         /\ IsFiniteSet(ToSet(q))
         /\ DOMAIN q = 1..Len(q) /\ Len(q) \in Nat
         /\ IsFiniteSet(DOMAIN q) /\ Cardinality(DOMAIN q) = Len(q)
<1>1. DOMAIN q = 1..Len(q) /\ Len(q) \in Nat /\ q \in [1..Len(q) -> S]
  BY LenProperties
<1>2. IsFiniteSet(1..Len(q)) /\ Cardinality(1..Len(q)) = Len(q)
  <2>1. 1 \in Int /\ Len(q) \in Int
    BY <1>1
  <2>2. /\ IsFiniteSet(1..Len(q))
        /\ Cardinality(1..Len(q)) = IF 1 > Len(q) THEN 0 ELSE Len(q) - 1 + 1
    BY <2>1, FS_Interval
  <2> QED
    BY <1>1, <2>2
<1>3. q \in Surjection(1..Len(q), ToSet(q))
  BY <1>1 DEF Surjection, ToSet
<1>4. IsFiniteSet(ToSet(q))
  BY <1>2, <1>3, FS_Surjection
<1> QED
  BY <1>1, <1>2, <1>4 DEF ToSet

\* A group's or a single model's entries, and the positions they are split into.
LEMMA Split ==
  ASSUME TypeOK, NEW list \in Seq(Model)
  PROVE  /\ EligibleAt(list) \subseteq DOMAIN list
         /\ DownAt(list) \subseteq DOMAIN list
         /\ EligibleAt(list) \cap DownAt(list) = {}
         /\ \A i \in DOMAIN list : list[i] \in Model
         /\ \A i \in DOMAIN list :
              list[i] \in backends <=> i \in EligibleAt(list) \cup DownAt(list)
         /\ IsFiniteSet(EligibleAt(list) \cup DownAt(list))
<1>1. /\ EligibleAt(list) \subseteq DOMAIN list
      /\ DownAt(list) \subseteq DOMAIN list
      /\ EligibleAt(list) \cap DownAt(list) = {}
      /\ \A i \in DOMAIN list :
           list[i] \in backends <=> i \in EligibleAt(list) \cup DownAt(list)
  BY DEF EligibleAt, DownAt
<1>2. \A i \in DOMAIN list : list[i] \in Model
  BY Elements, ElementOfSeq
<1>3. IsFiniteSet(DOMAIN list)
  BY Elements
<1>4. EligibleAt(list) \cup DownAt(list) \in SUBSET DOMAIN list
  BY <1>1
<1>5. IsFiniteSet(EligibleAt(list) \cup DownAt(list))
  BY <1>3, <1>4, FS_Subset
<1> QED
  BY <1>1, <1>2, <1>5

\* The order is the list read at the positions o, which are the kept ones, each
\* once, none before one that goes before it.
Reading(list, order, p, n, o) ==
    /\ n <= Reserved(list) /\ Reserved(list) \in Nat
    /\ IsInjective(o)
    /\ \A i \in Kept(list, p) : \E x \in 1..n : o[x] = i
    /\ \A x, y \in 1..n : GoesBefore(list, p, o[x], o[y]) => x < y
    /\ order = [x \in 1..n |-> list[o[x]]]

\* Every order buildOrderLocked may return is such a reading.
LEMMA Arranged ==
  ASSUME TypeOK, NEW list \in Seq(Model), NEW order \in BuildOrder(list)
  PROVE  \E p \in Primaries(list), n \in Nat : \E o \in [1..n -> Kept(list, p)] :
           Reading(list, order, p, n, o)
<1>1. PICK p \in Primaries(list) : \E o \in Arrangements(list, p) :
         order = [x \in DOMAIN o |-> list[o[x]]]
  BY DEF BuildOrder
<1>2. PICK o \in Arrangements(list, p) : order = [x \in DOMAIN o |-> list[o[x]]]
  BY <1>1
<1> DEFINE n == Cardinality(Kept(list, p))
<1>3. Kept(list, p) \in SUBSET (EligibleAt(list) \cup DownAt(list))
  BY DEF Kept
<1>4. IsFiniteSet(EligibleAt(list) \cup DownAt(list))
  BY Split
<1>5. n \in Nat /\ n <= Reserved(list) /\ Reserved(list) \in Nat
  BY <1>3, <1>4, FS_Subset, FS_CardinalityType DEF Reserved
<1>6. o \in Bijection(1..n, Kept(list, p))
  BY DEF Arrangements
<1>7. o \in [1..n -> Kept(list, p)] /\ DOMAIN o = 1..n
  BY <1>6 DEF Bijection, Injection
<1>8. IsInjective(o) /\ \A i \in Kept(list, p) : \E x \in 1..n : o[x] = i
  BY <1>6 DEF Bijection, Injection, Surjection
<1>9. \A x, y \in 1..n : GoesBefore(list, p, o[x], o[y]) => x < y
  BY DEF Arrangements
<1>10. order = [x \in 1..n |-> list[o[x]]]
  BY <1>2, <1>7
<1> HIDE DEF n
<1> QED
  BY <1>5, <1>7, <1>8, <1>9, <1>10 DEF Reading

\* An order names the registered members, all of them, and fits its buffer.
LEMMA OrderType ==
  ASSUME TypeOK, NEW list \in Seq(Model), NEW order \in BuildOrder(list)
  PROVE  /\ order \in Seq(Model)
         /\ Len(order) <= Reserved(list) /\ Reserved(list) \in Nat
         /\ ToSet(order) = Registered(list)
<1>1. PICK p \in Primaries(list), n \in Nat : \E o \in [1..n -> Kept(list, p)] :
         Reading(list, order, p, n, o)
  BY Arranged
<1>2. PICK o \in [1..n -> Kept(list, p)] : Reading(list, order, p, n, o)
  BY <1>1
<1>3. \A i \in Kept(list, p) : i \in DOMAIN list /\ list[i] \in Model \cap backends
  BY Split DEF Kept
<1>4. order \in [1..n -> Model]
  BY <1>2, <1>3 DEF Reading
<1>5. order \in Seq(Model) /\ Len(order) = n
  BY <1>4
<1>6. \A x \in 1..n : order[x] \in Registered(list)
  BY <1>2, <1>3 DEF Reading, Registered, ToSet
<1>7. ASSUME NEW m \in Registered(list)
      PROVE  m \in ToSet(order)
  <2>1. PICK i \in EligibleAt(list) \cup DownAt(list) : list[i] = m
    BY Split DEF Registered, ToSet
  <2>2. PICK k \in Kept(list, p) : list[k] = m
    <3>1. CASE i \in Kept(list, p)
      BY <2>1, <3>1
    <3>2. CASE i \notin Kept(list, p)
      BY <2>1, <3>2 DEF Kept, Primaries
    <3> QED
      BY <3>1, <3>2
  <2> QED
    BY <1>2, <1>4, <2>2 DEF Reading, ToSet
<1>8. ToSet(order) \subseteq Registered(list)
  BY <1>4, <1>6 DEF ToSet
<1>9. ToSet(order) = Registered(list)
  BY <1>7, <1>8
<1> QED
  BY <1>2, <1>5, <1>9 DEF Reading

\* What the chains add is finite, and each name of it is appended once.
LEMMA Chains ==
  ASSUME TypeOK, NEW order \in Seq(Model), NEW K \in SUBSET DOMAIN order,
         NEW e \in Appended(order, K)
  PROVE  /\ e \in Seq(Model)
         /\ ToSet(e) = Chained(order, K)
         /\ IsInjective(e)
<1> DEFINE chain == [k \in K |-> ToSet(fallback[order[k]])]
           n == Cardinality(Chained(order, K))
<1>1. \A k \in K : fallback[order[k]] \in Seq(Model)
  BY Elements, ElementOfSeq DEF TypeOK
<1>2. \A k \in K : chain[k] \subseteq Model /\ IsFiniteSet(chain[k])
  BY <1>1, Elements
<1>3. IsFiniteSet(K)
  BY Elements, FS_Subset
<1>4. chain \in Surjection(K, Range(chain))
  BY DEF Surjection, Range
<1>5. IsFiniteSet(Range(chain))
  BY <1>3, <1>4, FS_Surjection
<1>6. \A T \in Range(chain) : IsFiniteSet(T) /\ T \subseteq Model
  BY <1>2 DEF Range
<1>7. IsFiniteSet(UNION Range(chain))
  BY <1>5, <1>6, FS_UNION
<1>8. Chained(order, K) = (UNION Range(chain)) \ ToSet(order)
  BY DEF Chained, Range
<1>9. Chained(order, K) \subseteq Model /\ IsFiniteSet(Chained(order, K))
  BY <1>6, <1>7, <1>8, FS_Difference
<1>10. n \in Nat
  BY <1>9, FS_CardinalityType
<1>11. e \in Bijection(1..n, Chained(order, K))
  BY DEF Appended
<1> HIDE DEF n, chain
<1>12. /\ e \in [1..n -> Chained(order, K)] /\ IsInjective(e)
       /\ \A f \in Chained(order, K) : \E x \in 1..n : e[x] = f
  BY <1>11 DEF Bijection, Injection, Surjection
<1>13. e \in [1..n -> Model]
  BY <1>9, <1>12
<1>14. e \in Seq(Model)
  BY <1>10, <1>13
<1>15. ToSet(e) = Chained(order, K)
  BY <1>12 DEF ToSet
<1> QED
  BY <1>12, <1>14, <1>15

\* Two vectors, one behind the other.
LEMMA Joined ==
  ASSUME NEW order \in Seq(Model), NEW e \in Seq(Model)
  PROVE  /\ order \o e \in Seq(Model)
         /\ Len(order \o e) = Len(order) + Len(e)
         /\ ToSet(order \o e) = ToSet(order) \cup ToSet(e)
<1>1. /\ Len(order) \in Nat /\ DOMAIN order = 1..Len(order)
      /\ Len(e) \in Nat /\ DOMAIN e = 1..Len(e)
  BY Elements
<1> DEFINE p == order \o e
<1>2. /\ p \in Seq(Model)
      /\ Len(p) = Len(order) + Len(e)
      /\ DOMAIN p = 1..(Len(order) + Len(e))
      /\ \A x \in 1..Len(order) : p[x] = order[x]
      /\ \A x \in 1..Len(e) : p[Len(order) + x] = e[x]
  BY <1>1, ConcatProperties
<1> HIDE DEF p
<1>3. ToSet(p) = ToSet(order) \cup ToSet(e)
  <2>1. \A x \in DOMAIN p : p[x] \in ToSet(order) \cup ToSet(e)
    <3> TAKE x \in DOMAIN p
    <3>1. CASE x <= Len(order)
      BY <1>1, <1>2, <3>1 DEF ToSet
    <3>2. CASE x > Len(order)
      <4>1. x - Len(order) \in 1..Len(e) /\ Len(order) + (x - Len(order)) = x
        BY <1>1, <1>2, <3>2
      <4>2. p[x] = e[x - Len(order)]
        BY <1>2, <4>1
      <4> QED
        BY <1>1, <4>1, <4>2 DEF ToSet
    <3> QED
      BY <1>1, <1>2, <3>1, <3>2
  <2>2. \A x \in DOMAIN order : order[x] \in ToSet(p)
    BY <1>1, <1>2 DEF ToSet
  <2>3. \A x \in DOMAIN e : e[x] \in ToSet(p)
    <3> TAKE x \in DOMAIN e
    <3>1. Len(order) + x \in DOMAIN p /\ p[Len(order) + x] = e[x]
      BY <1>1, <1>2
    <3> QED
      BY <3>1 DEF ToSet
  <2> QED
    BY <2>1, <2>2, <2>3 DEF ToSet
<1> QED
  BY <1>2, <1>3 DEF p

\* The plan p of a group is an order of its members followed by what the
\* chains of some candidates add.
Parts(list, p, order, e) ==
    /\ \E K \in Reads(order, Reserved(list)) : e \in Appended(order, K)
    /\ list \in Seq(Model) /\ order \in Seq(Model) /\ e \in Seq(Model) /\ p \in Seq(Model)
    /\ ToSet(order) = Registered(list)
    /\ Len(order) \in Nat /\ Len(e) \in Nat /\ Len(p) = Len(order) + Len(e)
    /\ DOMAIN p = 1..(Len(order) + Len(e))
    /\ \A x \in 1..Len(order) : p[x] = order[x]
    /\ \A x \in 1..Len(e) : p[Len(order) + x] = e[x]
    /\ ToSet(p) = ToSet(order) \cup ToSet(e)
    /\ ToSet(e) \cap ToSet(order) = {}

\* Every plan has such parts.
LEMMA Planned ==
  ASSUME TypeOK, NEW name \in Model, NEW p \in Plans(name)
  PROVE  \E order \in BuildOrder(Members(name)), e \in Seq(Model) :
            Parts(Members(name), p, order, e)
<1>1. Members(name) \in Seq(Model)
  BY DEF TypeOK, Members
<1>2. PICK order \in BuildOrder(Members(name)) :
         p \in {order \o e : e \in UNION {Appended(order, K) :
                                K \in Reads(order, Reserved(Members(name)))}}
  BY DEF Plans
<1>3. PICK K \in Reads(order, Reserved(Members(name))) :
         \E e \in Appended(order, K) : p = order \o e
  BY <1>2
<1>4. PICK e \in Appended(order, K) : p = order \o e
  BY <1>3
<1>5. order \in Seq(Model) /\ ToSet(order) = Registered(Members(name))
  BY <1>1, OrderType
<1>6. K \in SUBSET DOMAIN order
  BY DEF Reads
<1>7. e \in Seq(Model) /\ ToSet(e) = Chained(order, K)
  BY <1>5, <1>6, Chains
<1>8. ToSet(e) \cap ToSet(order) = {}
  BY <1>7 DEF Chained
<1>9. /\ Len(order) \in Nat /\ DOMAIN order = 1..Len(order)
      /\ Len(e) \in Nat /\ DOMAIN e = 1..Len(e)
  BY <1>5, <1>7, Elements
<1>10. /\ p \in Seq(Model)
       /\ Len(p) = Len(order) + Len(e)
       /\ DOMAIN p = 1..(Len(order) + Len(e))
       /\ \A x \in 1..Len(order) : p[x] = order[x]
       /\ \A x \in 1..Len(e) : p[Len(order) + x] = e[x]
  BY <1>4, <1>5, <1>7, <1>9, ConcatProperties
<1>11. ToSet(p) = ToSet(order) \cup ToSet(e)
  BY <1>4, <1>5, <1>7, Joined
<1> QED
  BY <1>1, <1>3, <1>4, <1>5, <1>7, <1>8, <1>9, <1>10, <1>11 DEF Parts

-----------------------------------------------------------------------------
\* The primary's position goes before every other.
LEMMA FirstOfOrder ==
  ASSUME TypeOK, NEW list \in Seq(Model), NEW order \in BuildOrder(list),
         NEW m \in Registered(list), Eligible(m)
  PROVE  /\ 1 \in DOMAIN order
         /\ order[1] \in Registered(list) /\ Eligible(order[1])
<1>1. PICK p \in Primaries(list), n \in Nat : \E o \in [1..n -> Kept(list, p)] :
         Reading(list, order, p, n, o)
  BY Arranged
<1>2. PICK o \in [1..n -> Kept(list, p)] : Reading(list, order, p, n, o)
  BY <1>1
<1>3. p \in EligibleAt(list) /\ p \in Kept(list, p)
  <2>1. \E i \in DOMAIN list : list[i] = m
    BY DEF Registered, ToSet
  <2>2. EligibleAt(list) # {}
    BY <2>1 DEF EligibleAt, Registered
  <2> QED
    BY <2>2 DEF Primaries, Kept
<1>4. PICK x \in 1..n : o[x] = p
  BY <1>2, <1>3 DEF Reading
<1>5. 1 \in 1..n
  BY <1>4
<1>6. o[1] = p
  <2>1. ~ GoesBefore(list, p, o[x], o[1])
    BY <1>2, <1>4, <1>5 DEF Reading
  <2> QED
    BY <1>4, <2>1 DEF GoesBefore
<1>7. order[1] = list[p] /\ 1 \in DOMAIN order
  BY <1>2, <1>5, <1>6 DEF Reading
<1> QED
  BY <1>3, <1>7 DEF EligibleAt, Registered, ToSet

\* While a member may get traffic, every plan starts with one that may.
THEOREM FirstCorrect == Spec => []FirstIsEligible
<1>1. TypeOK => FirstIsEligible
  <2> SUFFICES ASSUME TypeOK, NEW name \in Model,
                      NEW m \in Registered(Members(name)), Eligible(m),
                      NEW p \in Plans(name)
               PROVE  /\ p # <<>>
                      /\ Head(p) \in Registered(Members(name)) /\ Eligible(Head(p))
    BY DEF FirstIsEligible
  <2>1. PICK order \in BuildOrder(Members(name)), e \in Seq(Model) : Parts(Members(name), p, order, e)
    BY Planned
  <2> USE DEF Parts
  <2>2. 1 \in DOMAIN order /\ order[1] \in Registered(Members(name)) /\ Eligible(order[1])
    BY <2>1, FirstOfOrder
  <2>3. Len(order) \in Nat /\ Len(order) >= 1
    BY <2>1, <2>2, LenProperties
  <2>4. p[1] = order[1] /\ p # <<>> /\ Head(p) = p[1]
    BY <2>1, <2>3, HeadTailProperties
  <2> QED
    BY <2>2, <2>4
<1> QED
  BY <1>1, TypeCorrect, PTL

-----------------------------------------------------------------------------
\* Types are all it takes: a plan starts with an arrangement of the members, and
\* an arrangement is a bijection (Router.cc:91-160).
LEMMA MembersAreTried == TypeOK => EveryMemberIsTried
<1> SUFFICES ASSUME TypeOK, NEW name \in Model, NEW p \in Plans(name)
             PROVE  /\ Registered(Members(name)) \subseteq ToSet(p)
                    /\ Registered(Members(name)) = {} => p = <<>>
  BY DEF EveryMemberIsTried
<1>1. PICK order \in BuildOrder(Members(name)), e \in Seq(Model) : Parts(Members(name), p, order, e)
  BY Planned
<1> USE DEF Parts
<1>2. ASSUME Registered(Members(name)) = {}
      PROVE  p = <<>>
  <2>1. PICK K \in Reads(order, Reserved(Members(name))) : e \in Appended(order, K)
    BY <1>1
  <2>2. DOMAIN order = {}
    <3>1. \A i \in DOMAIN order : order[i] \in ToSet(order)
      BY DEF ToSet
    <3> QED
      BY <1>1, <1>2, <3>1
  <2>3. K = {}
    BY <2>2 DEF Reads
  <2>4. ToSet(e) = {}
    <3>1. ToSet(e) = Chained(order, K)
      BY <1>1, <2>1, <2>3, Chains
    <3> QED
      BY <2>3, <3>1 DEF Chained
  <2>5. DOMAIN p = {} /\ DOMAIN p = 1..Len(p) /\ Len(p) \in Nat
    BY <1>1, <1>2, <2>4, Elements DEF ToSet
  <2> QED
    BY <1>1, <2>5, EmptySeq
<1> QED
  BY <1>1, <1>2

\* Every plan names every registered member of its group.
THEOREM MembersCorrect == Spec => []EveryMemberIsTried
BY MembersAreTried, TypeCorrect, PTL

\* A plan leaves its group only for the chains of its members.
THEOREM ChainsCorrect == Spec => []ChainsAreNotFollowed
<1>1. TypeOK => ChainsAreNotFollowed
  <2> SUFFICES ASSUME TypeOK, NEW name \in Model, NEW p \in Plans(name),
                      NEW f \in ToSet(p), f \notin Registered(Members(name))
               PROVE  \E m \in Registered(Members(name)) : f \in ToSet(fallback[m])
    BY DEF ChainsAreNotFollowed
  <2>1. PICK order \in BuildOrder(Members(name)), e \in Seq(Model) : Parts(Members(name), p, order, e)
    BY Planned
  <2> USE DEF Parts
  <2>2. PICK K \in Reads(order, Reserved(Members(name))) : e \in Appended(order, K)
    BY <2>1
  <2>3. K \in SUBSET DOMAIN order
    BY DEF Reads
  <2>4. f \in Chained(order, K)
    BY <2>1, <2>2, <2>3, Chains
  <2>5. PICK k \in K : f \in ToSet(fallback[order[k]])
    BY <2>4 DEF Chained
  <2>6. order[k] \in Registered(Members(name))
    BY <2>1, <2>3 DEF ToSet
  <2> QED
    BY <2>5, <2>6
<1> QED
  BY <1>1, TypeCorrect, PTL

-----------------------------------------------------------------------------
\* The chain of the first candidate is read before the vector can have moved:
\* the order alone fits the buffer.
THEOREM FirstChainCorrect == Spec => []FirstChainIsKept
<1>1. TypeOK => FirstChainIsKept
  <2> SUFFICES ASSUME TypeOK, NEW name \in Model, NEW p \in Plans(name), p # <<>>,
                      NEW f \in ToSet(fallback[Head(p)])
               PROVE  f \in ToSet(p)
    BY DEF FirstChainIsKept
  <2> DEFINE list == Members(name)
  <2>1. PICK order \in BuildOrder(list), e \in Seq(Model) : Parts(list, p, order, e)
    BY Planned
  <2> USE DEF Parts
  <2> HIDE DEF list
  <2>2. PICK K \in Reads(order, Reserved(list)) : e \in Appended(order, K)
    BY <2>1
  <2>3. K \in SUBSET DOMAIN order /\ DOMAIN order = 1..Len(order)
    BY <2>1, Elements DEF Reads
  <2>4. ToSet(e) = Chained(order, K)
    BY <2>1, <2>2, <2>3, Chains
  <2>5. 1 \in DOMAIN order
    <3> SUFFICES ASSUME 1 \notin DOMAIN order PROVE FALSE
      OBVIOUS
    <3>1. K = {}
      BY <2>1, <2>3
    <3>2. ToSet(e) = {}
      BY <2>4, <3>1 DEF Chained
    <3>3. Len(e) = 0 /\ Len(order) = 0
      <4>1. DOMAIN e = 1..Len(e) /\ \A x \in DOMAIN e : e[x] \in ToSet(e)
        BY <2>1, Elements DEF ToSet
      <4> QED
        BY <2>1, <2>3, <3>2, <4>1
    <3> QED
      BY <2>1, <3>3, EmptySeq
  <2>6. 1 \in K
    <3> SUFFICES ASSUME 1 \notin K PROVE FALSE
      OBVIOUS
    <3>1. Len(order) + Cardinality(Chained(order, K \cap 1..(1 - 1))) > Reserved(list)
      BY <2>5 DEF Reads
    <3>2. K \cap 1..(1 - 1) = {}
      BY <2>3
    <3>3. Chained(order, K \cap 1..(1 - 1)) = {}
      BY <3>2 DEF Chained
    <3>4. Cardinality(Chained(order, K \cap 1..(1 - 1))) = 0
      BY <3>3, FS_EmptySet
    <3> QED
      BY <2>1, <3>1, <3>4, OrderType
  <2>7. Head(p) = order[1]
    BY <2>1, <2>3, <2>5, HeadTailProperties
  <2>8. f \in Chained(order, K) \cup ToSet(order)
    BY <2>6, <2>7 DEF Chained
  <2> QED
    BY <2>1, <2>4, <2>8
<1> QED
  BY <1>1, TypeCorrect, PTL

\* A plan has the whole chain of its first candidate, and no fallback that is
\* not on the chain of one of its members.
THEOREM FallbacksCorrect == Spec => []FallbacksAreTheMembersOwn
BY FirstChainCorrect, ChainsCorrect, PTL DEF FallbacksAreTheMembersOwn

-----------------------------------------------------------------------------
\* Two positions of an order cannot be out of order.
LEMMA OrderInOrder ==
  ASSUME TypeOK, NEW list \in Seq(Model), NEW order \in BuildOrder(list),
         NEW x \in DOMAIN order, NEW y \in DOMAIN order, x < y
  PROVE  /\ Eligible(order[y]) => Eligible(order[x])
         /\ x > 1 /\ Eligible(order[y]) => weight[order[x]] >= weight[order[y]]
<1>1. PICK p \in Primaries(list), n \in Nat : \E o \in [1..n -> Kept(list, p)] :
         Reading(list, order, p, n, o)
  BY Arranged
<1>2. PICK o \in [1..n -> Kept(list, p)] : Reading(list, order, p, n, o)
  BY <1>1
<1>3. /\ x \in 1..n /\ y \in 1..n /\ o[x] # o[y]
      /\ order[x] = list[o[x]] /\ order[y] = list[o[y]]
  BY <1>2 DEF Reading, IsInjective
<1>4. ~ GoesBefore(list, p, o[y], o[x])
  BY <1>2, <1>3 DEF Reading
<1>5. o[x] \in EligibleAt(list) \cup DownAt(list) /\ o[y] \in EligibleAt(list) \cup DownAt(list)
  BY <1>3 DEF Kept
<1>6. \A i \in EligibleAt(list) \cup DownAt(list) :
        /\ list[i] \in Model
        /\ i \in EligibleAt(list) <=> Eligible(list[i])
  BY Split DEF EligibleAt, DownAt
<1>7. ASSUME Eligible(order[y]) PROVE Eligible(order[x])
  BY <1>3, <1>4, <1>5, <1>6, <1>7 DEF GoesBefore
<1>8. ASSUME x > 1, Eligible(order[y]) PROVE weight[order[x]] >= weight[order[y]]
  <2>1. o[x] \in EligibleAt(list) /\ o[y] \in EligibleAt(list)
    BY <1>3, <1>5, <1>6, <1>7, <1>8
  <2>2. o[y] # p
    BY <1>3, <1>4 DEF GoesBefore
  <2>3. o[x] # p
    <3> SUFFICES ASSUME o[x] = p PROVE FALSE
      OBVIOUS
    <3>1. 1 \in 1..n /\ o[1] # o[x]
      BY <1>2, <1>3, <1>8 DEF Reading, IsInjective
    <3>2. GoesBefore(list, p, o[x], o[1])
      BY <3>1 DEF GoesBefore
    <3> QED
      BY <1>2, <1>3, <1>8, <3>1, <3>2 DEF Reading
  <2>4. ~ (weight[list[o[y]]] > weight[list[o[x]]])
    BY <1>4, <2>1, <2>2, <2>3 DEF GoesBefore
  <2>5. weight[list[o[x]]] \in Nat /\ weight[list[o[y]]] \in Nat
    BY <1>5, <1>6 DEF TypeOK
  <2> QED
    BY <1>3, <2>4, <2>5
<1> QED
  BY <1>7, <1>8

\* Members are tried the eligible first, and after the first by weight.
THEOREM OrderCorrect == Spec => []MembersInOrder
<1>1. TypeOK => MembersInOrder
  <2> SUFFICES ASSUME TypeOK, NEW name \in Model, NEW p \in Plans(name),
                      NEW x \in DOMAIN p, NEW y \in DOMAIN p, x < y,
                      {p[x], p[y]} \subseteq Registered(Members(name))
               PROVE  /\ Eligible(p[y]) => Eligible(p[x])
                      /\ x > 1 /\ Eligible(p[y]) => weight[p[x]] >= weight[p[y]]
    BY DEF MembersInOrder
  <2>1. PICK order \in BuildOrder(Members(name)), e \in Seq(Model) : Parts(Members(name), p, order, e)
    BY Planned
  <2> USE DEF Parts
  <2>2. DOMAIN order = 1..Len(order) /\ DOMAIN e = 1..Len(e)
    BY <2>1, Elements
  <2>3. ASSUME NEW z \in DOMAIN p, p[z] \in ToSet(order) PROVE z \in 1..Len(order)
    <3> SUFFICES ASSUME z > Len(order) PROVE FALSE
      BY <2>1
    <3>1. z - Len(order) \in 1..Len(e) /\ Len(order) + (z - Len(order)) = z
      BY <2>1
    <3>2. p[z] \in ToSet(e)
      BY <2>1, <2>2, <3>1 DEF ToSet
    <3> QED
      BY <2>1, <2>3, <3>2
  <2>4. x \in DOMAIN order /\ y \in DOMAIN order /\ p[x] = order[x] /\ p[y] = order[y]
    BY <2>1, <2>2, <2>3
  <2> QED
    BY <2>1, <2>4, OrderInOrder
<1> QED
  BY <1>1, TypeCorrect, PTL

\* Types are all it takes: positions of equal names would be two in one order, two
\* in one chain, or one in each (Router.cc:70, 141).
LEMMA NamesOnce == TypeOK => NothingIsTriedTwice
<1> SUFFICES ASSUME TypeOK, NEW name \in Model, IsInjective(Members(name)),
                    NEW p \in Plans(name), NEW x \in DOMAIN p, NEW y \in DOMAIN p,
                    p[x] = p[y]
             PROVE  x = y
  BY DEF NothingIsTriedTwice, IsInjective
<1>1. PICK order \in BuildOrder(Members(name)), e \in Seq(Model) : Parts(Members(name), p, order, e)
  BY Planned
<1> USE DEF Parts
<1>2. DOMAIN order = 1..Len(order) /\ DOMAIN e = 1..Len(e)
  BY <1>1, Elements
<1>3. IsInjective(e)
  BY <1>1, Chains DEF Reads
<1>4. IsInjective(order)
  <2>1. PICK q \in Primaries(Members(name)), n \in Nat :
           \E o \in [1..n -> Kept(Members(name), q)] : Reading(Members(name), order, q, n, o)
    BY <1>1, Arranged
  <2>2. PICK o \in [1..n -> Kept(Members(name), q)] : Reading(Members(name), order, q, n, o)
    BY <2>1
  <2>3. \A i \in Kept(Members(name), q) : i \in DOMAIN Members(name)
    BY DEF Kept, EligibleAt, DownAt
  <2> QED
    BY <2>2, <2>3 DEF Reading, IsInjective
<1>5. \A z \in DOMAIN p : z <= Len(order) <=> p[z] \in ToSet(order)
  <2> TAKE z \in DOMAIN p
  <2>1. CASE z <= Len(order)
    BY <1>1, <1>2, <2>1 DEF ToSet
  <2>2. CASE z > Len(order)
    <3>1. z - Len(order) \in 1..Len(e) /\ Len(order) + (z - Len(order)) = z
      BY <1>1, <2>2
    <3>2. p[z] \in ToSet(e)
      BY <1>1, <1>2, <3>1 DEF ToSet
    <3> QED
      BY <1>1, <2>2, <3>2
  <2> QED
    BY <1>1, <2>1, <2>2
<1>6. CASE x <= Len(order)
  BY <1>1, <1>2, <1>4, <1>5, <1>6 DEF IsInjective
<1>7. CASE x > Len(order)
  <2>1. y > Len(order)
    BY <1>1, <1>5, <1>7
  <2>2. /\ x - Len(order) \in DOMAIN e /\ p[x] = e[x - Len(order)]
        /\ y - Len(order) \in DOMAIN e /\ p[y] = e[y - Len(order)]
    <3>1. /\ x - Len(order) \in 1..Len(e) /\ Len(order) + (x - Len(order)) = x
          /\ y - Len(order) \in 1..Len(e) /\ Len(order) + (y - Len(order)) = y
      BY <1>1, <1>7, <2>1
    <3> QED
      BY <1>1, <1>2, <3>1
  <2>3. x - Len(order) = y - Len(order)
    BY <1>3, <2>2 DEF IsInjective
  <2> QED
    BY <1>1, <2>3
<1> QED
  BY <1>1, <1>6, <1>7

\* A group that lists no name twice gives plans that name nobody twice.
THEOREM OnceCorrect == Spec => []NothingIsTriedTwice
BY NamesOnce, TypeCorrect, PTL
-----------------------------------------------------------------------------
(* The loop over the growing vector. *)

\* A slot is the place of one fallback, on the chain of the candidate at slot[1].
Slots(order, K) == {s \in K \X Nat : s[2] \in DOMAIN fallback[order[s[1]]]}

NameAt(order, s) == fallback[order[s[1]]][s[2]]

NamesAt(order, P) == {NameAt(order, s) : s \in P}

\* The loop comes to slot s before it comes to slot t.
Sooner(s, t) == s[1] < t[1] \/ (s[1] = t[1] /\ s[2] < t[2])

\* MetBefore, on the slots P.
Meets(order, P, f, h) ==
    \E s \in P : /\ NameAt(order, s) = f
                 /\ \A t \in P : NameAt(order, t) = h => Sooner(s, t)

\* e is what the slots P add to order, in the order in which they are met.
Lists(order, P, e) ==
    /\ e \in Seq(Model) /\ IsInjective(e)
    /\ ToSet(e) = NamesAt(order, P) \ ToSet(order)
    /\ \A x, y \in DOMAIN e : Meets(order, P, e[x], e[y]) => x < y

\* The vectors the loop may have after the slots P.
Ends(order, P) == {order \o e : e \in {e \in Seq(Model) : Lists(order, P, e)}}

\* The slots there are.
SlotsOf(order) == Slots(order, DOMAIN order)

\* A slot has a name.
LEMMA SlotHasName ==
  ASSUME TypeOK, NEW order \in Seq(Model), NEW s \in SlotsOf(order)
  PROVE  /\ s[1] \in DOMAIN order /\ s[1] \in Nat /\ s[2] \in Nat
         /\ NameAt(order, s) \in Model
<1>1. s[1] \in DOMAIN order /\ s[2] \in DOMAIN fallback[order[s[1]]] /\ s[2] \in Nat
  BY DEF SlotsOf, Slots
<1>2. order[s[1]] \in Model /\ s[1] \in Nat
  BY <1>1, Elements
<1>3. fallback[order[s[1]]] \in Seq(Model)
  BY <1>2 DEF TypeOK
<1> QED
  BY <1>1, <1>2, <1>3, Elements DEF NameAt

\* Slot q comes later than all of P.
Later(P, q) == \A s \in P : Sooner(s, q)

\* A later slot changes nothing about the order in which the names of the others are
\* met.
LEMMA SameMeetings ==
  ASSUME TypeOK, NEW order \in Seq(Model), NEW P \in SUBSET SlotsOf(order),
         NEW q \in SlotsOf(order), Later(P, q), NEW f, NEW h \in NamesAt(order, P)
  PROVE  Meets(order, P \cup {q}, f, h) <=> Meets(order, P, f, h)
<1>1. ASSUME Meets(order, P, f, h) PROVE Meets(order, P \cup {q}, f, h)
  BY <1>1 DEF Meets, Later
<1>2. ASSUME Meets(order, P \cup {q}, f, h) PROVE Meets(order, P, f, h)
  <2>1. PICK s \in P \cup {q} :
           NameAt(order, s) = f /\ \A t \in P \cup {q} : NameAt(order, t) = h => Sooner(s, t)
    BY <1>2 DEF Meets
  <2>2. PICK t \in P : NameAt(order, t) = h
    BY DEF NamesAt
  <2>3. ~(Sooner(q, t) /\ Sooner(t, q))
    <3>1. q[1] \in Nat /\ q[2] \in Nat /\ t[1] \in Nat /\ t[2] \in Nat
      BY SlotHasName
    <3> QED
      BY <3>1 DEF Sooner
  <2>4. s # q
    BY <2>1, <2>2, <2>3 DEF Later
  <2> QED
    BY <2>1, <2>4 DEF Meets
<1> QED
  BY <1>1, <1>2

\* A slot is not sooner than itself.
LEMMA NotSoonerThanItself ==
  ASSUME TypeOK, NEW order \in Seq(Model), NEW q \in SlotsOf(order)
  PROVE  ~Sooner(q, q)
<1>1. q[1] \in Nat /\ q[2] \in Nat
  BY SlotHasName
<1> QED
  BY <1>1 DEF Sooner

\* The names of e, one more at its end.
LEMMA Appending ==
  ASSUME NEW e \in Seq(Model), NEW n \in Model
  PROVE  /\ Append(e, n) \in Seq(Model)
         /\ Len(e) \in Nat /\ DOMAIN e = 1..Len(e)
         /\ DOMAIN Append(e, n) = 1..(Len(e) + 1)
         /\ \A x \in 1..Len(e) : Append(e, n)[x] = e[x]
         /\ Append(e, n)[Len(e) + 1] = n
         /\ ToSet(Append(e, n)) = ToSet(e) \cup {n}
<1>1. /\ Append(e, n) \in Seq(Model)
      /\ Len(e) \in Nat /\ DOMAIN e = 1..Len(e)
      /\ DOMAIN Append(e, n) = 1..(Len(e) + 1)
      /\ \A x \in 1..Len(e) : Append(e, n)[x] = e[x]
      /\ Append(e, n)[Len(e) + 1] = n
  BY AppendProperties, LenProperties
<1>2. ToSet(Append(e, n)) = ToSet(e) \cup {n}
  BY <1>1 DEF ToSet
<1> QED
  BY <1>1, <1>2

\* A later slot whose name is there already adds nothing.
LEMMA OldName ==
  ASSUME TypeOK, NEW order \in Seq(Model), NEW P \in SUBSET SlotsOf(order),
         NEW q \in SlotsOf(order), Later(P, q), NEW e,
         NameAt(order, q) \in ToSet(order) \cup NamesAt(order, P)
  PROVE  Lists(order, P, e) <=> Lists(order, P \cup {q}, e)
<1>1. NamesAt(order, P \cup {q}) \ ToSet(order) = NamesAt(order, P) \ ToSet(order)
  BY DEF NamesAt
<1>2. ASSUME ToSet(e) = NamesAt(order, P) \ ToSet(order), NEW x \in DOMAIN e, NEW y \in DOMAIN e
      PROVE  Meets(order, P \cup {q}, e[x], e[y]) <=> Meets(order, P, e[x], e[y])
  <2>1. e[y] \in NamesAt(order, P)
    BY <1>2 DEF ToSet
  <2> QED
    BY <2>1, SameMeetings
<1> QED
  BY <1>1, <1>2 DEF Lists

\* A later slot with a new name adds it, at the end.
LEMMA NewName ==
  ASSUME TypeOK, NEW order \in Seq(Model), NEW P \in SUBSET SlotsOf(order),
         NEW q \in SlotsOf(order), Later(P, q), NEW e, Lists(order, P, e),
         NameAt(order, q) \notin ToSet(order), NameAt(order, q) \notin NamesAt(order, P)
  PROVE  Lists(order, P \cup {q}, Append(e, NameAt(order, q)))
<1> DEFINE n == NameAt(order, q)
           a == Append(e, n)
<1>1. e \in Seq(Model) /\ n \in Model
  BY SlotHasName DEF Lists
<1>2. /\ a \in Seq(Model)
      /\ Len(e) \in Nat /\ DOMAIN e = 1..Len(e)
      /\ DOMAIN a = 1..(Len(e) + 1)
      /\ \A x \in 1..Len(e) : a[x] = e[x]
      /\ a[Len(e) + 1] = n
      /\ ToSet(a) = ToSet(e) \cup {n}
  BY <1>1, Appending
<1>3. n \notin ToSet(order) /\ n \notin NamesAt(order, P) /\ n = NameAt(order, q)
  OBVIOUS
<1> HIDE DEF a, n
<1>4. \A x \in 1..Len(e) : a[x] \in ToSet(e) /\ a[x] \in NamesAt(order, P)
  BY <1>2 DEF Lists, ToSet
<1>5. n \notin ToSet(e)
  BY <1>3 DEF Lists
<1>6. ToSet(a) = NamesAt(order, P \cup {q}) \ ToSet(order)
  BY <1>2, <1>3 DEF Lists, NamesAt
<1>7. IsInjective(a)
  BY <1>2, <1>4, <1>5 DEF Lists, IsInjective
<1>8. ASSUME NEW x \in DOMAIN a, NEW y \in DOMAIN a, Meets(order, P \cup {q}, a[x], a[y])
      PROVE  x < y
  <2>1. PICK s \in P \cup {q} :
           NameAt(order, s) = a[x] /\ \A t \in P \cup {q} : NameAt(order, t) = a[y] => Sooner(s, t)
    BY <1>8 DEF Meets
  <2>2. CASE y = Len(e) + 1
    <3>1. Sooner(s, q)
      BY <1>2, <1>3, <2>1, <2>2
    <3>2. s \in P
      BY <2>1, <3>1, NotSoonerThanItself
    <3>3. a[x] # n
      BY <1>3, <2>1, <3>2 DEF NamesAt
    <3> QED
      BY <1>2, <2>2, <3>3
  <2>3. CASE y # Len(e) + 1
    <3>1. y \in 1..Len(e)
      BY <1>2, <2>3
    <3>2. Meets(order, P, a[x], a[y])
      BY <1>4, <1>8, <3>1, SameMeetings
    <3>3. a[x] \in NamesAt(order, P)
      BY <3>2 DEF Meets, NamesAt
    <3>4. x \in 1..Len(e)
      BY <1>2, <1>3, <3>3
    <3> QED
      BY <1>2, <3>1, <3>2, <3>4 DEF Lists
  <2> QED
    BY <2>2, <2>3
<1> QED
  BY <1>2, <1>6, <1>7, <1>8 DEF Lists, a, n

\* A later slot with a new name can only have added it at the end.
LEMMA NewNameIsLast ==
  ASSUME TypeOK, NEW order \in Seq(Model), NEW P \in SUBSET SlotsOf(order),
         NEW q \in SlotsOf(order), Later(P, q), NEW a \in Seq(Model), Lists(order, P \cup {q}, a),
         NameAt(order, q) \notin ToSet(order), NameAt(order, q) \notin NamesAt(order, P)
  PROVE  \E e \in Seq(Model) : Lists(order, P, e) /\ a = Append(e, NameAt(order, q))
<1> DEFINE n == NameAt(order, q)
           e == [x \in 1..(Len(a) - 1) |-> a[x]]
<1>1. /\ a \in Seq(Model) /\ IsInjective(a)
      /\ ToSet(a) = NamesAt(order, P \cup {q}) \ ToSet(order)
  BY DEF Lists
<1>2. Len(a) \in Nat /\ DOMAIN a = 1..Len(a) /\ \A x \in 1..Len(a) : a[x] \in Model
  BY <1>1, Elements, ElementOfSeq
<1>3. n \in ToSet(a) /\ n \in Model
  BY <1>1, SlotHasName DEF NamesAt
<1>4. PICK z \in 1..Len(a) : a[z] = n
  BY <1>2, <1>3 DEF ToSet
<1>5. ASSUME NEW x \in 1..Len(a), x # z PROVE x < z /\ a[x] \in NamesAt(order, P)
  <2>1. a[x] \in NamesAt(order, P \cup {q}) /\ a[x] # n
    BY <1>1, <1>2, <1>4, <1>5 DEF ToSet, IsInjective
  <2>2. PICK s \in P : NameAt(order, s) = a[x]
    BY <2>1 DEF NamesAt
  <2>3. \A t \in P \cup {q} : NameAt(order, t) = n => t = q
    BY DEF NamesAt
  <2>4. Meets(order, P \cup {q}, a[x], a[z])
    BY <1>4, <2>2, <2>3 DEF Meets, Later
  <2> QED
    BY <1>2, <2>2, <2>4 DEF Lists, NamesAt
<1>6. Len(a) \in Nat
  BY <1>2
<1>7. z = Len(a)
  <2>1. Len(a) \in 1..Len(a) /\ z \in Nat /\ z <= Len(a)
    BY <1>2, <1>4
  <2>2. Len(a) # z => Len(a) < z
    BY <1>5, <2>1
  <2> QED
    BY <1>6, <2>1, <2>2
<1>8. e \in Seq(Model) /\ Len(e) = Len(a) - 1 /\ \A x \in 1..(Len(a) - 1) : e[x] = a[x]
  <2>1. Len(a) - 1 \in Nat /\ e \in [1..(Len(a) - 1) -> Model]
    BY <1>2, <1>4
  <2> QED
    BY <2>1
<1>9. n \notin NamesAt(order, P) /\ n = NameAt(order, q) /\ n \notin ToSet(order)
  OBVIOUS
<1> HIDE DEF e, n
<1>10. /\ DOMAIN e = 1..(Len(a) - 1)
      /\ Append(e, n) \in Seq(Model) /\ DOMAIN Append(e, n) = 1..Len(a)
      /\ Len(Append(e, n)) = Len(a)
      /\ \A x \in 1..(Len(a) - 1) : Append(e, n)[x] = e[x]
      /\ Append(e, n)[Len(a)] = n
  <2>1. Len(e) + 1 = Len(a)
    BY <1>2, <1>8
  <2> QED
    BY <1>3, <1>8, <2>1, Appending, AppendProperties
<1>11. a = Append(e, n)
  <2>1. ASSUME NEW x \in 1..Len(a) PROVE a[x] = Append(e, n)[x]
    <3>1. x \in 1..(Len(a) - 1) \/ x = Len(a)
      BY <1>6
    <3>2. CASE x \in 1..(Len(a) - 1)
      BY <1>8, <1>10, <3>2
    <3>3. CASE x = Len(a)
      BY <1>4, <1>7, <1>10, <3>3
    <3> QED
      BY <3>1, <3>2, <3>3
  <2>2. Len(a) = Len(Append(e, n))
    BY <1>10
  <2> QED
    BY <1>1, <1>10, <2>1, <2>2, SeqEqual
<1>12. ToSet(e) = NamesAt(order, P) \ ToSet(order)
  <2>1. ToSet(e) = ToSet(a) \ {n}
    <3>1. \A x \in 1..(Len(a) - 1) : x \in 1..Len(a) /\ x # z
      <4>1. \A x \in 1..(Len(a) - 1) : x \in 1..Len(a) /\ x # Len(a)
        BY <1>6
      <4> QED
        BY <1>7, <4>1
    <3>2. \A x \in 1..(Len(a) - 1) : e[x] \in ToSet(a) /\ e[x] # n
      BY <1>2, <1>5, <1>8, <1>9, <3>1 DEF ToSet
    <3>3. ASSUME NEW x \in 1..Len(a), a[x] # n PROVE x \in 1..(Len(a) - 1) /\ e[x] = a[x]
      <4>1. x # Len(a)
        BY <1>4, <1>7, <3>3
      <4>2. x \in 1..(Len(a) - 1)
        BY <1>6, <4>1
      <4> QED
        BY <1>8, <4>2
    <3>4. ToSet(e) \subseteq ToSet(a) \ {n}
      BY <1>10, <3>2 DEF ToSet
    <3>5. ToSet(a) \ {n} \subseteq ToSet(e)
      BY <1>2, <1>10, <3>3 DEF ToSet
    <3> QED
      BY <3>4, <3>5
  <2> QED
    BY <1>1, <1>9, <2>1 DEF NamesAt
<1>13. IsInjective(e)
  <2>1. \A x \in 1..(Len(a) - 1) : x \in 1..Len(a)
    BY <1>2
  <2> QED
    BY <1>1, <1>2, <1>8, <1>10, <2>1 DEF IsInjective
<1>14. ASSUME NEW x \in DOMAIN e, NEW y \in DOMAIN e, Meets(order, P, e[x], e[y])
       PROVE  x < y
  <2>1. /\ x \in 1..(Len(a) - 1) /\ y \in 1..(Len(a) - 1)
        /\ x \in DOMAIN a /\ y \in DOMAIN a /\ y # Len(a) /\ y \in 1..Len(a)
    <3>1. x \in 1..(Len(a) - 1) /\ y \in 1..(Len(a) - 1)
      BY <1>10
    <3>2. x \in 1..Len(a) /\ y \in 1..Len(a) /\ y # Len(a)
      BY <1>6, <3>1
    <3> QED
      BY <1>2, <3>1, <3>2
  <2>2. e[x] = a[x] /\ e[y] = a[y] /\ y # z
    BY <1>7, <1>8, <2>1
  <2>3. Meets(order, P \cup {q}, a[x], a[y])
    BY <1>5, <1>14, <2>1, <2>2, SameMeetings
  <2> QED
    BY <2>1, <2>3 DEF Lists
<1>15. Lists(order, P, e)
  BY <1>8, <1>12, <1>13, <1>14 DEF Lists
<1> QED
  BY <1>8, <1>11, <1>15 DEF n

\* One slot more: its name goes to the end of each vector, but if it is there.
LEMMA OneSlotMore ==
  ASSUME TypeOK, NEW order \in Seq(Model), NEW P \in SUBSET SlotsOf(order),
         NEW q \in SlotsOf(order), Later(P, q)
  PROVE  Ends(order, P \cup {q}) = {WithFallback(o, NameAt(order, q)) : o \in Ends(order, P)}
<1> DEFINE n == NameAt(order, q)
<1>1. ASSUME NEW e \in Seq(Model), Lists(order, P, e)
      PROVE  n \in ToSet(order \o e) <=> n \in ToSet(order) \cup NamesAt(order, P)
  <2>1. ToSet(order \o e) = ToSet(order) \cup ToSet(e)
    BY Joined
  <2>2. ToSet(e) = NamesAt(order, P) \ ToSet(order)
    BY <1>1 DEF Lists
  <2> QED
    BY <2>1, <2>2
<1>2. CASE n \in ToSet(order) \cup NamesAt(order, P)
  <2>1. Ends(order, P \cup {q}) = Ends(order, P)
    BY <1>2, OldName DEF Ends
  <2>2. \A o \in Ends(order, P) : WithFallback(o, n) = o
    BY <1>1, <1>2 DEF Ends, WithFallback
  <2> HIDE DEF n
  <2> QED
    BY <2>1, <2>2 DEF n
<1>3. CASE ~(n \in ToSet(order) \cup NamesAt(order, P))
  <2>1. ASSUME NEW e \in Seq(Model) PROVE Append(order \o e, n) = order \o Append(e, n)
    <3>1. n \in Model /\ order \o e \in Seq(Model) /\ <<n>> \in Seq(Model)
      BY SlotHasName, Joined
    <3> HIDE DEF n
    <3>2. Append(order \o e, n) = (order \o e) \o <<n>> /\ Append(e, n) = e \o <<n>>
      BY <3>1, AppendIsConcat
    <3>3. (order \o e) \o <<n>> = order \o (e \o <<n>>)
      BY <3>1, ConcatAssociative
    <3> QED
      BY <3>2, <3>3
  <2>2. ASSUME NEW e \in Seq(Model), Lists(order, P, e)
        PROVE  WithFallback(order \o e, n) = order \o Append(e, n)
    BY <1>1, <1>3, <2>1, <2>2 DEF WithFallback
  <2>3. ASSUME NEW o \in Ends(order, P) PROVE WithFallback(o, n) \in Ends(order, P \cup {q})
    <3>1. PICK e \in Seq(Model) : Lists(order, P, e) /\ o = order \o e
      BY DEF Ends
    <3>2. Lists(order, P \cup {q}, Append(e, n)) /\ Append(e, n) \in Seq(Model)
      BY <1>3, <3>1, NewName, SlotHasName, Appending
    <3> QED
      BY <2>2, <3>1, <3>2 DEF Ends
  <2>4. ASSUME NEW b \in Ends(order, P \cup {q})
        PROVE  \E o \in Ends(order, P) : b = WithFallback(o, n)
    <3>1. PICK a \in Seq(Model) : Lists(order, P \cup {q}, a) /\ b = order \o a
      BY DEF Ends
    <3>2. n \notin ToSet(order) /\ n \notin NamesAt(order, P)
      BY <1>3
    <3>3. PICK e \in Seq(Model) : Lists(order, P, e) /\ a = Append(e, n)
      BY <3>1, <3>2, NewNameIsLast
    <3> QED
      BY <2>2, <3>1, <3>3 DEF Ends
  <2> HIDE DEF n
  <2>5. Ends(order, P \cup {q}) = {WithFallback(o, n) : o \in Ends(order, P)}
    BY <2>3, <2>4
  <2> QED
    BY <2>5 DEF n
<1> QED
  BY <1>2, <1>3

-----------------------------------------------------------------------------
\* u[x] is o after the first x fallbacks of m.
Unrolls(u, o, m) ==
    /\ u[0] = o
    /\ \A x \in 1..Len(fallback[m]) : u[x] = WithFallback(u[x - 1], fallback[m][x])
    /\ WithChain(o, m) = u[Len(fallback[m])]

\* A chain is appended fallback by fallback: the function in WithChain exists.
LEMMA ChainUnrolls ==
  ASSUME TypeOK, NEW o \in Seq(Model), NEW m \in Model
  PROVE  /\ \E u : Unrolls(u, o, m)
         /\ WithChain(o, m) \in Seq(Model)
<1> DEFINE n == Len(fallback[m])
           S == Seq(Model)
           step == [s \in (1..n) \X S |-> WithFallback(s[2], fallback[m][s[1]])]
           Is(u) == u = [x \in 0..n |-> IF x = 0 THEN o
                                        ELSE WithFallback(u[x - 1], fallback[m][x])]
           g == CHOOSE u : Is(u)
<1>1. n \in Nat /\ \A x \in 1..n : fallback[m][x] \in Model
  <2>1. fallback[m] \in Seq(Model)
    BY DEF TypeOK
  <2> QED
    BY <2>1, Elements, ElementOfSeq
<1>2. step \in [(1..n) \X S -> S]
  <2>1. ASSUME NEW x \in 1..n, NEW v \in S PROVE WithFallback(v, fallback[m][x]) \in S
    BY <1>1, AppendProperties DEF WithFallback
  <2> QED
    BY <2>1
<1>3. PICK f \in [0..n -> S] : Iterates(f, o, n, step)
  <2> HIDE DEF n, S, step
  <2>1. o \in S
    BY DEF S
  <2> QED
    BY <1>1, <1>2, <2>1, Iteration
<1>4. \A i \in 1..n : f[i] = WithFallback(f[i - 1], fallback[m][i])
  <2> TAKE i \in 1..n
  <2>1. i - 1 \in 0..n
    BY <1>1
  <2>2. <<i, f[i - 1]>> \in (1..n) \X S
    BY <1>3, <2>1
  <2> QED
    BY <1>3, <2>2 DEF Iterates
<1>5. Is(f)
  <2>1. f = [x \in 0..n |-> f[x]]
    BY <1>3
  <2>2. \A x \in 0..n : x # 0 => x \in 1..n
    BY <1>1
  <2> QED
    BY <1>3, <1>4, <2>1, <2>2 DEF Iterates
<1>6. Is(g)
  BY <1>5
<1>7. WithChain(o, m) = g[n]
  BY DEF WithChain
<1> HIDE DEF g, step
<1>8. /\ g[0] = o
      /\ \A x \in 1..n : g[x] = WithFallback(g[x - 1], fallback[m][x])
  <2>1. 0 \in 0..n /\ \A x \in 1..n : x \in 0..n /\ x # 0
    BY <1>1
  <2> QED
    BY <1>6, <2>1
<1>9. g[n] \in S
  <2> DEFINE X == {x \in Nat : x <= n => g[x] \in S}
  <2>1. 0 \in X
    BY <1>8
  <2>2. ASSUME NEW x \in Nat, x \in X PROVE x + 1 \in X
    <3> SUFFICES ASSUME x + 1 <= n PROVE g[x + 1] \in S
      OBVIOUS
    <3>1. x + 1 \in 1..n /\ x <= n /\ (x + 1) - 1 = x
      BY <1>1
    <3>2. g[x] \in S /\ fallback[m][x + 1] \in Model
      BY <1>1, <2>2, <3>1
    <3>3. g[x + 1] = WithFallback(g[x], fallback[m][x + 1])
      BY <1>8, <3>1
    <3> QED
      BY <3>2, <3>3, AppendProperties DEF WithFallback
  <2> HIDE DEF X
  <2>3. n \in X
    BY <1>1, <2>1, <2>2, Induction
  <2> QED
    BY <1>1, <2>3 DEF X
<1> QED
  BY <1>7, <1>8, <1>9 DEF Unrolls

\* Slots of the candidate at k, up to its fallback x, and those of K before it.
Partly(order, K, k, x) == Slots(order, K) \cup {<<k, y>> : y \in 1..x}

\* The next slot of a chain comes later than the earlier ones, and is a slot.
LEMMA NextSlot ==
  ASSUME TypeOK, NEW order \in Seq(Model), NEW K \in SUBSET DOMAIN order,
         NEW k \in DOMAIN order, \A j \in K : j < k,
         NEW x \in Nat, x < Len(fallback[order[k]])
  PROVE  /\ Partly(order, K, k, x) \in SUBSET SlotsOf(order)
         /\ <<k, x + 1>> \in SlotsOf(order)
         /\ Later(Partly(order, K, k, x), <<k, x + 1>>)
         /\ Partly(order, K, k, x + 1) = Partly(order, K, k, x) \cup {<<k, x + 1>>}
         /\ NameAt(order, <<k, x + 1>>) = fallback[order[k]][x + 1]
<1>1. fallback[order[k]] \in Seq(Model)
  BY Elements, ElementOfSeq DEF TypeOK
<1>2. /\ Len(fallback[order[k]]) \in Nat
      /\ DOMAIN fallback[order[k]] = 1..Len(fallback[order[k]])
  BY <1>1, Elements
<1>3. \A y \in 1..(x + 1) : y \in DOMAIN fallback[order[k]] /\ y \in Nat
  BY <1>2
<1>4. \A y \in 1..(x + 1) : <<k, y>> \in SlotsOf(order)
  BY <1>3 DEF SlotsOf, Slots
<1>5. (1..(x + 1)) = (1..x) \cup {x + 1} /\ x + 1 \in 1..(x + 1)
  OBVIOUS
<1>6. Slots(order, K) \subseteq SlotsOf(order)
  BY DEF Slots, SlotsOf
<1>7. ASSUME NEW s \in Partly(order, K, k, x) PROVE Sooner(s, <<k, x + 1>>)
  BY <1>7 DEF Partly, Slots, Sooner
<1> QED
  BY <1>4, <1>5, <1>6, <1>7 DEF Partly, Later, NameAt

\* One candidate more: its chain is appended to each vector.
LEMMA OneCandidateMore ==
  ASSUME TypeOK, NEW order \in Seq(Model), NEW K \in SUBSET DOMAIN order,
         NEW k \in DOMAIN order, \A j \in K : j < k
  PROVE  Ends(order, Slots(order, K \cup {k}))
            = {WithChain(o, order[k]) : o \in Ends(order, Slots(order, K))}
<1> DEFINE m == order[k]
           n == Len(fallback[m])
           O == Ends(order, Slots(order, K))
           U(o) == CHOOSE u : Unrolls(u, o, m)
           X == {x \in Nat : x <= n => Ends(order, Partly(order, K, k, x)) = {U(o)[x] : o \in O}}
<1>1. m \in Model /\ n \in Nat /\ DOMAIN fallback[m] = 1..n
  <2>1. m \in Model
    BY Elements, ElementOfSeq
  <2>2. fallback[m] \in Seq(Model)
    BY <2>1 DEF TypeOK
  <2> QED
    BY <2>1, <2>2, Elements
<1>2. ASSUME NEW o \in O PROVE Unrolls(U(o), o, m)
  <2>1. o \in Seq(Model)
    BY Joined DEF Ends
  <2> HIDE DEF m
  <2> QED
    BY <1>1, <2>1, ChainUnrolls
<1> HIDE DEF U
<1>3. Partly(order, K, k, 0) = Slots(order, K)
  BY DEF Partly
<1>4. Partly(order, K, k, n) = Slots(order, K \cup {k})
  <2>1. Slots(order, K \cup {k}) = Slots(order, K) \cup Slots(order, {k})
    BY DEF Slots
  <2>2. Slots(order, {k}) = {<<k, y>> : y \in 1..n}
    BY <1>1 DEF Slots
  <2> QED
    BY <2>1, <2>2 DEF Partly
<1>5. 0 \in X
  BY <1>2, <1>3 DEF Unrolls
<1>6. ASSUME NEW x \in Nat, x \in X PROVE x + 1 \in X
  <2> HIDE DEF O, n
  <2> SUFFICES ASSUME x + 1 <= n
               PROVE  Ends(order, Partly(order, K, k, x + 1)) = {U(o)[x + 1] : o \in O}
    OBVIOUS
  <2> USE DEF n
  <2>1. x < n /\ x <= n /\ x + 1 \in 1..n /\ (x + 1) - 1 = x
    BY <1>1
  <2>2. Ends(order, Partly(order, K, k, x)) = {U(o)[x] : o \in O}
    BY <1>6, <2>1
  <2>3. Ends(order, Partly(order, K, k, x + 1))
          = {WithFallback(b, fallback[m][x + 1]) : b \in Ends(order, Partly(order, K, k, x))}
    <3>1. /\ Partly(order, K, k, x) \in SUBSET SlotsOf(order)
          /\ <<k, x + 1>> \in SlotsOf(order)
          /\ Later(Partly(order, K, k, x), <<k, x + 1>>)
          /\ Partly(order, K, k, x + 1) = Partly(order, K, k, x) \cup {<<k, x + 1>>}
          /\ NameAt(order, <<k, x + 1>>) = fallback[m][x + 1]
      BY <2>1, NextSlot
    <3> DEFINE q == <<k, x + 1>>
    <3> HIDE DEF q
    <3>2. Ends(order, Partly(order, K, k, x) \cup {q})
            = {WithFallback(b, NameAt(order, q)) : b \in Ends(order, Partly(order, K, k, x))}
      BY <3>1, OneSlotMore DEF q
    <3> QED
      BY <3>1, <3>2 DEF q
  <2>4. \A o \in O : U(o)[x + 1] = WithFallback(U(o)[x], fallback[m][x + 1])
    BY <1>2, <2>1 DEF Unrolls
  <2> HIDE DEF O, U, m, n
  <2> QED
    BY <2>2, <2>3, <2>4
<1> HIDE DEF X
<1>7. n \in X
  BY <1>1, <1>5, <1>6, Induction
<1>8. Ends(order, Partly(order, K, k, n)) = {U(o)[n] : o \in O}
  <2> HIDE DEF n, O
  <2> QED
    BY <1>1, <1>7 DEF X
<1>9. \A o \in O : WithChain(o, m) = U(o)[n]
  BY <1>2 DEF Unrolls
<1> HIDE DEF U
<1> QED
  BY <1>4, <1>8, <1>9

\* The names at the slots of K are the names on their chains.
LEMMA NamesOnChains ==
  ASSUME TypeOK, NEW order \in Seq(Model), NEW K \in SUBSET DOMAIN order
  PROVE  NamesAt(order, Slots(order, K)) \ ToSet(order) = Chained(order, K)
<1>1. ASSUME NEW k \in K
      PROVE  fallback[order[k]] \in Seq(Model) /\ DOMAIN fallback[order[k]] \subseteq Nat
  <2>1. fallback[order[k]] \in Seq(Model)
    BY Elements, ElementOfSeq DEF TypeOK
  <2> QED
    BY <2>1, Elements
<1>2. NamesAt(order, Slots(order, K)) \subseteq UNION {ToSet(fallback[order[k]]) : k \in K}
  <2>1. ASSUME NEW s \in Slots(order, K)
        PROVE  \E k \in K : NameAt(order, s) \in ToSet(fallback[order[k]])
    <3>1. s[1] \in K /\ s[2] \in DOMAIN fallback[order[s[1]]]
      BY DEF Slots
    <3> QED
      BY <3>1 DEF NameAt, ToSet
  <2> QED
    BY <2>1 DEF NamesAt
<1>3. ASSUME NEW k \in K, NEW x \in DOMAIN fallback[order[k]]
      PROVE  fallback[order[k]][x] \in NamesAt(order, Slots(order, K))
  <2>1. <<k, x>> \in Slots(order, K)
    BY <1>1, <1>3 DEF Slots
  <2>2. NameAt(order, <<k, x>>) = fallback[order[k]][x]
    BY DEF NameAt
  <2> QED
    BY <2>1, <2>2 DEF NamesAt
<1>4. UNION {ToSet(fallback[order[k]]) : k \in K} \subseteq NamesAt(order, Slots(order, K))
  BY <1>3 DEF ToSet
<1> QED
  BY <1>2, <1>4 DEF Chained

\* What lists the slots of K has each name of their chains, so as many as there are.
LEMMA ListedNames ==
  ASSUME TypeOK, NEW order \in Seq(Model), NEW K \in SUBSET DOMAIN order, NEW e,
         Lists(order, Slots(order, K), e)
  PROVE  /\ e \in Bijection(1..Len(e), Chained(order, K))
         /\ Len(e) = Cardinality(Chained(order, K))
<1>1. e \in Seq(Model) /\ IsInjective(e) /\ ToSet(e) = Chained(order, K)
  BY NamesOnChains DEF Lists
<1>2. DOMAIN e = 1..Len(e) /\ Len(e) \in Nat
  BY <1>1, Elements
<1>3. e \in Bijection(1..Len(e), Chained(order, K))
  <2>1. e \in [1..Len(e) -> Chained(order, K)]
    BY <1>1, <1>2 DEF ToSet
  <2>2. \A t \in Chained(order, K) : \E s \in 1..Len(e) : e[s] = t
    BY <1>1, <1>2 DEF ToSet
  <2> QED
    BY <1>1, <1>2, <2>1, <2>2 DEF Bijection, Injection, Surjection, IsInjective
<1>4. IsFiniteSet(1..Len(e)) /\ Cardinality(1..Len(e)) = Len(e)
  BY <1>1, <1>2, Elements
<1>5. Cardinality(1..Len(e)) = Cardinality(Chained(order, K))
  BY <1>3, <1>4, FS_Bijection DEF ExistsBijection
<1> QED
  BY <1>3, <1>4, <1>5

\* MetBefore speaks of the same slots.
LEMMA MeetingsAgree ==
  ASSUME TypeOK, NEW order \in Seq(Model), NEW K \in SUBSET DOMAIN order, NEW f, NEW h
  PROVE  MetBefore(order, K, f, h) <=> Meets(order, Slots(order, K), f, h)
<1>1. ASSUME NEW k \in K, NEW x \in DOMAIN fallback[order[k]]
      PROVE  <<k, x>> \in Slots(order, K) /\ NameAt(order, <<k, x>>) = fallback[order[k]][x]
  <2>1. fallback[order[k]] \in Seq(Model)
    BY Elements, ElementOfSeq DEF TypeOK
  <2> QED
    BY <2>1, Elements DEF Slots, NameAt
<1>2. ASSUME MetBefore(order, K, f, h) PROVE Meets(order, Slots(order, K), f, h)
  <2>0. PICK k \in K : \E x \in DOMAIN fallback[order[k]] :
          /\ fallback[order[k]][x] = f
          /\ \A l \in K : \A y \in DOMAIN fallback[order[l]] :
                fallback[order[l]][y] = h => k < l \/ (k = l /\ x < y)
    BY <1>2 DEF MetBefore
  <2>1. PICK x \in DOMAIN fallback[order[k]] :
          /\ fallback[order[k]][x] = f
          /\ \A l \in K : \A y \in DOMAIN fallback[order[l]] :
                fallback[order[l]][y] = h => k < l \/ (k = l /\ x < y)
    BY <2>0
  <2>2. ASSUME NEW t \in Slots(order, K), NameAt(order, t) = h PROVE Sooner(<<k, x>>, t)
    <3>1. t[1] \in K /\ t[2] \in DOMAIN fallback[order[t[1]]] /\ fallback[order[t[1]]][t[2]] = h
      BY <2>2 DEF Slots, NameAt
    <3> QED
      BY <2>1, <3>1 DEF Sooner
  <2> QED
    BY <1>1, <2>1, <2>2 DEF Meets
<1>3. ASSUME Meets(order, Slots(order, K), f, h) PROVE MetBefore(order, K, f, h)
  <2>1. PICK s \in Slots(order, K) :
           NameAt(order, s) = f /\ \A t \in Slots(order, K) : NameAt(order, t) = h => Sooner(s, t)
    BY <1>3 DEF Meets
  <2>2. s[1] \in K /\ s[2] \in DOMAIN fallback[order[s[1]]] /\ fallback[order[s[1]]][s[2]] = f
    BY <2>1 DEF Slots, NameAt
  <2>3. ASSUME NEW l \in K, NEW y \in DOMAIN fallback[order[l]], fallback[order[l]][y] = h
        PROVE  s[1] < l \/ (s[1] = l /\ s[2] < y)
    <3>1. Sooner(s, <<l, y>>)
      BY <1>1, <2>1, <2>3
    <3> QED
      BY <3>1 DEF Sooner
  <2> QED
    BY <2>2, <2>3 DEF MetBefore
<1> QED
  BY <1>2, <1>3

\* The two descriptions of what the chains of the candidates at K add are one.
LEMMA AppendedIsListed ==
  ASSUME TypeOK, NEW order \in Seq(Model), NEW K \in SUBSET DOMAIN order
  PROVE  {order \o e : e \in Appended(order, K)} = Ends(order, Slots(order, K))
<1>1. ASSUME NEW e \in Appended(order, K)
      PROVE  e \in Seq(Model) /\ Lists(order, Slots(order, K), e)
  <2>1. e \in Seq(Model) /\ ToSet(e) = Chained(order, K) /\ IsInjective(e)
    BY Chains
  <2>2. \A x, y \in DOMAIN e : MetBefore(order, K, e[x], e[y]) => x < y
    BY DEF Appended
  <2> QED
    BY <2>1, <2>2, NamesOnChains, MeetingsAgree DEF Lists
<1>2. ASSUME NEW e \in Seq(Model), Lists(order, Slots(order, K), e)
      PROVE  e \in Appended(order, K)
  <2>1. e \in Bijection(1..Cardinality(Chained(order, K)), Chained(order, K))
    BY <1>2, ListedNames
  <2>2. \A x, y \in DOMAIN e : MetBefore(order, K, e[x], e[y]) => x < y
    BY <1>2, MeetingsAgree DEF Lists
  <2> QED
    BY <2>1, <2>2 DEF Appended
<1> QED
  BY <1>1, <1>2 DEF Ends

-----------------------------------------------------------------------------
\* u[k] is what may be left of order after its first k candidates.
UnrollsLoop(u, order, capacity) ==
    /\ u[0] = {order}
    /\ \A k \in 1..Len(order) :
          u[k] = {WithChain(o, order[k]) : o \in u[k - 1]}
                    \cup {o \in u[k - 1] : Len(o) > capacity}
    /\ LoopOver(order, capacity) = u[Len(order)]

\* The vectors are left candidate by candidate: the function in LoopOver exists.
LEMMA LoopUnrolls ==
  ASSUME TypeOK, NEW order \in Seq(Model), NEW capacity
  PROVE  \E u : UnrollsLoop(u, order, capacity)
<1> DEFINE n == Len(order)
           S == SUBSET Seq(Model)
           After(V, k) == {WithChain(o, order[k]) : o \in V} \cup {o \in V : Len(o) > capacity}
           step == [s \in (1..n) \X S |-> After(s[2], s[1])]
           Is(u) == u = [k \in 0..n |-> IF k = 0 THEN {order} ELSE After(u[k - 1], k)]
           g == CHOOSE u : Is(u)
<1>1. n \in Nat /\ \A k \in 1..n : order[k] \in Model
  BY Elements, ElementOfSeq
<1>2. step \in [(1..n) \X S -> S]
  <2>1. ASSUME NEW k \in 1..n, NEW V \in S PROVE After(V, k) \in S
    BY <1>1, ChainUnrolls
  <2> HIDE DEF After
  <2> QED
    BY <2>1
<1>3. PICK f \in [0..n -> S] : Iterates(f, {order}, n, step)
  <2> HIDE DEF n, step
  <2>1. {order} \in S
    OBVIOUS
  <2> HIDE DEF S
  <2> QED
    BY <1>1, <1>2, <2>1, Iteration
<1>4. \A i \in 1..n : f[i] = After(f[i - 1], i)
  <2> HIDE DEF After
  <2> TAKE i \in 1..n
  <2>1. i - 1 \in 0..n
    BY <1>1
  <2>2. <<i, f[i - 1]>> \in (1..n) \X S
    BY <1>3, <2>1
  <2> QED
    BY <1>3, <2>2 DEF Iterates
<1>5. Is(f)
  <2> HIDE DEF After
  <2>1. f = [k \in 0..n |-> f[k]]
    BY <1>3
  <2>2. \A k \in 0..n : k # 0 => k \in 1..n
    BY <1>1
  <2> QED
    BY <1>3, <1>4, <2>1, <2>2 DEF Iterates
<1>6. Is(g)
  <2> HIDE DEF Is
  <2> QED
    BY <1>5
<1>7. LoopOver(order, capacity) = g[n]
  BY DEF LoopOver
<1> HIDE DEF g, step
<1>8. g[0] = {order} /\ \A k \in 1..n : g[k] = After(g[k - 1], k)
  <2> HIDE DEF After
  <2>1. 0 \in 0..n /\ \A k \in 1..n : k \in 0..n /\ k # 0
    BY <1>1
  <2> QED
    BY <1>6, <2>1
<1> QED
  BY <1>7, <1>8 DEF UnrollsLoop

\* Reads, for the first k candidates.
ReadsTo(order, capacity, k) ==
    {K \in SUBSET (1..k) :
       \A j \in (1..k) \ K :
           Len(order) + Cardinality(Chained(order, K \cap 1..(j - 1))) > capacity}

\* One candidate more is read, or it is missed since the vector has moved.
LEMMA OneReadMore ==
  ASSUME NEW order \in Seq(Model), NEW capacity, NEW k \in Nat, k + 1 \in DOMAIN order,
         NEW K
  PROVE  K \in ReadsTo(order, capacity, k + 1) <=>
            \/ /\ k + 1 \in K
               /\ K \ {k + 1} \in ReadsTo(order, capacity, k)
            \/ /\ K \in ReadsTo(order, capacity, k)
               /\ Len(order) + Cardinality(Chained(order, K)) > capacity
<1> DEFINE Long(L) == Len(order) + Cardinality(Chained(order, L)) > capacity
<1>1. 1..(k + 1) = (1..k) \cup {k + 1} /\ k + 1 \notin 1..k
  OBVIOUS
<1>2. \A j \in 1..k : (K \ {k + 1}) \cap 1..(j - 1) = K \cap 1..(j - 1)
  OBVIOUS
<1>3. ReadsTo(order, capacity, k + 1)
        = {L \in SUBSET (1..(k + 1)) : \A j \in (1..(k + 1)) \ L : Long(L \cap 1..(j - 1))}
  BY DEF ReadsTo
<1>4. ReadsTo(order, capacity, k)
        = {L \in SUBSET (1..k) : \A j \in (1..k) \ L : Long(L \cap 1..(j - 1))}
  BY DEF ReadsTo
<1> HIDE DEF Long
<1>5. CASE k + 1 \in K
  BY <1>1, <1>2, <1>3, <1>4, <1>5
<1>6. CASE k + 1 \notin K
  <2>1. (k + 1) - 1 = k
    OBVIOUS
  <2>2. K \in SUBSET (1..k) => K \cap 1..((k + 1) - 1) = K
    BY <2>1
  <2>3. K \in SUBSET (1..k) <=> K \in SUBSET (1..(k + 1))
    BY <1>1, <1>6
  <2>4. (1..(k + 1)) \ K = ((1..k) \ K) \cup {k + 1}
    BY <1>1, <1>6
  <2>5. K \in ReadsTo(order, capacity, k + 1) <=>
           K \in SUBSET (1..k) /\ \A j \in ((1..k) \ K) \cup {k + 1} : Long(K \cap 1..(j - 1))
    BY <1>3, <2>3, <2>4
  <2>6. K \in ReadsTo(order, capacity, k + 1) <=>
           K \in ReadsTo(order, capacity, k) /\ Long(K)
    BY <1>4, <2>2, <2>5
  <2> QED
    BY <1>4, <1>6, <2>6 DEF Long
<1> QED
  BY <1>5, <1>6

\* What the slots of K add has the length that Reads takes it to have.
LEMMA EndLength ==
  ASSUME TypeOK, NEW order \in Seq(Model), NEW K \in SUBSET DOMAIN order,
         NEW o \in Ends(order, Slots(order, K))
  PROVE  Len(o) = Len(order) + Cardinality(Chained(order, K))
<1>1. PICK e \in Seq(Model) : Lists(order, Slots(order, K), e) /\ o = order \o e
  BY DEF Ends
<1>2. Len(o) = Len(order) + Len(e)
  BY <1>1, Joined
<1> QED
  BY <1>1, <1>2, ListedNames

\* No slot, nothing added.
LEMMA NoSlot ==
  ASSUME NEW order \in Seq(Model)
  PROVE  Ends(order, Slots(order, {})) = {order}
<1>1. Slots(order, {}) = {} /\ NamesAt(order, {}) = {}
  BY DEF Slots, NamesAt
<1>2. ASSUME NEW e \in Seq(Model), Lists(order, {}, e) PROVE e = <<>>
  <2>1. ToSet(e) = {}
    BY <1>1, <1>2 DEF Lists
  <2>2. DOMAIN e = {}
    BY <2>1 DEF ToSet
  <2>3. DOMAIN e = 1..Len(e) /\ Len(e) \in Nat
    BY Elements
  <2>4. Len(e) = 0
    <3>1. Len(e) # 0 => 1 \in 1..Len(e)
      BY <2>3
    <3> QED
      BY <2>2, <2>3, <3>1
  <2> QED
    BY <2>4, EmptySeq
<1>3. <<>> \in Seq(Model) /\ DOMAIN <<>> = {} /\ order \o <<>> = order
  BY ConcatEmptySeq
<1>4. Lists(order, {}, <<>>)
  BY <1>1, <1>3 DEF Lists, IsInjective, ToSet
<1> QED
  BY <1>1, <1>2, <1>3, <1>4 DEF Ends

\* The vectors the description allows after k candidates.
Described(order, capacity, k) ==
    UNION {Ends(order, Slots(order, K)) : K \in ReadsTo(order, capacity, k)}

\* One turn of the loop takes the description of k candidates to that of k + 1.
LEMMA OneTurn ==
  ASSUME TypeOK, NEW order \in Seq(Model), NEW capacity, NEW k \in Nat, k + 1 \in DOMAIN order
  PROVE  Described(order, capacity, k + 1)
            = {WithChain(o, order[k + 1]) : o \in Described(order, capacity, k)}
                 \cup {o \in Described(order, capacity, k) : Len(o) > capacity}
<1> DEFINE D == Described(order, capacity, k)
           E(K) == Ends(order, Slots(order, K))
           R(i) == ReadsTo(order, capacity, i)
<1>1. DOMAIN order = 1..Len(order) /\ Len(order) \in Nat
  BY Elements
<1>2. 1..k \subseteq DOMAIN order /\ k + 1 \notin 1..k /\ \A j \in 1..k : j < k + 1
  BY <1>1
<1>3. ASSUME NEW K \in R(k)
      PROVE  /\ K \in SUBSET DOMAIN order /\ k + 1 \notin K
             /\ E(K \cup {k + 1}) = {WithChain(o, order[k + 1]) : o \in E(K)}
             /\ \A o \in E(K) : Len(o) = Len(order) + Cardinality(Chained(order, K))
  <2>1. K \in SUBSET (1..k)
    BY DEF ReadsTo
  <2>2. K \in SUBSET DOMAIN order /\ k + 1 \notin K /\ \A j \in K : j < k + 1
    BY <1>2, <2>1
  <2> QED
    BY <2>2, OneCandidateMore, EndLength
<1>4. ASSUME NEW b \in Described(order, capacity, k + 1)
      PROVE  \/ \E o \in D : b = WithChain(o, order[k + 1])
             \/ b \in D /\ Len(b) > capacity
  <2>1. PICK K \in R(k + 1) : b \in E(K)
    BY DEF Described
  <2>2. CASE k + 1 \in K /\ K \ {k + 1} \in R(k)
    <3> DEFINE L == K \ {k + 1}
    <3>1. L \in R(k) /\ K = L \cup {k + 1}
      BY <2>2
    <3> HIDE DEF L
    <3>2. PICK o \in E(L) : b = WithChain(o, order[k + 1])
      <4>1. b \in {WithChain(o, order[k + 1]) : o \in E(L)}
        BY <1>3, <2>1, <3>1
      <4> QED
        BY <4>1
    <3>3. o \in D
      BY <3>1, <3>2 DEF Described
    <3> QED
      BY <3>2, <3>3
  <2>3. CASE K \in R(k) /\ Len(order) + Cardinality(Chained(order, K)) > capacity
    <3>1. Len(b) > capacity
      BY <1>3, <2>1, <2>3
    <3>2. b \in D
      BY <2>1, <2>3 DEF Described
    <3> QED
      BY <3>1, <3>2
  <2> QED
    BY <2>1, <2>2, <2>3, OneReadMore
<1>5. ASSUME NEW o \in D
      PROVE  /\ WithChain(o, order[k + 1]) \in Described(order, capacity, k + 1)
             /\ Len(o) > capacity => o \in Described(order, capacity, k + 1)
  <2>1. PICK K \in R(k) : o \in E(K)
    BY DEF Described
  <2>2. K \cup {k + 1} \in R(k + 1)
    <3>1. (K \cup {k + 1}) \ {k + 1} = K /\ k + 1 \in K \cup {k + 1}
      BY <1>3
    <3> QED
      BY <3>1, OneReadMore
  <2>3. WithChain(o, order[k + 1]) \in E(K \cup {k + 1})
    <3>1. WithChain(o, order[k + 1]) \in {WithChain(v, order[k + 1]) : v \in E(K)}
      BY <2>1
    <3> QED
      BY <1>3, <3>1
  <2>4. ASSUME Len(o) > capacity PROVE K \in R(k + 1)
    <3>1. Len(order) + Cardinality(Chained(order, K)) > capacity
      BY <1>3, <2>1, <2>4
    <3> QED
      BY <3>1, OneReadMore
  <2> QED
    BY <2>1, <2>2, <2>3, <2>4 DEF Described
<1> HIDE DEF D
<1>6. Described(order, capacity, k + 1)
        = {WithChain(o, order[k + 1]) : o \in D} \cup {o \in D : Len(o) > capacity}
  BY <1>4, <1>5
<1> QED
  BY <1>6 DEF D

\* So the loop leaves what Reads and Appended describe.
LEMMA LoopLeaves ==
  ASSUME TypeOK, NEW order \in Seq(Model), NEW capacity
  PROVE  LoopOver(order, capacity)
            = {order \o e : e \in UNION {Appended(order, K) : K \in Reads(order, capacity)}}
<1> DEFINE n == Len(order)
           X(u) == {k \in Nat : k <= n => u[k] = Described(order, capacity, k)}
<1>1. n \in Nat /\ DOMAIN order = 1..n
  BY Elements
<1>2. PICK u : UnrollsLoop(u, order, capacity)
  BY LoopUnrolls
<1>3. 0 \in X(u)
  <2>1. ReadsTo(order, capacity, 0) = {{}}
    <3>1. 1..0 = {}
      OBVIOUS
    <3> QED
      BY <3>1 DEF ReadsTo
  <2>2. Described(order, capacity, 0) = Ends(order, Slots(order, {}))
    BY <2>1 DEF Described
  <2> QED
    BY <1>2, <2>2, NoSlot DEF UnrollsLoop
<1>4. ASSUME NEW k \in Nat, k \in X(u) PROVE k + 1 \in X(u)
  <2> SUFFICES ASSUME k + 1 <= n PROVE u[k + 1] = Described(order, capacity, k + 1)
    OBVIOUS
  <2>1. k + 1 \in 1..n /\ k <= n /\ (k + 1) - 1 = k
    BY <1>1
  <2>2. u[k] = Described(order, capacity, k)
    BY <1>4, <2>1
  <2>3. u[k + 1] = {WithChain(o, order[k + 1]) : o \in u[k]}
                      \cup {o \in u[k] : Len(o) > capacity}
    <3>1. u[k + 1] = {WithChain(o, order[k + 1]) : o \in u[(k + 1) - 1]}
                        \cup {o \in u[(k + 1) - 1] : Len(o) > capacity}
      BY <1>2, <2>1 DEF UnrollsLoop
    <3> QED
      BY <2>1, <3>1
  <2>4. k + 1 \in DOMAIN order
    BY <1>1, <2>1
  <2> QED
    BY <2>2, <2>3, <2>4, OneTurn
<1> HIDE DEF X
<1>5. n \in X(u)
  BY <1>1, <1>3, <1>4, Induction
<1>6. LoopOver(order, capacity) = Described(order, capacity, n)
  BY <1>1, <1>2, <1>5 DEF X, UnrollsLoop
<1>7. ReadsTo(order, capacity, n) = Reads(order, capacity)
  BY <1>1 DEF ReadsTo, Reads
<1>8. ASSUME NEW K \in Reads(order, capacity)
      PROVE  Ends(order, Slots(order, K)) = {order \o e : e \in Appended(order, K)}
  BY AppendedIsListed DEF Reads
<1>9. Described(order, capacity, n)
        = UNION {{order \o e : e \in Appended(order, K)} : K \in Reads(order, capacity)}
  BY <1>7, <1>8 DEF Described
<1>10. UNION {{order \o e : e \in Appended(order, K)} : K \in Reads(order, capacity)}
         = {order \o e : e \in UNION {Appended(order, K) : K \in Reads(order, capacity)}}
  <2> DEFINE Q == Reads(order, capacity)
             A(K) == Appended(order, K)
             J(e) == order \o e
  <2> HIDE DEF Q, A, J
  <2>1. UNION {{J(e) : e \in A(K)} : K \in Q} = {J(e) : e \in UNION {A(K) : K \in Q}}
    OBVIOUS
  <2> QED
    BY <2>1 DEF Q, A, J
<1> QED
  BY <1>6, <1>9, <1>10

\* For any chains and groups, what plan() is described to return is what its loop over
\* the vector it appends to leaves, the reads of moved memory included.
THEOREM LoopCorrect == Spec => []PlansAreTheLoops
<1>1. TypeOK => PlansAreTheLoops
  <2> SUFFICES ASSUME TypeOK, NEW name \in Model PROVE Plans(name) = PlansByLoop(name)
    BY DEF PlansAreTheLoops
  <2> DEFINE list == Members(name)
  <2>1. list \in Seq(Model)
    BY DEF TypeOK, Members
  <2>2. ASSUME NEW order \in BuildOrder(list)
        PROVE  LoopOver(order, Reserved(list))
                 = {order \o e : e \in UNION {Appended(order, K) : K \in Reads(order, Reserved(list))}}
    BY <2>1, OrderType, LoopLeaves
  <2> QED
    BY <2>2 DEF Plans, PlansByLoop
<1> QED
  BY <1>1, TypeCorrect, PTL
=============================================================================
