------------------------------- MODULE Router -------------------------------
(***************************************************************************)
(* The model router: backends with a weight, a fallback chain and a        *)
(* circuit breaker, route groups over them, and plan(), the order in which *)
(* one request tries them.  Every public method holds Router::mutex_ from  *)
(* its first statement to its last, so each is one action.                 *)
(*                                                                         *)
(* A breaker is fail_count > 0 (tripped) and the whole seconds since       *)
(* fail_time (age), which stop counting at MaxAge.                         *)
(***************************************************************************)
EXTENDS Integers, Sequences, SequencesExt, Functions

CONSTANTS
    Model,         \* names of backends and of route groups, one namespace
    Backends,      \* what addBackend is called with: [model, weight, fallback]
    Groups,        \* what addRoute is called with: [route, members]
    RecoverTimes,  \* what setRecoverAfterMs is called with
    MaxAge         \* bound: seconds after which an age stops counting

ASSUME BackendsAssumption ==
    Backends \subseteq [model : Model, weight : Int, fallback : Seq(Model)]
ASSUME GroupsAssumption ==
    Groups \subseteq [route : Model, members : Seq(Model)]
ASSUME RecoverTimesAssumption == RecoverTimes \subseteq Int
ASSUME MaxAgeAssumption ==
    /\ MaxAge \in Nat \ {0}
    /\ \A ms \in RecoverTimes : MaxAge * 1000 > ms

VARIABLES
    backends,   \* keys of Router::backends_
    weight, fallback, tripped, age,
    routes,     \* Router::routes_; <<>> for a name that is no group
    recoverAfterMs

registry == <<backends, weight, fallback>>
breakers == <<tripped, age>>
vars     == <<registry, breakers, routes, recoverAfterMs>>

AtLeastZero(n) == IF n < 0 THEN 0 ELSE n

TypeOK ==
    /\ backends \in SUBSET Model
    /\ weight \in [Model -> Nat]
    /\ fallback \in [Model -> Seq(Model)]
    /\ tripped \in [Model -> BOOLEAN]
    /\ age \in [Model -> 0..MaxAge]
    /\ routes \in [Model -> Seq(Model)]
    /\ recoverAfterMs \in {AtLeastZero(ms) : ms \in RecoverTimes}

Init ==
    /\ backends = {}
    /\ weight = [m \in Model |-> 1]
    /\ fallback = [m \in Model |-> <<>>]
    /\ tripped = [m \in Model |-> FALSE]
    /\ age = [m \in Model |-> 0]
    /\ routes = [m \in Model |-> <<>>]
    /\ recoverAfterMs \in {AtLeastZero(ms) : ms \in RecoverTimes}

-----------------------------------------------------------------------------
(* Registration, the breaker and the clock. *)

\* A backend that is registered again gets a closed breaker.
AddBackend(b) ==
    /\ backends' = backends \cup {b.model}
    /\ weight' = [weight EXCEPT ![b.model] = AtLeastZero(b.weight)]
    /\ fallback' = [fallback EXCEPT ![b.model] = b.fallback]
    /\ tripped' = [tripped EXCEPT ![b.model] = FALSE]
    /\ age' = [age EXCEPT ![b.model] = 0]
    /\ UNCHANGED <<routes, recoverAfterMs>>

AddRoute(g) ==
    /\ g.members # <<>>
    /\ routes' = [routes EXCEPT ![g.route] = g.members]
    /\ UNCHANGED <<registry, breakers, recoverAfterMs>>

\* The breaker of one backend opens, or closes.
Trip(m) ==
    /\ tripped' = [tripped EXCEPT ![m] = TRUE]
    /\ age' = [age EXCEPT ![m] = 0]

Reset(m) ==
    /\ tripped' = [tripped EXCEPT ![m] = FALSE]
    /\ age' = [age EXCEPT ![m] = 0]

\* An unknown name is ignored, here and in MarkAvailable.
MarkUnavailable(m) ==
    /\ m \in backends
    /\ Trip(m)
    /\ UNCHANGED <<registry, routes, recoverAfterMs>>

MarkAvailable(m) ==
    /\ m \in backends
    /\ Reset(m)
    /\ UNCHANGED <<registry, routes, recoverAfterMs>>

SetRecoverAfterMs(ms) ==
    /\ recoverAfterMs' = AtLeastZero(ms)
    /\ UNCHANGED <<registry, breakers, routes>>

\* time(nullptr) advances by a second.
Older ==
    /\ age' = [m \in Model |->
                 IF tripped[m] /\ age[m] < MaxAge THEN age[m] + 1 ELSE age[m]]
    /\ UNCHANGED tripped

Tick == Older /\ UNCHANGED <<registry, routes, recoverAfterMs>>

\* Mutant: the breaker never half-opens.
HealthyNeverAgain(m) == ~tripped[m]

Healthy(m) == ~tripped[m] \/ age[m] * 1000 > recoverAfterMs

-----------------------------------------------------------------------------
(* plan: the order of attempts. *)

Members(name) == IF routes[name] = <<>> THEN <<name>> ELSE routes[name]

\* May get traffic: the breaker lets it through and its weight is positive.
Eligible(m) == Healthy(m) /\ weight[m] > 0

EligibleAt(list) == {i \in DOMAIN list : list[i] \in backends /\ Eligible(list[i])}

DownAt(list) == {i \in DOMAIN list : list[i] \in backends /\ ~Eligible(list[i])}

\* The primary, drawn by weight, so any eligible position; 0 if there is none.
Primaries(list) == IF EligibleAt(list) = {} THEN {0} ELSE EligibleAt(list)

\* Mutant: the backends that are down are left out while others are up.
KeptEligible(list, p) ==
    IF EligibleAt(list) = {} THEN DownAt(list)
    ELSE {i \in EligibleAt(list) : i = p \/ list[i] # list[p]}

\* The eligible entries with the primary's name are dropped, duplicates of
\* other names are not.
Kept(list, p) ==
    {i \in EligibleAt(list) : i = p \/ list[i] # list[p]} \cup DownAt(list)

\* Mutant: std::sort ascending.
GoesBeforeLighter(list, p, i, j) ==
    \/ i = p /\ j # p
    \/ i \in EligibleAt(list) /\ j \in DownAt(list)
    \/ /\ {i, j} \subseteq EligibleAt(list) \ {p}
       /\ weight[list[i]] < weight[list[j]]
    \/ {i, j} \subseteq DownAt(list) /\ i < j

\* Mutant: the members are tried as listed.
GoesBeforeAsListed(list, p, i, j) == i < j

\* Position i must come before position j: the primary first, the eligible
\* before the down, the former by weight, the latter as listed.  Equal weights
\* may come in any order, for std::sort is not stable.
GoesBefore(list, p, i, j) ==
    \/ i = p /\ j # p
    \/ i \in EligibleAt(list) /\ j \in DownAt(list)
    \/ /\ {i, j} \subseteq EligibleAt(list) \ {p}
       /\ weight[list[i]] > weight[list[j]]
    \/ {i, j} \subseteq DownAt(list) /\ i < j

\* The arrangements of positions that buildOrderLocked may return.
Arrangements(list, p) ==
    LET n == Cardinality(Kept(list, p))
    IN  {o \in Bijection(1..n, Kept(list, p)) :
           \A x, y \in 1..n : GoesBefore(list, p, o[x], o[y]) => x < y}

BuildOrder(list) ==
    {[x \in DOMAIN o |-> list[o[x]]] :
       o \in UNION {Arrangements(list, p) : p \in Primaries(list)}}

\* Mutant: a chain is appended without looking for its names in the order.
ChainedAgain(order, K) == UNION {ToSet(fallback[order[k]]) : k \in K}

\* Mutant: the chains of fallbacks are appended too.
ChainedFurther(order, K) ==
    LET near == UNION {ToSet(fallback[order[k]]) : k \in K}
    IN  (near \cup UNION {ToSet(fallback[m]) : m \in near}) \ ToSet(order)

\* The names the chains of the candidates at K add to the order.
Chained(order, K) ==
    (UNION {ToSet(fallback[order[k]]) : k \in K}) \ ToSet(order)

\* Mutant: any candidate may be missed, the first one too.
ReadsAny(order, capacity) == SUBSET DOMAIN order

\* The candidates whose chain is appended.  The fallbacks are appended to the
\* vector the loop runs over.  Its capacity is what buildOrderLocked reserved;
\* once an append has moved it, the loop reads freed memory, and each later
\* candidate is found there or is not.
Reads(order, capacity) ==
    {K \in SUBSET DOMAIN order :
       \A k \in DOMAIN order \ K :
           Len(order) + Cardinality(Chained(order, K \cap 1..(k - 1))) > capacity}

\* Fallback f is met before fallback h on the chains of the candidates at K.
MetBefore(order, K, f, h) ==
    \E k \in K : \E x \in DOMAIN fallback[order[k]] :
        /\ fallback[order[k]][x] = f
        /\ \A l \in K : \A y \in DOMAIN fallback[order[l]] :
               fallback[order[l]][y] = h => k < l \/ (k = l /\ x < y)

\* Those names as they are appended, each once.
Appended(order, K) ==
    {e \in Bijection(1..Cardinality(Chained(order, K)), Chained(order, K)) :
       \A x, y \in DOMAIN e : MetBefore(order, K, e[x], e[y]) => x < y}

\* healthy.size() + down.size()
Reserved(list) == Cardinality(EligibleAt(list) \cup DownAt(list))

\* The loop's end was taken before it started, so the fallbacks of fallbacks
\* are never appended.
Plans(name) ==
    UNION {{order \o e : e \in UNION {Appended(order, K) :
                             K \in Reads(order, Reserved(Members(name)))}} :
           order \in BuildOrder(Members(name))}

\* The loop itself.  A fallback goes to the end of the vector o, but if it is there.
WithFallback(o, f) == IF f \in ToSet(o) THEN o ELSE Append(o, f)

\* The whole chain of m does, one fallback after the other.
WithChain(o, m) ==
    LET upto[x \in 0..Len(fallback[m])] ==
            IF x = 0 THEN o ELSE WithFallback(upto[x - 1], fallback[m][x])
    IN  upto[Len(fallback[m])]

\* What may be left of order, one candidate after the other: a candidate's chain is
\* appended, or the candidate was not found where the vector has been.
LoopOver(order, capacity) ==
    LET after[k \in 0..Len(order)] ==
            IF k = 0 THEN {order}
            ELSE {WithChain(o, order[k]) : o \in after[k - 1]}
                     \cup {o \in after[k - 1] : Len(o) > capacity}
    IN  after[Len(order)]

PlansByLoop(name) ==
    UNION {LoopOver(order, Reserved(Members(name))) : order \in BuildOrder(Members(name))}

-----------------------------------------------------------------------------
Next ==
    \/ \E b \in Backends : AddBackend(b)
    \/ \E g \in Groups : AddRoute(g)
    \/ \E m \in Model : MarkUnavailable(m) \/ MarkAvailable(m)
    \/ \E ms \in RecoverTimes : SetRecoverAfterMs(ms)
    \/ Tick

Spec == Init /\ [][Next]_vars

\* Time passes.
FairSpec == Spec /\ WF_vars(Tick)

-----------------------------------------------------------------------------
(* Properties of every plan a request may be given. *)

Registered(list) == ToSet(list) \cap backends

\* While some backend of the group may get traffic, the first attempt goes to
\* one of those.  (Weighted draw, Router.cc:118-134; weight 0 and open
\* breakers are kept out of the draw at Router.cc:104.)
FirstIsEligible ==
    \A name \in Model : LET list == Members(name) IN
        (\E m \in Registered(list) : Eligible(m)) =>
            \A p \in Plans(name) :
                p # <<>> /\ Head(p) \in Registered(list) /\ Eligible(Head(p))

\* Among the members of the group the eligible come before the others, and
\* those after the first in the order of their weights, although the fallback
\* chains are mixed into the same vector.  (Router.cc:136-157, Router.h:37-38)
MembersInOrder ==
    \A name \in Model : \A p \in Plans(name) : \A x, y \in DOMAIN p :
        x < y /\ {p[x], p[y]} \subseteq Registered(Members(name)) =>
            /\ Eligible(p[y]) => Eligible(p[x])
            /\ x > 1 /\ Eligible(p[y]) => weight[p[x]] >= weight[p[y]]

\* No registered member of a group is lost, whatever is filtered, dropped as a
\* duplicate of the primary or skipped by the loop: a request fails only after
\* it has tried them all, and has a plan at all if there is one.
EveryMemberIsTried ==
    \A name \in Model : \A p \in Plans(name) :
        /\ Registered(Members(name)) \subseteq ToSet(p)
        /\ Registered(Members(name)) = {} => p = <<>>

\* The chain of the first candidate is appended in full: the loop reads it
\* before anything has moved.  (Router.cc:61-75)
FirstChainIsKept ==
    \A name \in Model : \A p \in Plans(name) :
        p # <<>> => ToSet(fallback[Head(p)]) \subseteq ToSet(p)

\* A plan leaves the group only for the chains of its members: chains are not
\* followed further, so cyclic chains are harmless.  (Router.cc:61-75)
ChainsAreNotFollowed ==
    \A name \in Model : \A p \in Plans(name) :
        LET own == Registered(Members(name))
        IN  ToSet(p) \subseteq own \cup UNION {ToSet(fallback[m]) : m \in own}

\* Together: a plan has no less than the chain of its first candidate and no
\* more than those of its own members.  (Router.cc:61-75)
FallbacksAreTheMembersOwn == FirstChainIsKept /\ ChainsAreNotFollowed

\* No backend is tried twice in one round, unless the group lists it twice.
\* (Router.cc:70, Router.cc:141)
NothingIsTriedTwice ==
    \A name \in Model :
        IsInjective(Members(name)) => \A p \in Plans(name) : IsInjective(p)

\* What plan() returns is what its loop over the growing vector leaves.
PlansAreTheLoops ==
    \A name \in Model : Plans(name) = PlansByLoop(name)

\* A backend that is not reported down again gets traffic again: breakers
\* half-open by themselves.  (Router.cc:199-208, Router.h:8)
BreakersRecover ==
    \A m \in Model : []<><<MarkUnavailable(m)>>_vars \/ []<>Healthy(m)

-----------------------------------------------------------------------------
(* What comments say of plan() and the code does not do. *)

\* Router.h:39: the chain of each candidate is appended to the end.
EveryChainIsAppended ==
    \A name \in Model : \A p \in Plans(name) :
        \A m \in Registered(Members(name)) : ToSet(fallback[m]) \subseteq ToSet(p)
=============================================================================
