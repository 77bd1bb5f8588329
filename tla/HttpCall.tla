------------------------------ MODULE HttpCall ------------------------------
(***************************************************************************)
(* What a provider may rely on when it posts a request: the answer's body  *)
(* reaches it in order and only after its head was accepted, and the call  *)
(* succeeds only with a body that is whole.  A body whose end is nothing   *)
(* but the end of the connection is not bounded, and then nobody can tell. *)
(***************************************************************************)
EXTENDS Naturals

VARIABLES
    strict,     \* the caller takes no status but 200
    phase,      \* "asked", "open", and how it ended
    good,       \* the status is 200
    bounded,    \* the head says where the body ends ...
    size,       \* ... namely after so many pieces
    delivered   \* the pieces the caller got

vars == <<strict, phase, good, bounded, size, delivered>>

Init ==
    /\ strict \in BOOLEAN
    /\ phase = "asked"
    /\ good = FALSE /\ bounded = FALSE /\ size = 0
    /\ delivered = 0

Accept ==
    /\ phase = "asked" /\ phase' = "open"
    /\ good' \in BOOLEAN /\ (strict => good')
    /\ bounded' \in BOOLEAN
    /\ size' \in Nat
    /\ UNCHANGED <<strict, delivered>>

Deliver ==
    /\ phase = "open"
    /\ bounded => delivered < size
    /\ delivered' = delivered + 1
    /\ UNCHANGED <<strict, phase, good, bounded, size>>

Succeed ==
    /\ phase = "open" /\ phase' = "whole"
    /\ bounded => delivered = size
    /\ UNCHANGED <<strict, good, bounded, size, delivered>>

\* An answer that has no body, or the refusal of a proxy.
Bodiless ==
    /\ phase = "asked" /\ phase' = "bodiless"
    /\ UNCHANGED <<strict, good, bounded, size, delivered>>

Fail ==
    /\ phase \in {"asked", "open"} /\ phase' = "failed"
    /\ UNCHANGED <<strict, good, bounded, size, delivered>>

Next == Accept \/ Deliver \/ Succeed \/ Bodiless \/ Fail

Spec == Init /\ [][Next]_vars
=============================================================================
