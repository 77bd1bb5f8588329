--------------------------- MODULE MC_SessionStore ---------------------------
(* Values for model checking SessionStore: two callers. *)
EXTENDS SessionStore, TLC

CONSTANTS t1, t2, s1, s2, m1, m2, m3

Threads  == {t1, t2}
OneSid   == {s1}
TwoSids  == {s1, s2}
TwoMids  == {m1, m2}
ThreeMids == {m1, m2, m3}

\* Threads, sessions and messages are interchangeable.
Symmetry == Permutations(Threads) \cup Permutations(TwoSids) \cup Permutations(ThreeMids)
=============================================================================
