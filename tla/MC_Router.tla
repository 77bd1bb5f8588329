------------------------------ MODULE MC_Router ------------------------------
(* A router with three backends and one group, registered in any order and
   again with other settings.  The offers hold a chain into the group, a
   cyclic chain, a chain to a name that is no backend, weight 0 and a negative
   weight, equal weights, and a group that lists a backend twice. *)
EXTENDS Router

CONSTANTS a, b, c, g

MCModel == {a, b, c, g}

MCBackends ==
    {[model |-> a, weight |-> 2, fallback |-> <<c>>],
     [model |-> a, weight |-> 1, fallback |-> <<b, g>>],
     [model |-> b, weight |-> 1, fallback |-> <<a, c>>],
     [model |-> b, weight |-> 0, fallback |-> <<>>],
     [model |-> c, weight |-> 3, fallback |-> <<>>],
     [model |-> c, weight |-> -1, fallback |-> <<b>>]}

MCGroups ==
    {[route |-> g, members |-> <<a, b, c>>],
     [route |-> g, members |-> <<b, a>>],
     [route |-> g, members |-> <<c, a, c>>],
     [route |-> g, members |-> <<>>]}

MCRecoverTimes == {-1, 1000}
=============================================================================
