--------------------------- MODULE MC_ChatRequests ---------------------------
(* Two backends a and b behind a group g; a's chain names b and a model z that
   is registered nowhere, the only member of a group h.  The sessions: of g,
   of a alone, of z (configured before the last restart), and of h.  Where
   requests overlap no backend has a chain. *)
EXTENDS ChatRequests, TLC

CONSTANTS r1, r2, s1, s2, s3, s4, a, b, g, h, z

MCModelOf ==
    [s \in Session |-> CASE s = s1 -> g [] s = s2 -> a [] s = s3 -> z [] s = s4 -> h]
MCWeight == [m \in Model |-> IF m = b THEN 2 ELSE 1]
MCFallbacks == [m \in Model |-> IF m = a THEN <<b, z>> ELSE <<>>]
MCNoFallbacks == [m \in Model |-> <<>>]
MCRoute == [m \in Model |-> CASE m = g -> <<b, a>> [] m = h -> <<z>> [] OTHER -> <<>>]
=============================================================================
