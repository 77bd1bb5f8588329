-------------------------- MODULE MC_StreamParser --------------------------
(* StreamParser on all streams of up to three parts, over all three families. *)
EXTENDS StreamParser

AllFamilies == Family

\* Events of one line, events of two, the other line end, a line end too many, and
\* streams that stop in the middle of an event.
Parts ==
    {<<d, "lf", "lf">> : d \in Data}
        \cup {<<"note", "lf", "lf">>, <<"note", "lf", "text", "lf", "lf">>,
              <<"text", "cr", "lf", "cr", "lf">>, <<"stop", "cr", "lf", "cr", "lf">>,
              <<"lf">>, <<"text">>, <<"done">>}

UpToThreeParts == UNION {[1..n -> Parts] : n \in 0..3}
=============================================================================
