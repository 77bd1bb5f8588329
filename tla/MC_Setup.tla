------------------------------ MODULE MC_Setup ------------------------------
(* Configurations of one or two entries: two models and a group, a model
   that is configured twice, a name without a URL, an unknown type, an entry
   without a name, and the group of the README that has no provider. *)
EXTENDS Cli

CONSTANTS a, b, g, u1, u2

MCModel == {a, b, g}
MCUrl == {u1, u2}

Entry(name, provider, url, share, chain, members) ==
    [name |-> name, provider |-> provider, url |-> url, weight |-> share,
     fallback |-> chain, route |-> members]

Good   == Entry(a, "openai", u1, 2, <<b, NoName>>, <<>>)
Other  == Entry(a, "claude", u2, Unset, <<>>, <<>>)
NoAddr == Entry(a, "gemini", NoUrl, Unset, <<>>, <<>>)
Odd    == Entry(a, "custom", u2, Unset, <<>>, <<>>)
Second == Entry(b, "gpt", u2, -1, <<>>, <<>>)
Group  == Entry(g, "openai", NoUrl, Unset, <<>>, <<a, b>>)
Readme == Entry(g, NoType, NoUrl, Unset, <<>>, <<a, b>>)
Both   == Entry(b, "openai", u1, Unset, <<>>, <<a>>)
Blank  == Entry(NoName, "openai", u1, Unset, <<>>, <<>>)
Plain  == Entry(b, NoType, u1, Unset, <<a>>, <<>>)

Lists(entries, n) == UNION {[1..k -> entries] : k \in 0..n}

MCRequests == Lists({Good, Other, NoAddr, Odd, Second, Blank, Plain}, 2)

MCFiles == {Unset, <<Good, Second, Group>>, <<Other, Good, NoAddr>>}
           \cup Lists({Good, NoAddr, Second, Group, Readme, Both}, 2)
           \cup {<<Odd>>, <<Odd, Good>>}
=============================================================================
