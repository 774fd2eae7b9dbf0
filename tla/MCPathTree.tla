----------------------------- MODULE MCPathTree -----------------------------
\* An empty tree, one with a directory, and one with a file in it; names that need
\* an escape, that have a comma, and that are printed as digests.
EXTENDS PathTree

Deep == {<<"r", "a", "d">>, <<"d", "b", "f">>}
World(t, raw, a, b, who) == [tree |-> t, raw |-> raw, a |-> a, b |-> b, mounted |-> who]
FewWorlds ==
    {World({}, FALSE, <<"x">>, <<"x", " ">>, {"c1"}),
     World(Deep, FALSE, <<"x">>, <<"x", " ">>, {}),
     World(Deep, TRUE, <<" ">>, <<"\\", "2", "0">>, {"c1"}),
     World({<<"r", "a", "d">>}, TRUE, <<",">>, <<"x">>, {})}
Export == <<"/", "e">>
Operations ==
    [c1 |-> {"mnt", "unknown", "readdirp", "lookup", "create", "mkdir", "remove", "link", "rename"},
     c2 |-> {"lookup"}]
=============================================================================
