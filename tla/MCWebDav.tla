------------------------------ MODULE MCWebDav ------------------------------
EXTENDS WebDav

A == <<"a">>
D == <<"d">>
F == <<"d", "f">>
L == <<"long">>
MCPaths == {<<>>, A, D, F, L}
MCLong == {L}
MCBodies == {<<>>, <<8, 9>>}
Tree(a, d, f) == (A :> a) @@ (D :> d) @@ (F :> f)
MCCards == {Tree(File(<<1>>), Dir, File(<<2, 3>>)), Tree(None, Dir, None)}
=============================================================================
