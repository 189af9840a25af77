------------------------------ MODULE MCSdSync ------------------------------
EXTENDS SdSync

A == <<"a">>
D == <<"d">>
F == <<"d", "f">>
MCRels == {A, D, F}
MCBase == <<"s">>
MCContents == {<<1>>, <<2, 3>>}

LocalTree(base, a, d, f) == (<<>> :> base) @@ (A :> a) @@ (D :> d) @@ (F :> f)
MCLocals == {LocalTree(None, None, None, None),
             LocalTree(Dir, File(<<1>>), None, None),
             LocalTree(Dir, File(<<2, 3>>), Dir, File(<<1>>))}

CardTree(base, a, d, f) == [q \in {MCBase} \union {MCBase \o p : p \in MCRels} |->
    CASE q = MCBase -> base [] q = MCBase \o A -> a [] q = MCBase \o D -> d [] OTHER -> f]
MCCards == {CardTree(None, None, None, None),
            CardTree(Dir, Dir, File(<<1>>), None),
            CardTree(Dir, None, Dir, File(<<2, 3>>))}
=============================================================================
