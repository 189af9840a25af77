----------------------------- MODULE MCScFile -------------------------------
(***************************************************************************)
(* A disc with two sectors of root directory, names that begin alike and a *)
(* version number; a ROM image with a folder, a disabled entry and a file  *)
(* of two compressed chunks, and two images that must be refused.          *)
(***************************************************************************)
EXTENDS ScFile

A == 65
B == 66
C == 67
D == 68
E == 69
X == 88

File1 == <<1, 2, 3>>
File2 == <<4, 4, 4, 4, 4, 4, 4, 4, 4, 4, 4, 4, 5>>

MCDisc ==
    (0 :> <<>>) @@ (16 :> <<>>)
    @@ (20 :> <<Record(<<0>>, 20, 4, TRUE), Record(<<1>>, 20, 4, TRUE),
                Record(<<A>>, 23, 3, FALSE), Record(<<A, B>>, 25, 2, FALSE)>>)
    @@ (21 :> <<Record(<<D>>, 22, 2, TRUE), Record(<<E, 46, X, 59, 49>>, 26, 1, FALSE)>>)
    @@ (22 :> <<Record(<<0>>, 22, 2, TRUE), Record(<<1>>, 20, 4, TRUE), Record(<<C>>, 27, 2, FALSE)>>)
    @@ (23 :> <<1, 2>>) @@ (24 :> <<3, 0>>) @@ (25 :> <<6, 7>>) @@ (26 :> <<5, 0>>) @@ (27 :> <<8, 9>>)

MCRootRecord == Record(<<0>>, 20, 4, TRUE)

MCDiscTruth ==
    (<<Slash, A>> :> File1) @@ (<<Slash, A, B>> :> <<6, 7>>) @@ (<<Slash, D, Slash, C>> :> <<8, 9>>)
    @@ (<<Slash, E, Dot, X>> :> <<5>>)

MCDiscFolders ==
    (<<Slash>> :> {<<A>>, <<A, B>>, <<D>>, <<E, Dot, X>>}) @@ (<<Slash, D>> :> {<<C>>})

MCReadable == {DOMAIN MCDisc, {}}

MCImage ==
    [magic |-> TRUE, crc |-> TRUE,
     entries |-> <<Folder(<<D>>, {}, 5), Raw(<<A>>, {}, File1), Entry(<<A, B>>, {}, 0, <<9>>),
                   Packed(<<A, B>>, {"LASTENTRY"}, File2),
                   Folder(<<Dot, Dot>>, {}, 1), Raw(<<C>>, {"LASTENTRY"}, <<8>>)>>,
     truth |-> (<<Slash, A>> :> File1) @@ (<<Slash, A, B>> :> File2) @@ (<<Slash, D, Slash, C>> :> <<8>>)]

MCImages == {MCImage, [MCImage EXCEPT !.crc = FALSE], [MCImage EXCEPT !.magic = FALSE]}

MCPaths == {<<Slash, A>>, <<Slash, A, B>>, <<Slash, 100, Backslash, 99>>, <<Slash, E, Dot, X>>}
MCPlaces == {<<Slash, A>>}
MCFolders == {<<Slash>>, <<Slash, D>>, <<Slash, X>>}
MCStored == {(<<Slash, A>> :> File1) @@ (<<Slash, 98, Dot, X>> :> <<>>) @@ (<<Slash, D, Slash, C>> :> <<>>)}
MCWritten == {<<7, 7>>}
MCFilters == {<<<<Dot, 120>>, <<B>>>>}

(* Short data of two values, and longer data with repetitions near and far. *)
MCBlocks ==
    UNION {[1 .. n -> {0, 1}] : n \in 0 .. 8}
    \union {[i \in 1 .. n |-> IF i \in a .. b THEN 1 ELSE IF i % p = 0 THEN 2 ELSE 0] :
               n \in {12, 18, 19, 20, 52}, a \in 1 .. 3, b \in {3, 8, 18}, p \in {2, 3, 5, 60}}

MCTrees == UNION {[1 .. n -> {<<A>>, <<A, Dot, B>>}] : n \in 1 .. 3}
=============================================================================
