----------------------------- MODULE MCSdFiles ------------------------------
EXTENDS SdFiles

MCBase(n) == IF n \in {"a", "b"} THEN "x" ELSE n
MCPaths == {<<"a">>, <<"b">>, <<"d">>, <<"d", "b">>}
MCDatas == {<<11>>, <<21, 22, 23, 24, 25, 26, 27, 28, 29>>}
MCReads == {<<0, 7>>, <<3, 2>>}

(* An empty card; one with a directory, a file in it, and a long file; and *)
(* one whose long file has grown around another.                           *)
Empty ==
    [fat |-> [c \in 0 .. (Clusters - 1) |-> IF c < 2 \/ c = Root THEN LAST ELSE FREE],
     sec |-> [a \in ((2 .. (Clusters - 1)) \X (0 .. (SPC - 1)))
                      \union (IF Root = 0 THEN {0} \X (0 .. (RootSectors - 1)) ELSE {})
                |-> IF a[1] = Root THEN [slots |-> BlankDir] ELSE [bytes |-> Zeros]]]
Used ==
    sdc_fat_write_file(
      sdc_fat_write_file(sdc_fat_mkdir(Machine(Empty), <<"d">>), <<"d", "b">>, <<41, 42, 43>>),
      <<"a">>, <<51, 52, 53, 54, 55, 56>>).disk
Fragmented ==
    sdc_fat_append_file(sdc_fat_write_file(sdc_fat_unlink(Machine(Used), <<"d", "b">>),
                                           <<"b">>, <<61>>), <<"a">>, <<71, 72, 73>>).disk
MCDisks == {Empty, Used, Fragmented}
=============================================================================
