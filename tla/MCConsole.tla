----------------------------- MODULE MCConsole -----------------------------
(***************************************************************************)
(* Small inputs: two lines of two and one characters, a line ended by a    *)
(* carriage return with an unfinished one behind it, and a Ctrl+C in the   *)
(* middle of a line.                                                       *)
(***************************************************************************)
EXTENDS Console

MCInputs == {<<"x", "LF", "LF">>, <<"y", "CR", "x">>, <<"x", "LF", "y", "ETX", "LF">>}

=============================================================================
