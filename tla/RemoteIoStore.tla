---------------------------- MODULE RemoteIoStore ----------------------------
(***************************************************************************)
(* RemoteIo implements SdStore.  Its paths are the children of the root; a *)
(* listing is always one of the root.                                      *)
(***************************************************************************)
EXTENDS RemoteIo

Tree(f) == [q \in {<<p>> : p \in Paths} |-> f[q[1]]]

Asked == [op |-> op, path |-> IF op = "list" THEN << >> ELSE <<path>>,
          to |-> <<path2>>, data |-> file]

Answered ==
    IF hpc # "ready" THEN << >>
    ELSE IF op = "list" THEN {<<p>> : p \in listing}
    ELSE IF op = "download" THEN local
    ELSE << >>

Store == INSTANCE SdStore WITH
    card <- Tree(fs), card0 <- Tree(fs0), req <- Asked, pending <- hpc # "ready",
    instep <- fresh, settled <- hpc = "ready" /\ ~failed /\ ~cut, ret <- ret, answer <- Answered

(***************************************************************************)
(* The requests of xfer.cpp keep what SdStore promises their callers: one  *)
(* effect, as a whole and only while it may still happen; successes and    *)
(* refusals that are true; and a link in step after them.                  *)
(***************************************************************************)
ImplementsStore == Store!StoreSpec

=============================================================================
