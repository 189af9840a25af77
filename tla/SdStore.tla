------------------------------ MODULE SdStore -------------------------------
(***************************************************************************)
(* What the SD-card requests of xfer.cpp promise, whatever the link and    *)
(* the console do: the specification that RemoteIo implements and on which *)
(* DoSdSync and the WebDAV server rely.                                    *)
(*                                                                         *)
(* A request that finds the link in step takes effect at most once and as  *)
(* a whole, also after its caller has given up; a success is reported only *)
(* after the effect, a refusal only without it, and after both the link is *)
(* in step again.  Out of step, anything may happen to the card.           *)
(***************************************************************************)
EXTENDS Card

VARIABLES
    card,       \* the card
    card0,      \* the card when the last request began
    req,        \* the last request
    pending,    \* its caller waits
    instep,     \* it found the console ready and the link empty
    settled,    \* it ended in a success or a refusal that the console knows of
    ret,        \* what it returned
    answer      \* and answered

vars == <<card, card0, req, pending, instep, settled, ret, answer>>

StoreInit ==
    /\ pending = FALSE
    /\ card0 = card
    /\ settled = TRUE

Begin ==
    /\ ~pending
    /\ pending'
    /\ card' = card
    /\ card0' = card
    /\ instep /\ settled => instep'
    /\ ret' = 0

(* The console carries the request out. *)
Commit ==
    /\ instep
    /\ pending \/ ~settled
    /\ card = card0
    /\ Possible(req, card)
    /\ card' = Effect(req, card)
    /\ UNCHANGED <<card0, req, pending, instep, settled, ret, answer>>

(***************************************************************************)
(* The caller is told 1: everything is done, except that a listing may     *)
(* have been cut and a raw upload may have been interrupted.               *)
(***************************************************************************)
Succeed ==
    /\ pending /\ ~pending'
    /\ ret' = 1
    /\ instep =>
         /\ card = (IF Possible(req, card0) THEN Effect(req, card0) ELSE card0)
         /\ settled' => Possible(req, card0) /\ answer' = Answer(req, card0)
         /\ ~settled' /\ req.op = "list" => answer' \subseteq Answer(req, card0)
         /\ ~settled' => req.op \in {"list", "raw"}
    /\ UNCHANGED <<card, card0, req, instep>>

(* The caller is told 0, by the console or because something failed. *)
Fail ==
    /\ pending /\ ~pending'
    /\ ret' = 0
    /\ instep /\ settled' => card = card0
    /\ UNCHANGED <<card, card0, req, instep>>

(* Out of step: what is left on the link reaches the console as it likes. *)
Stray ==
    /\ ~instep
    /\ UNCHANGED <<card0, req, pending, instep, settled, ret, answer>>

StoreSpec == StoreInit /\ [][Begin \/ Commit \/ Succeed \/ Fail \/ Stray]_vars

=============================================================================
