-------------------------------- MODULE Card --------------------------------
(***************************************************************************)
(* The SD card as the host's clients of Remote I/O see it: a tree of files *)
(* and directories, the requests of xfer.cpp, what they do and what their  *)
(* callers can be told.  The console that keeps the card is not part of    *)
(* the repository: this is what xfer.cpp expects of it.                    *)
(***************************************************************************)
EXTENDS Integers, Sequences, SequencesExt

(* What a path of the card holds; the root <<>> is a directory. *)
None == [kind |-> "none", data |-> <<>>]
Dir == [kind |-> "dir", data |-> <<>>]
File(d) == [kind |-> "file", data |-> d]

Kind(card, p) == IF p = <<>> THEN "dir" ELSE IF p \in DOMAIN card THEN card[p].kind ELSE "none"
Children(card, p) == {q \in DOMAIN card : q # <<>> /\ Front(q) = p /\ card[q].kind # "none"}

(* The card is a tree: what is there lies in a directory, up to the root. *)
IsTree(card) ==
    /\ \A p \in DOMAIN card :
         /\ p \in Seq(STRING) /\ p # <<>>
         /\ card[p] \in {None, Dir} \/ card[p] = File(card[p].data)
    /\ \A p \in DOMAIN card : \A n \in 1 .. (Len(p) - 1) :
         /\ SubSeq(p, 1, n) \in DOMAIN card
         /\ card[p].kind # "none" => card[SubSeq(p, 1, n)].kind = "dir"

(* A request: to = path except for a rename, data = <<>> except for an upload. *)
Req(o, p, q, d) == [op |-> o, path |-> p, to |-> q, data |-> d]
Simple(o, p) == Req(o, p, p, <<>>)

(* The console can do what is asked. *)
Possible(r, card) ==
    LET k == Kind(card, r.path)
        room(p) == p \in DOMAIN card /\ Kind(card, Front(p)) = "dir"
    IN  CASE r.op = "list"   -> k = "dir"
          [] r.op \in {"crc", "download"} -> k = "file"
          [] r.op = "upload" -> k # "dir" /\ room(r.path)
          [] r.op = "mkdir"  -> k = "none" /\ room(r.path)
          [] r.op = "remove" -> r.path # <<>> /\ k # "none" /\ Children(card, r.path) = {}
          [] r.op = "rmdir"  -> r.path # <<>> /\ k = "dir" /\ Children(card, r.path) = {}
          [] r.op = "rename" -> /\ r.path # <<>> /\ k # "none"
                                /\ Kind(card, r.to) = "none" /\ room(r.to)
                                /\ ~IsPrefix(r.path, r.to)
          [] OTHER -> TRUE

(* A directory is renamed with everything in it. *)
Renamed(card, p, q) ==
    LET old(x) == p \o SubSeq(x, Len(q) + 1, Len(x))
    IN  [x \in DOMAIN card |->
           IF IsPrefix(q, x) THEN IF old(x) \in DOMAIN card THEN card[old(x)] ELSE None
           ELSE IF IsPrefix(p, x) THEN None ELSE card[x]]

Effect(r, card) ==
    CASE r.op \in {"remove", "rmdir"} -> [card EXCEPT ![r.path] = None]
      [] r.op = "mkdir"  -> [card EXCEPT ![r.path] = Dir]
      [] r.op = "upload" -> [card EXCEPT ![r.path] = File(r.data)]
      [] r.op = "rename" -> Renamed(card, r.path, r.to)
      [] OTHER -> card

(* What a request that succeeds answers: a listing, or the contents of a file. *)
Answer(r, card) ==
    CASE r.op = "list" -> Children(card, r.path)
      [] r.op = "download" -> card[r.path].data
      [] OTHER -> <<>>

NoAnswer(r) == IF r.op = "list" THEN {} ELSE <<>>

(***************************************************************************)
(* What a caller can get from one request over a link that is in step (the *)
(* console ready, nothing on the way), by the Return actions of SdStore:   *)
(* success; a refusal; a failure, whether or not the request is carried    *)
(* out; or a listing that a pause has cut short.  The link is still in     *)
(* step after the first two.                                               *)
(***************************************************************************)
Outcome(ret, card, answer, instep) ==
    [ret |-> ret, card |-> card, answer |-> answer, instep |-> instep]

Successes(r, card) ==
    IF Possible(r, card) THEN {Outcome(1, Effect(r, card), Answer(r, card), TRUE)} ELSE {}
Refusals(r, card) == {Outcome(0, card, NoAnswer(r), TRUE)}
Failures(r, card) ==
    {Outcome(0, c, NoAnswer(r), FALSE) : c \in {card} \union {o.card : o \in Successes(r, card)}}
CutListings(r, card) ==
    IF r.op # "list" THEN {}
    ELSE {Outcome(1, card, a, FALSE) : a \in SUBSET Children(card, r.path)}

(***************************************************************************)
(* Over a link that is out of step an answer may be the one to an earlier  *)
(* request; after Ctrl+C every request fails.                              *)
(***************************************************************************)
Muddled(r, card) ==
    {Outcome(ret, c, NoAnswer(r), FALSE) :
       ret \in {0, 1}, c \in {card} \union {o.card : o \in Successes(r, card)}}

Outcomes(r, card, instep, interrupt) ==
    IF interrupt THEN Failures(r, card)
    ELSE IF ~instep THEN Muddled(r, card)
    ELSE Successes(r, card) \union Refusals(r, card) \union Failures(r, card)
           \union CutListings(r, card)

=============================================================================
