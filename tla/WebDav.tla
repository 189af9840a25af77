------------------------------- MODULE WebDav -------------------------------
(***************************************************************************)
(* ftx -w: the WebDAV server of ftdi_webdav.cpp, on top of the requests    *)
(* that SdStore specifies.  The server is one thread that handles one      *)
(* request after the other; a step is one request to the console or one    *)
(* blocking call on the socket.  Connections are closed after each         *)
(* response.                                                               *)
(*                                                                         *)
(* Names are compared without case, by the server and by the console, so   *)
(* two spellings of a name are one path here.  Decoding of URLs, XML and   *)
(* dates are left out.                                                     *)
(***************************************************************************)
EXTENDS Card

CONSTANTS
    Paths,      \* paths that clients name, the root <<>> included
    Long,       \* those of them that violate the 8.3 rule
    Bodies,     \* contents that clients PUT
    Cards,      \* initial contents of the card
    MaxRequests \* number of connections

ASSUME WebDavAssumption ==
    /\ Paths \subseteq Seq(STRING) /\ Long \subseteq Paths /\ Bodies \subseteq Seq(Nat)
    /\ MaxRequests \in Nat
    /\ \A c \in Cards : IsTree(c)

Methods == {"OPTIONS", "PROPFIND", "PUT", "DELETE", "MKCOL", "MOVE", "GET", "COPY", "OTHER"}

VARIABLES
    card,       \* the card
    pc,         \* where the server is
    cur,        \* the HTTP request: method, path, dest, overwrite, body, depth
    found,      \* source_entry or target_entry: the kind that get_item_metadata found
    exists,     \* dest_exists
    temp,       \* the temporary file
    status,     \* the HTTP status that was sent
    reply,      \* the body of the response to a GET
    kids,       \* the children in the response to a PROPFIND
    interrupt,  \* ftdi::g_interrupt_flag
    instep,     \* the link is in step
    requests,
    (* history *)
    card0,      \* the card when the request was read
    sure        \* every listing was complete, the temporary file as well

vars == <<card, pc, cur, found, exists, temp, status, reply, kids, interrupt, instep, requests,
          card0, sure>>

(* A request without a Destination header. *)
NoDest == <<"no header">>

NoRequest == [method |-> "none", path |-> <<>>, dest |-> NoDest, overwrite |-> TRUE,
              body |-> <<>>, depth |-> 1]

is_valid_83_path(p) == p \notin Long

-----------------------------------------------------------------------------
(* The loop. *)

Stop ==
    /\ pc = "accept" /\ interrupt
    /\ pc' = "stopped"
    /\ UNCHANGED <<card, cur, found, exists, temp, status, reply, kids, interrupt, instep, requests,
                   card0, sure>>

Accept ==
    /\ pc = "accept" /\ ~interrupt /\ requests < MaxRequests
    /\ requests' = requests + 1
    /\ pc' = "read"
    /\ UNCHANGED <<card, cur, found, exists, temp, status, reply, kids, interrupt, instep, card0, sure>>

(* http::read ends with an error: the client has gone. *)
ReadError ==
    /\ pc = "read"
    /\ pc' = "accept"
    /\ UNCHANGED <<card, cur, found, exists, temp, status, reply, kids, interrupt, instep, requests,
                   card0, sure>>

(* The response; the connection is closed. *)
Respond(s) == pc' = "accept" /\ status' = s
Goto(label) == pc' = label /\ UNCHANGED status

NeedsDest(c) == c.method \in {"MOVE", "COPY"}
Refused(c) ==
    \/ c.method \in {"PUT", "MKCOL"} /\ ~is_valid_83_path(c.path)
    \/ NeedsDest(c) /\ (c.dest = NoDest \/ ~is_valid_83_path(c.dest))

(* The client's request, and what the server does before it asks the console. *)
ReadRequest(c) ==
    /\ pc = "read"
    /\ cur' = c
    /\ found' = "none" /\ exists' = FALSE /\ temp' = <<>> /\ reply' = <<>> /\ kids' = {}
    /\ card0' = card /\ sure' = TRUE
    /\ IF Refused(c) THEN Respond(400)
       ELSE CASE c.method = "OPTIONS" -> Respond(200)
              [] c.method = "OTHER" -> Respond(405)
              [] c.method = "PUT" -> Goto("temp")
              [] c.method = "DELETE" -> Goto("remove")
              [] c.method = "MKCOL" -> Goto("mkdir")
              [] OTHER -> Goto("meta")
    /\ UNCHANGED <<card, interrupt, instep, requests>>

(* What the caller may be told of one request to the console, *)
Request(r) == Outcomes(r, card, instep, interrupt)

(* and what the outcome o leaves behind. *)
Take(o) == card' = o.card /\ instep' = o.instep

(***************************************************************************)
(* get_item_metadata: the listing of the parent, in which the name is      *)
(* looked for.  The root needs no listing.                                 *)
(***************************************************************************)
get_item_metadata(p) ==
    IF p = <<>> THEN {[kind |-> "dir", card |-> card, instep |-> instep, sure |-> sure]}
    ELSE {[kind |-> IF o.ret = 1 /\ p \in o.answer THEN card[p].kind ELSE "none",
           card |-> o.card, instep |-> o.instep, sure |-> sure /\ o.ret = 1 /\ o.instep] :
              o \in Request(Simple("list", Front(p)))}

(* The source of GET, MOVE and COPY, the target of PROPFIND. *)
Meta ==
    /\ pc = "meta"
    /\ \E i \in get_item_metadata(cur.path) :
         /\ Take(i) /\ sure' = i.sure
         /\ found' = i.kind
         /\ IF i.kind = "none" \/ (cur.method = "GET" /\ i.kind = "dir") THEN Respond(404)
            ELSE IF NeedsDest(cur) THEN Goto("destmeta")
            ELSE IF cur.method = "GET" THEN Goto("download")
            ELSE IF cur.depth = 1 /\ i.kind = "dir" THEN Goto("children")
            ELSE Respond(207)
    /\ UNCHANGED <<cur, exists, temp, reply, kids, interrupt, requests, card0>>

(* build_multistatus_xml: children that cannot be listed are left out. *)
Children207 ==
    /\ pc = "children"
    /\ \E o \in Request(Simple("list", cur.path)) :
         /\ Take(o)
         /\ kids' = IF o.ret = 1 THEN o.answer ELSE {}
         /\ sure' = (sure /\ o.ret = 1 /\ o.instep)
    /\ Respond(207)
    /\ UNCHANGED <<cur, found, exists, temp, reply, interrupt, requests, card0>>

(* The destination is free. *)
AfterClear == IF cur.method = "MOVE" THEN "rename" ELSE "download"

(* Mutant of DestMeta: the Overwrite header is not looked at. *)
DestMetaOverwrite ==
    /\ pc = "destmeta"
    /\ \E i \in get_item_metadata(cur.dest) :
         /\ Take(i) /\ sure' = i.sure
         /\ exists' = (i.kind # "none")
         /\ Goto(IF i.kind # "none" THEN "clear" ELSE AfterClear)
    /\ UNCHANGED <<cur, found, temp, reply, kids, interrupt, requests, card0>>

(* A destination whose directory cannot be listed does not exist. *)
DestMeta ==
    /\ pc = "destmeta"
    /\ \E i \in get_item_metadata(cur.dest) :
         /\ Take(i) /\ sure' = i.sure
         /\ exists' = (i.kind # "none")
         /\ IF i.kind # "none" /\ ~cur.overwrite THEN Respond(412)
            ELSE Goto(IF i.kind # "none" THEN "clear" ELSE AfterClear)
    /\ UNCHANGED <<cur, found, temp, reply, kids, interrupt, requests, card0>>

(* Mutant of Clear: the source is removed. *)
ClearSource ==
    /\ pc = "clear"
    /\ \E o \in Request(Simple("remove", cur.path)) :
         /\ Take(o)
         /\ Goto(IF o.ret = 1 THEN AfterClear ELSE "cleardir")
    /\ UNCHANGED <<cur, found, exists, temp, reply, kids, interrupt, requests, card0, sure>>

(* The destination is removed before anything is moved or copied. *)
Clear ==
    /\ pc = "clear"
    /\ \E o \in Request(Simple("remove", cur.dest)) :
         /\ Take(o)
         /\ Goto(IF o.ret = 1 THEN AfterClear ELSE "cleardir")
    /\ UNCHANGED <<cur, found, exists, temp, reply, kids, interrupt, requests, card0, sure>>

(* Mutant of ClearDir: it is tried until it succeeds. *)
ClearDirRetry ==
    /\ pc = "cleardir"
    /\ \E o \in Request(Simple("rmdir", cur.dest)) : Take(o) /\ Goto(IF o.ret = 1 THEN AfterClear ELSE "cleardir")
    /\ UNCHANGED <<cur, found, exists, temp, reply, kids, interrupt, requests, card0, sure>>

ClearDir ==
    /\ pc = "cleardir"
    /\ \E o \in Request(Simple("rmdir", cur.dest)) : Take(o) /\ Goto(AfterClear)
    /\ UNCHANGED <<cur, found, exists, temp, reply, kids, interrupt, requests, card0, sure>>

Placed == IF exists THEN 204 ELSE 201

Rename ==
    /\ pc = "rename"
    /\ \E o \in Request(Req("rename", cur.path, cur.dest, <<>>)) :
         /\ Take(o)
         /\ Respond(IF o.ret = 1 THEN Placed ELSE 500)
    /\ UNCHANGED <<cur, found, exists, temp, reply, kids, interrupt, requests, card0, sure>>

(* Mutant of Download: a COPY goes on although its download failed. *)
DownloadUnchecked ==
    /\ pc = "download"
    /\ \E o \in Request(Simple("download", cur.path)) :
         /\ Take(o)
         /\ temp' = o.answer
         /\ IF cur.method = "COPY" THEN Goto("upload") /\ UNCHANGED reply
            ELSE IF o.ret = 1 THEN Respond(200) /\ reply' = o.answer
            ELSE Respond(500) /\ UNCHANGED reply
    /\ UNCHANGED <<cur, found, exists, kids, interrupt, requests, card0, sure>>

(* GET answers with the temporary file, COPY uploads it; both remove it. *)
Download ==
    /\ pc = "download"
    /\ \E o \in Request(Simple("download", cur.path)) :
         /\ Take(o)
         /\ temp' = o.answer
         /\ IF o.ret # 1 THEN Respond(500) /\ UNCHANGED reply
            ELSE IF cur.method = "GET" THEN Respond(200) /\ reply' = o.answer
            ELSE Goto("upload") /\ UNCHANGED reply
    /\ UNCHANGED <<cur, found, exists, kids, interrupt, requests, card0, sure>>

(* Mutant of Temp: the terminator of the string is written, too. *)
TempTerminated ==
    /\ pc = "temp"
    /\ Goto("upload")
    /\ temp' = Append(cur.body, 0) /\ sure' = TRUE
    /\ UNCHANGED <<card, cur, found, exists, reply, kids, interrupt, instep, requests, card0>>

(* The body of a PUT; nobody asks whether all of it was written. *)
Temp ==
    /\ pc = "temp"
    /\ \/ Respond(500) /\ UNCHANGED <<temp, sure>>
       \/ /\ Goto("upload")
          /\ \E n \in 0 .. Len(cur.body) :
               temp' = SubSeq(cur.body, 1, n) /\ sure' = (n = Len(cur.body))
    /\ UNCHANGED <<card, cur, found, exists, reply, kids, interrupt, instep, requests, card0>>

Target == IF cur.method = "PUT" THEN cur.path ELSE cur.dest

Upload ==
    /\ pc = "upload"
    /\ \E o \in Request(Req("upload", Target, Target, temp)) :
         /\ Take(o)
         /\ Respond(IF o.ret = 1 THEN Placed ELSE 500)
    /\ UNCHANGED <<cur, found, exists, temp, reply, kids, interrupt, requests, card0, sure>>

(* Mutant of Delete: a remove that fails means that there is nothing to remove. *)
DeleteNotFound ==
    /\ pc = "remove"
    /\ \E o \in Request(Simple("remove", cur.path)) : Take(o) /\ Respond(IF o.ret = 1 THEN 204 ELSE 404)
    /\ UNCHANGED <<cur, found, exists, temp, reply, kids, interrupt, requests, card0, sure>>

Delete ==
    /\ pc = "remove"
    /\ \E o \in Request(Simple("remove", cur.path)) :
         /\ Take(o)
         /\ IF o.ret = 1 THEN Respond(204) ELSE Goto("rmdir")
    /\ UNCHANGED <<cur, found, exists, temp, reply, kids, interrupt, requests, card0, sure>>

Rmdir ==
    /\ pc = "rmdir"
    /\ \E o \in Request(Simple("rmdir", cur.path)) : Take(o) /\ Respond(IF o.ret = 1 THEN 204 ELSE 500)
    /\ UNCHANGED <<cur, found, exists, temp, reply, kids, interrupt, requests, card0, sure>>

Mkdir ==
    /\ pc = "mkdir"
    /\ \E o \in Request(Simple("mkdir", cur.path)) : Take(o) /\ Respond(IF o.ret = 1 THEN 201 ELSE 500)
    /\ UNCHANGED <<cur, found, exists, temp, reply, kids, interrupt, requests, card0, sure>>

Signal ==
    /\ ~interrupt /\ pc # "stopped"
    /\ interrupt' = TRUE
    /\ UNCHANGED <<card, pc, cur, found, exists, temp, status, reply, kids, instep, requests,
                   card0, sure>>

Init ==
    /\ card \in Cards
    /\ pc = "accept" /\ cur = NoRequest /\ found = "none" /\ exists = FALSE /\ temp = <<>>
    /\ status = 0 /\ reply = <<>> /\ kids = {} /\ interrupt = FALSE /\ instep = TRUE /\ requests = 0
    /\ card0 = card /\ sure = TRUE

(* Headers that a method does not read have their default. *)
RequestsOf(m) ==
    [method : {m}, path : Paths,
     dest : IF m \in {"MOVE", "COPY"} THEN Paths \union {NoDest} ELSE {NoDest},
     overwrite : IF m \in {"MOVE", "COPY"} THEN BOOLEAN ELSE {TRUE},
     body : IF m = "PUT" THEN Bodies ELSE {<<>>},
     depth : IF m = "PROPFIND" THEN {0, 1} ELSE {1}]

Handling == Meta \/ Children207 \/ DestMeta \/ Clear \/ ClearDir \/ Rename \/ Download
              \/ Temp \/ Upload \/ Delete \/ Rmdir \/ Mkdir

Next ==
    \/ Stop \/ Accept \/ ReadError
    \/ \E m \in Methods : \E c \in RequestsOf(m) : ReadRequest(c)
    \/ Handling
    \/ Signal

Spec == Init /\ [][Next]_vars

(* Requests to the console end (RemoteIo!RequestEnds); nothing is assumed of clients. *)
FairSpec == Spec /\ WF_vars(Stop \/ Handling)

-----------------------------------------------------------------------------
(* Types; a temporary file only ever holds a part of what was sent. *)
TypeOK ==
    /\ DOMAIN card = DOMAIN card0
    /\ pc \in {"accept", "read", "stopped", "meta", "children", "destmeta", "clear", "cleardir",
               "rename", "download", "temp", "upload", "remove", "rmdir", "mkdir"}
    /\ status \in {0, 200, 201, 204, 207, 400, 404, 405, 412, 500}
    /\ found \in {"none", "dir", "file"} /\ exists \in BOOLEAN
    /\ cur.method = "PUT" => IsPrefix(temp, cur.body)
    /\ requests \in 0 .. MaxRequests

At(c, p) == IF p = <<>> THEN Dir ELSE c[p]
Done(m) == pc = "accept" /\ cur.method = m
Success == status \in {200, 201, 204, 207}

(* What stood at q before the request stands at p now, with all that is below. *)
MovedTo(q, p) ==
    \A x \in DOMAIN card : IsPrefix(p, x) =>
        LET y == q \o SubSeq(x, Len(p) + 1, Len(x))
        IN  card[x] = IF y \in DOMAIN card0 THEN card0[y] ELSE None

(***************************************************************************)
(* A success of the server is one of the card, over a link that stayed in  *)
(* step and with a whole temporary file: each method has done what the     *)
(* comment of DoWebDavServer says of it, whichever of its requests failed  *)
(* or was refused on the way.                                              *)
(***************************************************************************)
AnswerTrue ==
    instep /\ sure /\ Success =>
        /\ Done("PUT") => card = [card0 EXCEPT ![cur.path] = File(cur.body)]
        /\ Done("DELETE") => card = [card0 EXCEPT ![cur.path] = None]
        /\ Done("MKCOL") => card = [card0 EXCEPT ![cur.path] = Dir]
        /\ Done("MOVE") => MovedTo(cur.path, cur.dest) /\ card[cur.path] = None
        /\ Done("COPY") => card = [card0 EXCEPT ![cur.dest] = At(card0, cur.path)]
        /\ Done("GET") => card = card0 /\ File(reply) = card[cur.path]
        /\ Done("PROPFIND") => card = card0
             /\ (found = "dir" /\ cur.depth = 1 => kids = Children(card, cur.path))

(***************************************************************************)
(* A client error (400, 404, 405, 412) is given before anything is         *)
(* changed, also when the destination of a MOVE or COPY exists.            *)
(***************************************************************************)
RefusedUnchanged == pc = "accept" /\ status \in {400, 404, 405, 412} => card = card0

(***************************************************************************)
(* The status that handle_request sends is true: a success was done, and an *)
(* error of the client changed nothing.                                    *)
(***************************************************************************)
StatusTrue == TypeOK /\ AnswerTrue /\ RefusedUnchanged

(***************************************************************************)
(* MOVE and COPY to another path never lose the source: whatever fails     *)
(* after the destination was removed, the contents of a source file are    *)
(* still where they were or where they should go.                          *)
(***************************************************************************)
SourceKept ==
    instep /\ NeedsDest(cur) /\ cur.dest \in DOMAIN card /\ cur.path \in DOMAIN card
        /\ ~IsPrefix(cur.dest, cur.path) /\ card0[cur.path].kind = "file" =>
        card0[cur.path] \in {card[cur.path], card[cur.dest]}

(***************************************************************************)
(* "Overwrite: F" keeps an existing destination, as long as the listing in *)
(* which it is looked for is complete: a listing that fails counts as no   *)
(* destination, and COPY then overwrites it.                               *)
(***************************************************************************)
OverwriteRespected ==
    sure /\ NeedsDest(cur) /\ ~cur.overwrite /\ cur.dest \in DOMAIN card
        /\ card0[cur.dest].kind # "none" => card[cur.dest] = card0[cur.dest]

(***************************************************************************)
(* Ctrl+C stops the server after the request in progress.  Only a client   *)
(* that is connected and says nothing keeps it: http::read has no limit.   *)
(***************************************************************************)
StopsOrWaits == interrupt ~> pc \in {"stopped", "read"}

(***************************************************************************)
(* The comment of DoWebDavServer: "MOVE: Renames or moves                  *)
(* files/directories on the cartridge."  A MOVE of a file onto itself (or  *)
(* onto its name in another case) removes it.                              *)
(***************************************************************************)
MoveKeepsFile ==
    instep /\ Done("MOVE") /\ cur.dest # NoDest /\ cur.path \in DOMAIN card
        /\ card0[cur.path].kind = "file" =>
        \E p \in DOMAIN card : card[p] = card0[cur.path]

=============================================================================
