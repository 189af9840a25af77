---------------------------- MODULE WebDavProofs ----------------------------
(***************************************************************************)
(* Proofs about the WebDAV server: the status it sends is true             *)
(* (StatusTrue), MOVE and COPY never lose the source (SourceKept), and     *)
(* "Overwrite: F" keeps an existing destination (OverwriteRespected), for  *)
(* every card, every number of requests and whatever the console answers.  *)
(*                                                                         *)
(* The inductive invariant says for each step of handle_request what the   *)
(* requests sent so far have done to the card: over a link in step either  *)
(* nothing, or the destination is gone.  It needs the card to be a tree,   *)
(* which every request keeps: only then does a MOVE that the console       *)
(* carries out leave nothing at its source.                                *)
(***************************************************************************)
EXTENDS WebDav, CardProofs

(* Served: the server is between two requests. *)
Served == {"accept", "read", "stopped"}
Untouched == {"meta", "children", "destmeta", "clear", "temp", "remove", "mkdir"}

(* The request that the server handles. *)
Asked == cur = NoRequest \/ \E m \in Methods : cur \in RequestsOf(m)

Types ==
    /\ IsTree(card) /\ DOMAIN card = DOMAIN card0
    /\ pc \in Served \union Untouched \union {"cleardir", "rename", "download", "upload", "rmdir"}
    /\ Asked
    /\ status \in {0, 200, 201, 204, 207, 400, 404, 405, 412, 500}
    /\ found \in {"none", "dir", "file"} /\ exists \in BOOLEAN
    /\ interrupt \in BOOLEAN /\ instep \in BOOLEAN /\ sure \in BOOLEAN
    /\ cur.method = "PUT" => IsPrefix(temp, cur.body)
    /\ requests \in 0 .. MaxRequests

(* The steps that a method takes. *)
MethodOf ==
    /\ pc = "meta" => cur.method \in {"GET", "MOVE", "COPY", "PROPFIND"}
    /\ pc = "children" => cur.method = "PROPFIND"
    /\ pc \in {"destmeta", "clear", "cleardir"} => cur.method \in {"MOVE", "COPY"}
    /\ pc = "rename" => cur.method = "MOVE"
    /\ pc = "download" => cur.method \in {"GET", "COPY"}
    /\ pc = "temp" => cur.method = "PUT"
    /\ pc = "upload" => cur.method \in {"PUT", "COPY"}
    /\ pc \in {"remove", "rmdir"} => cur.method = "DELETE"
    /\ pc = "mkdir" => cur.method = "MKCOL"

(* What a request has done to the card so far. *)
SoFar ==
    /\ pc \in Untouched => card = card0
    /\ pc \in {"download", "upload"} /\ ~NeedsDest(cur) => card = card0
    /\ pc \in {"cleardir", "rmdir"} /\ instep => card = card0
    /\ pc \in {"rename", "download", "upload"} /\ NeedsDest(cur) /\ instep =>
         card = card0 \/ card = [card0 EXCEPT ![cur.dest] = None]

(* What is uploaded is what the client sent, or what the source holds. *)
Buffered ==
    /\ pc = "upload" /\ cur.method = "PUT" /\ sure => temp = cur.body
    /\ pc = "upload" /\ cur.method = "COPY" /\ instep =>
         cur.path \in DOMAIN card0 /\ card0[cur.path] = File(temp)

(* Without Overwrite the destination was not there. *)
DestFree ==
    /\ pc \in {"clear", "cleardir"} => cur.overwrite
    /\ pc \in {"rename", "download", "upload"} /\ NeedsDest(cur) /\ ~cur.overwrite /\ sure =>
         (cur.dest \in DOMAIN card0 => card0[cur.dest].kind = "none")

(* AnswerTrue and RefusedUnchanged, until the next request is read. *)
Delivered ==
    /\ cur.method = "PUT" => card = [card0 EXCEPT ![cur.path] = File(cur.body)]
    /\ cur.method = "DELETE" => card = [card0 EXCEPT ![cur.path] = None]
    /\ cur.method = "MKCOL" => card = [card0 EXCEPT ![cur.path] = Dir]
    /\ cur.method = "MOVE" => MovedTo(cur.path, cur.dest) /\ card[cur.path] = None
    /\ cur.method = "COPY" => card = [card0 EXCEPT ![cur.dest] = At(card0, cur.path)]
    /\ cur.method = "GET" => card = card0 /\ File(reply) = card[cur.path]
    /\ cur.method = "PROPFIND" => card = card0
         /\ (found = "dir" /\ cur.depth = 1 => kids = Children(card, cur.path))

Answers ==
    pc \in Served =>
        /\ instep /\ sure /\ Success => Delivered
        /\ status \in {400, 404, 405, 412} => card = card0

Inv == Types /\ MethodOf /\ SoFar /\ Buffered /\ DestFree /\ Answers /\ SourceKept /\ OverwriteRespected

-----------------------------------------------------------------------------
(* What a request to the console can end with *)

(* What every outcome of a request to the console tells. *)
LEMMA OutcomeFacts ==
  ASSUME Types, NEW r, NEW o \in Request(r)
  PROVE  Told(o, r, card) /\ (o.instep => instep) /\ IsTree(card)
<1>1. IsTree(card) /\ instep \in BOOLEAN /\ interrupt \in BOOLEAN
  BY DEF Types
<1>2. Told(o, r, card) /\ (o.instep => instep)
  BY <1>1, OutcomeTold DEF Request
<1> QED
  BY <1>1, <1>2

(* What a listing tells. *)
LEMMA ListingFacts ==
  ASSUME Types, NEW p, NEW o \in Request(Simple("list", p))
  PROVE  /\ o.ret \in {0, 1} /\ o.instep \in BOOLEAN /\ (o.instep => instep)
         /\ o.card = card /\ (o.ret = 1 => o.answer \subseteq Children(card, p))
         /\ o.ret = 1 /\ o.instep => o.answer = Children(card, p)
<1>1. Told(o, Simple("list", p), card) /\ (o.instep => instep) /\ IsTree(card)
  BY OutcomeFacts
<1> QED
  BY <1>1, ListTold

(* What a removal tells. *)
LEMMA RemoveOutcome ==
  ASSUME Types, NEW p, NEW op \in {"remove", "rmdir"}, NEW o \in Request(Simple(op, p))
  PROVE  /\ o.ret \in {0, 1} /\ o.instep \in BOOLEAN /\ (o.instep => instep)
         /\ IsTree(o.card) /\ DOMAIN o.card = DOMAIN card
         /\ o.instep => \/ o.ret = 1 /\ p \in DOMAIN card /\ o.card = [card EXCEPT ![p] = None]
                        \/ o.ret = 0 /\ o.card = card
<1>1. Told(o, Simple(op, p), card) /\ (o.instep => instep) /\ IsTree(card)
  BY OutcomeFacts
<1>2. /\ o.ret \in {0, 1} /\ o.instep \in BOOLEAN /\ IsTree(o.card) /\ DOMAIN o.card = DOMAIN card
      /\ o.card = card \/ (p \in DOMAIN card /\ o.card = [card EXCEPT ![p] = None])
      /\ o.instep => (o.ret = 1 /\ p \in DOMAIN card /\ o.card = [card EXCEPT ![p] = None]) \/ (o.ret = 0 /\ o.card = card)
  BY <1>1, RemoveTold
<1> QED
  BY <1>1, <1>2

(* What a new directory tells. *)
LEMMA MkdirOutcome ==
  ASSUME Types, NEW p, NEW o \in Request(Simple("mkdir", p))
  PROVE  /\ o.ret \in {0, 1} /\ o.instep \in BOOLEAN /\ (o.instep => instep)
         /\ IsTree(o.card) /\ DOMAIN o.card = DOMAIN card
         /\ o.instep => \/ o.ret = 1 /\ o.card = [card EXCEPT ![p] = Dir]
                        \/ o.ret = 0 /\ o.card = card
<1>1. Told(o, Simple("mkdir", p), card) /\ (o.instep => instep) /\ IsTree(card)
  BY OutcomeFacts
<1> QED
  BY <1>1, MkdirTold

(* What a rename tells. *)
LEMMA RenameOutcome ==
  ASSUME Types, NEW p, NEW q, NEW o \in Request(Req("rename", p, q, <<>>))
  PROVE  /\ o.ret \in {0, 1} /\ o.instep \in BOOLEAN /\ (o.instep => instep)
         /\ IsTree(o.card) /\ DOMAIN o.card = DOMAIN card
         /\ o.instep => \/ o.ret = 1 /\ RenamedTo(o, card, p, q)
                        \/ o.ret = 0 /\ o.card = card
<1>1. Told(o, Req("rename", p, q, <<>>), card) /\ (o.instep => instep) /\ IsTree(card)
  BY OutcomeFacts
<1> QED
  BY <1>1, RenameTold

(* What a download tells. *)
LEMMA DownloadOutcome ==
  ASSUME Types, NEW p, NEW o \in Request(Simple("download", p))
  PROVE  /\ o.ret \in {0, 1} /\ o.instep \in BOOLEAN /\ (o.instep => instep)
         /\ o.card = card
         /\ o.instep /\ o.ret = 1 => p \in DOMAIN card /\ card[p].kind = "file" /\ card[p] = File(o.answer)
<1>1. Told(o, Simple("download", p), card) /\ (o.instep => instep) /\ IsTree(card)
  BY OutcomeFacts
<1> QED
  BY <1>1, DownloadTold

(* get_item_metadata never tells of what is not there, and a complete listing tells of all. *)
LEMMA Metadata ==
  ASSUME Types, NEW p, NEW e \in get_item_metadata(p)
  PROVE  /\ e.card = card /\ e.instep \in BOOLEAN /\ (e.instep => instep)
         /\ e.sure \in BOOLEAN /\ (e.sure => sure) /\ e.kind \in {"none", "dir", "file"}
         /\ e.sure /\ p \in DOMAIN card /\ e.kind = "none" => card[p].kind = "none"
<1>1. IsTree(card) /\ instep \in BOOLEAN /\ sure \in BOOLEAN /\ interrupt \in BOOLEAN
  BY DEF Types
<1>2. CASE p = <<>>
  <2>1. e = [kind |-> "dir", card |-> card, instep |-> instep, sure |-> sure]
    BY <1>2 DEF get_item_metadata
  <2>2. e.card = card /\ e.kind = "dir"
    BY <2>1
  <2>3. e.instep = instep
    BY <2>1, Zenon
  <2>4. e.sure = sure
    BY <2>1, Zenon
  <2> QED
    BY <1>1, <2>2, <2>3, <2>4
<1>3. CASE p # <<>>
  <2>1. PICK o \in Request(Simple("list", Front(p))) :
           e = [kind |-> IF o.ret = 1 /\ p \in o.answer THEN card[p].kind ELSE "none",
                card |-> o.card, instep |-> o.instep, sure |-> sure /\ o.ret = 1 /\ o.instep]
    BY <1>3, Zenon DEF get_item_metadata
  <2>2. /\ o.ret \in {0, 1} /\ o.instep \in BOOLEAN /\ o.card = card
        /\ o.ret = 1 => o.answer \subseteq Children(card, Front(p))
        /\ o.ret = 1 /\ o.instep => o.answer = Children(card, Front(p))
        /\ o.instep => instep
    BY ListingFacts
  <2>3. e.card = o.card /\ e.kind = IF o.ret = 1 /\ p \in o.answer THEN card[p].kind ELSE "none"
    BY <2>1, Zenon
  <2>4. e.instep = o.instep
    BY <2>1, Zenon
  <2>5. e.sure = (sure /\ o.ret = 1 /\ o.instep)
    BY <2>1, Zenon
  <2>6. e.kind \in {"none", "dir", "file"}
    <3>1. CASE o.ret = 1 /\ p \in o.answer
      <4>1. p \in DOMAIN card
        BY <2>2, <3>1 DEF Children
      <4>2. Item(card[p])
        BY <1>1, <4>1, TreeParts
      <4> QED
        BY <2>3, <3>1, <4>2, Items
    <3> QED
      BY <2>3, <3>1
  <2>7. e.sure /\ p \in DOMAIN card /\ e.kind = "none" => card[p].kind = "none"
    <3> SUFFICES ASSUME e.sure, p \in DOMAIN card, card[p].kind # "none" PROVE e.kind # "none"
      OBVIOUS
    <3>1. o.ret = 1 /\ o.answer = Children(card, Front(p))
      BY <2>2, <2>5
    <3>2. p \in Children(card, Front(p))
      BY <1>3 DEF Children
    <3> QED
      BY <2>3, <3>1, <3>2
  <2>8. e.sure \in BOOLEAN /\ (e.sure => sure)
    BY <1>1, <2>2, <2>5
  <2> QED
    BY <2>2, <2>3, <2>4, <2>6, <2>7, <2>8
<1> QED
  BY <1>2, <1>3

-----------------------------------------------------------------------------
(* Steps of the server *)

(* A temporary file that holds the first n bytes of the body. *)
LEMMA Written ==
  ASSUME NEW b \in Seq(Nat), NEW n \in 0 .. Len(b)
  PROVE  IsPrefix(SubSeq(b, 1, n), b) /\ (n = Len(b) => SubSeq(b, 1, n) = b)
<1> DEFINE s == SubSeq(b, 1, n)
           t == SubSeq(s, 1, n)
<1>1. Len(b) \in Nat /\ \A i \in 1 .. Len(b) : b[i] \in Nat
  BY LenProperties, ElementOfSeq
<1>2. s \in Seq(Nat) /\ Len(s) = n /\ \A i \in 1 .. n : s[i] = b[i]
  BY <1>1, SubSeqProperties
<1> HIDE DEF s
<1>3. t \in Seq(Nat) /\ Len(t) = n /\ \A i \in 1 .. n : t[i] = s[i]
  <2>1. \A i \in 1 .. n : s[i] \in Nat
    BY <1>2, ElementOfSeq
  <2> QED
    BY <1>1, <1>2, <2>1, SubSeqProperties
<1> HIDE DEF t
<1>4. t = s
  BY <1>2, <1>3, SeqEqual
<1>5. n = Len(b) => s = b
  BY <1>1, <1>2, SeqEqual
<1>6. Len(s) =< Len(b) /\ SubSeq(s, 1, Len(s)) = SubSeq(b, 1, Len(s))
  <2>1. SubSeq(s, 1, n) = SubSeq(b, 1, n)
    BY <1>4 DEF t, s
  <2> QED
    BY <1>1, <1>2, <2>1
<1>7. IsPrefix(s, b)
  BY <1>6 DEF IsPrefix
<1> QED
  BY <1>5, <1>7 DEF s

(* An empty temporary file is a prefix of every body. *)
LEMMA NothingWritten ==
  ASSUME NEW b \in Seq(Nat) PROVE IsPrefix(<<>>, b)
<1>1. Len(b) \in Nat
  BY LenProperties
<1>2. SubSeq(<<>>, 1, 0) = SubSeq(b, 1, 0)
  BY SubSeqProperties, <1>1
<1> QED
  BY <1>1, <1>2 DEF IsPrefix

(* What is known of a request. *)
LEMMA Headers ==
  ASSUME NEW m \in Methods, NEW c \in RequestsOf(m)
  PROVE  c.method = m /\ c.body \in Seq(Nat) /\ c.depth \in {0, 1}
<1>1. \A d \in (IF m = "PUT" THEN Bodies ELSE {<<>>}) : d \in Seq(Nat)
  <2>1. \A d \in Bodies : d \in Seq(Nat)
    BY WebDavAssumption
  <2>2. <<>> \in Seq(Nat)
    OBVIOUS
  <2> QED
    BY <2>1, <2>2
<1>2. \A d \in (IF m = "PROPFIND" THEN {0, 1} ELSE {1}) : d \in {0, 1}
  OBVIOUS
<1>3. c.method \in {m} /\ c.body \in (IF m = "PUT" THEN Bodies ELSE {<<>>})
      /\ c.depth \in (IF m = "PROPFIND" THEN {0, 1} ELSE {1})
  BY DEF RequestsOf
<1> QED
  BY <1>1, <1>2, <1>3

(* What is known of the request that is handled. *)
LEMMA HeadersOfCur ==
  ASSUME Asked
  PROVE  cur.method \in Methods \union {"none"} /\ cur.body \in Seq(Nat) /\ cur.depth \in {0, 1}
<1>1. CASE cur = NoRequest
  <2>1. cur.method = "none" /\ cur.body = <<>> /\ cur.depth = 1
    BY <1>1 DEF NoRequest
  <2> QED
    BY <2>1
<1>2. CASE \E m \in Methods : cur \in RequestsOf(m)
  BY <1>2, Headers
<1> QED
  BY <1>1, <1>2 DEF Asked

(* Once the response is sent, only the answer is left to account for. *)
LEMMA Ended ==
  ASSUME pc' \in Served
  PROVE  MethodOf' /\ SoFar' /\ Buffered' /\ DestFree'
  BY DEF Served, Untouched, MethodOf, SoFar, Buffered, DestFree

(* A step that leaves the card alone. *)
LEMMA CardLeft ==
  ASSUME SourceKept, OverwriteRespected, card' = card, cur' = cur, card0' = card0,
         instep \in BOOLEAN, instep' \in BOOLEAN, sure \in BOOLEAN, sure' \in BOOLEAN,
         instep' => instep, sure' => sure
  PROVE  SourceKept' /\ OverwriteRespected'
<1>1. SourceKept'
  BY DEF SourceKept, NeedsDest
<1>2. OverwriteRespected'
  BY DEF OverwriteRespected, NeedsDest
<1> QED
  BY <1>1, <1>2

(* A step that changes none of the variables that the parts of Inv speak of, but pc. *)
LEMMA StopStep ==
  ASSUME Inv, Stop PROVE Inv'
<1>1. pc \in Served /\ pc' \in Served
  BY DEF Stop, Served
<1>2. Types'
  BY <1>1 DEF Inv, Types, Stop, Asked
<1>3. Answers'
  BY <1>1 DEF Inv, Answers, Stop, Delivered, Success, MovedTo
<1>4. SourceKept' /\ OverwriteRespected'
  BY CardLeft DEF Inv, Types, Stop
<1> QED
  BY <1>1, <1>2, <1>3, <1>4, Ended DEF Inv

(* A connection is accepted. *)
LEMMA AcceptStep ==
  ASSUME Inv, Accept PROVE Inv'
<1>1. pc \in Served /\ pc' \in Served
  BY DEF Accept, Served
<1>2. Types'
  BY <1>1, WebDavAssumption DEF Inv, Types, Accept, Asked
<1>3. Answers'
  BY <1>1 DEF Inv, Answers, Accept, Delivered, Success, MovedTo
<1>4. SourceKept' /\ OverwriteRespected'
  BY CardLeft DEF Inv, Types, Accept
<1> QED
  BY <1>1, <1>2, <1>3, <1>4, Ended DEF Inv

(* A request that cannot be read. *)
LEMMA ReadErrorStep ==
  ASSUME Inv, ReadError PROVE Inv'
<1>1. pc \in Served /\ pc' \in Served
  BY DEF ReadError, Served
<1>2. Types'
  BY <1>1 DEF Inv, Types, ReadError, Asked
<1>3. Answers'
  BY <1>1 DEF Inv, Answers, ReadError, Delivered, Success, MovedTo
<1>4. SourceKept' /\ OverwriteRespected'
  BY CardLeft DEF Inv, Types, ReadError
<1> QED
  BY <1>1, <1>2, <1>3, <1>4, Ended DEF Inv

(* Ctrl+C, and a step that changes nothing. *)
LEMMA SignalStep ==
  ASSUME Inv, Signal \/ UNCHANGED vars PROVE Inv'
<1>1. UNCHANGED <<card, pc, cur, found, exists, temp, status, reply, kids, instep, requests, card0, sure>>
      /\ interrupt' \in BOOLEAN
  BY DEF Signal, vars, Inv, Types
<1>2. Types'
  BY <1>1 DEF Inv, Types, Asked
<1>3. Answers'
  BY <1>1 DEF Inv, Answers, Delivered, Success, MovedTo
<1>4. MethodOf' /\ SoFar' /\ Buffered' /\ DestFree'
  BY <1>1 DEF Inv, MethodOf, SoFar, Buffered, DestFree, NeedsDest
<1>5. SourceKept' /\ OverwriteRespected'
  BY <1>1, CardLeft DEF Inv, Types
<1> QED
  BY <1>2, <1>3, <1>4, <1>5 DEF Inv

(* A request is read, and the history starts from the card it finds. *)
LEMMA ReadRequestStep ==
  ASSUME Inv, NEW m \in Methods, NEW c \in RequestsOf(m), ReadRequest(c) PROVE Inv'
<1>1. /\ pc = "read" /\ cur' = c /\ found' = "none" /\ exists' = FALSE /\ temp' = <<>> /\ reply' = <<>>
      /\ kids' = {} /\ card0' = card /\ sure' = TRUE
      /\ UNCHANGED <<card, interrupt, instep, requests>>
  BY DEF ReadRequest
<1>2. c.method = m /\ c.body \in Seq(Nat)
  BY Headers
<1>3. \/ pc' = "accept" /\ status' = 400
      \/ pc' = "accept" /\ status' = 200 /\ c.method = "OPTIONS"
      \/ pc' = "accept" /\ status' = 405 /\ c.method = "OTHER"
      \/ pc' = "temp" /\ status' = status /\ c.method = "PUT"
      \/ pc' = "remove" /\ status' = status /\ c.method = "DELETE"
      \/ pc' = "mkdir" /\ status' = status /\ c.method = "MKCOL"
      \/ pc' = "meta" /\ status' = status /\ c.method \in {"GET", "MOVE", "COPY", "PROPFIND"}
  BY <1>2 DEF ReadRequest, Respond, Goto, Methods
<1>4. Types'
  <2>1. IsPrefix(<<>>, c.body)
    BY <1>2, NothingWritten
  <2>2. Asked'
    BY <1>1 DEF Asked
  <2>3. pc' \in Served \union Untouched
    BY <1>3 DEF Served, Untouched
  <2>4. status' \in {0, 200, 201, 204, 207, 400, 404, 405, 412, 500}
    BY <1>3 DEF Inv, Types
  <2>5. IsTree(card') /\ DOMAIN card' = DOMAIN card0' /\ found' \in {"none", "dir", "file"}
        /\ requests' \in 0 .. MaxRequests
    BY <1>1 DEF Inv, Types
  <2>6. exists' \in BOOLEAN /\ interrupt' \in BOOLEAN /\ instep' \in BOOLEAN /\ sure' \in BOOLEAN
    BY <1>1 DEF Inv, Types
  <2>7. cur'.method = "PUT" => IsPrefix(temp', cur'.body)
    BY <1>1, <2>1
  <2> QED
    BY <2>2, <2>3, <2>4, <2>5, <2>6, <2>7 DEF Types
<1>5. MethodOf'
  BY <1>1, <1>3 DEF MethodOf
<1>6. SoFar' /\ Buffered' /\ DestFree'
  BY <1>1, <1>3 DEF SoFar, Buffered, DestFree, Untouched
<1>7. Answers'
  <2>1. pc' \in Served => status' \in {400, 405} \/ cur'.method = "OPTIONS"
    BY <1>1, <1>3 DEF Served
  <2>2. card' = card0'
    BY <1>1
  <2> QED
    BY <2>1, <2>2 DEF Answers, Success, Delivered
<1>8. SourceKept' /\ OverwriteRespected'
  BY <1>1 DEF SourceKept, OverwriteRespected
<1> QED
  BY <1>4, <1>5, <1>6, <1>7, <1>8 DEF Inv

Labels == Served \union Untouched \union {"cleardir", "rename", "download", "upload", "rmdir"}
Statuses == {0, 200, 201, 204, 207, 400, 404, 405, 412, 500}

(* A step of handle_request keeps the request, and the requests to the console the tree. *)
LEMMA TypesKept ==
  ASSUME Types, cur' = cur, card0' = card0, interrupt' = interrupt, requests' = requests,
         IsTree(card'), DOMAIN card' = DOMAIN card, pc' \in Labels, status' \in Statuses,
         found' \in {"none", "dir", "file"}, exists' \in BOOLEAN, instep' \in BOOLEAN, sure' \in BOOLEAN,
         cur.method = "PUT" => temp' = temp
  PROVE  Types'
<1>1. IsTree(card') /\ DOMAIN card' = DOMAIN card0' /\ pc' \in Labels /\ status' \in Statuses
      /\ found' \in {"none", "dir", "file"} /\ requests' \in 0 .. MaxRequests
  BY DEF Types
<1>2. Asked'
  BY DEF Types, Asked
<1>3. cur'.method = "PUT" => IsPrefix(temp', cur'.body)
  BY DEF Types
<1>4. exists' \in BOOLEAN /\ instep' \in BOOLEAN /\ sure' \in BOOLEAN /\ interrupt' \in BOOLEAN
  BY DEF Types
<1> QED
  BY <1>1, <1>2, <1>3, <1>4 DEF Types, Labels, Statuses

(* The metadata of the path of the request. *)
LEMMA MetaStep ==
  ASSUME Inv, Meta PROVE Inv'
<1>1. /\ pc = "meta" /\ cur' = cur /\ card0' = card0 /\ exists' = exists /\ temp' = temp
      /\ interrupt' = interrupt /\ requests' = requests
  BY DEF Meta
<1>2. PICK e \in get_item_metadata(cur.path) :
         /\ card' = e.card /\ instep' = e.instep /\ sure' = e.sure /\ found' = e.kind
         /\ IF e.kind = "none" \/ (cur.method = "GET" /\ e.kind = "dir") THEN Respond(404)
            ELSE IF NeedsDest(cur) THEN Goto("destmeta")
            ELSE IF cur.method = "GET" THEN Goto("download")
            ELSE IF cur.depth = 1 /\ e.kind = "dir" THEN Goto("children")
            ELSE Respond(207)
  BY Zenon DEF Meta, Take
<1>3. Types
  BY DEF Inv
<1>4. /\ e.card = card /\ e.instep \in BOOLEAN /\ (e.instep => instep)
      /\ e.sure \in BOOLEAN /\ (e.sure => sure) /\ e.kind \in {"none", "dir", "file"}
  BY <1>3, Metadata
<1>5. card' = card /\ card = card0
  BY <1>1, <1>2, <1>4 DEF Inv, SoFar, Untouched
<1>6. /\ instep' \in BOOLEAN /\ (instep' => instep)
      /\ sure' \in BOOLEAN /\ (sure' => sure) /\ found' \in {"none", "dir", "file"}
  BY <1>2, <1>4
<1>7. cur.method \in {"GET", "MOVE", "COPY", "PROPFIND"}
  BY <1>1 DEF Inv, MethodOf
<1>8. \/ pc' = "accept" /\ status' = 404
      \/ pc' = "destmeta" /\ status' = status /\ cur.method \in {"MOVE", "COPY"}
      \/ pc' = "download" /\ status' = status /\ cur.method = "GET"
      \/ pc' = "children" /\ status' = status /\ cur.method = "PROPFIND"
      \/ pc' = "accept" /\ status' = 207 /\ cur.method = "PROPFIND" /\ ~(cur.depth = 1 /\ found' = "dir")
  BY <1>2, <1>7 DEF Respond, Goto, NeedsDest
<1>9. Types'
  <2>1. pc' \in Labels /\ status' \in Statuses
    BY <1>3, <1>8 DEF Types, Labels, Statuses, Served, Untouched
  <2>2. IsTree(card') /\ DOMAIN card' = DOMAIN card /\ exists' \in BOOLEAN
    BY <1>1, <1>3, <1>5 DEF Types
  <2> QED
    BY <1>1, <1>3, <1>6, <2>1, <2>2, TypesKept
<1>10. MethodOf'
  BY <1>1, <1>8 DEF MethodOf
<1>11. SoFar' /\ Buffered' /\ DestFree'
  BY <1>1, <1>5, <1>8 DEF SoFar, Buffered, DestFree, Untouched, NeedsDest
<1>12. Answers'
  <2>1. pc' \in Served => \/ status' = 404
                          \/ status' = 207 /\ cur.method = "PROPFIND" /\ ~(cur.depth = 1 /\ found' = "dir")
    BY <1>8 DEF Served
  <2>2. card' = card0'
    BY <1>1, <1>5
  <2>3. ASSUME cur.method = "PROPFIND", ~(cur.depth = 1 /\ found' = "dir") PROVE Delivered'
    BY <1>1, <2>2, <2>3 DEF Delivered
  <2> QED
    BY <2>1, <2>2, <2>3 DEF Answers, Success
<1>13. SourceKept' /\ OverwriteRespected'
  BY <1>1, <1>3, <1>5, <1>6, CardLeft DEF Inv, Types
<1> QED
  BY <1>9, <1>10, <1>11, <1>12, <1>13 DEF Inv

(* The listing of PROPFIND. *)
LEMMA Children207Step ==
  ASSUME Inv, Children207 PROVE Inv'
<1>1. /\ pc = "children" /\ pc' = "accept" /\ status' = 207 /\ cur' = cur /\ card0' = card0
      /\ exists' = exists /\ temp' = temp /\ found' = found
      /\ interrupt' = interrupt /\ requests' = requests
  BY DEF Children207, Respond
<1>2. PICK o \in Request(Simple("list", cur.path)) :
         /\ card' = o.card /\ instep' = o.instep /\ kids' = IF o.ret = 1 THEN o.answer ELSE {}
         /\ sure' = (sure /\ o.ret = 1 /\ o.instep)
  BY Zenon DEF Children207, Take
<1>3. Types
  BY DEF Inv
<1>4. /\ o.ret \in {0, 1} /\ o.instep \in BOOLEAN /\ o.card = card
      /\ o.ret = 1 /\ o.instep => o.answer = Children(card, cur.path)
      /\ o.instep => instep
  BY <1>3, ListingFacts
<1>5. card' = card /\ card = card0
  BY <1>1, <1>2, <1>4 DEF Inv, SoFar, Untouched
<1>6. instep' \in BOOLEAN /\ (instep' => instep) /\ sure' \in BOOLEAN /\ (sure' => sure)
  BY <1>2, <1>3, <1>4 DEF Types
<1>7. sure' => kids' = Children(card, cur.path)
  BY <1>2, <1>4
<1>8. Types'
  <2>1. pc' \in Labels /\ status' \in Statuses
    BY <1>1 DEF Labels, Statuses, Served
  <2>2. IsTree(card') /\ DOMAIN card' = DOMAIN card /\ exists' \in BOOLEAN /\ found' \in {"none", "dir", "file"}
    BY <1>1, <1>3, <1>5 DEF Types
  <2> QED
    BY <1>1, <1>3, <1>6, <2>1, <2>2, TypesKept
<1>9. Answers'
  <2>1. cur.method = "PROPFIND"
    BY <1>1 DEF Inv, MethodOf
  <2>2. ASSUME kids' = Children(card, cur.path) PROVE Delivered'
    <3>1. card' = card0' /\ cur' = cur /\ kids' = Children(card', cur'.path) /\ cur'.method = "PROPFIND"
      BY <1>1, <1>5, <2>1, <2>2
    <3> QED
      BY <3>1 DEF Delivered
  <2> QED
    BY <1>1, <1>7, <2>2 DEF Answers
<1>10. SourceKept' /\ OverwriteRespected'
  BY <1>1, <1>3, <1>5, <1>6, CardLeft DEF Inv, Types
<1>11. pc' \in Served
  BY <1>1 DEF Served
<1> QED
  BY <1>8, <1>9, <1>10, <1>11, Ended DEF Inv

(* The metadata of the destination, and Overwrite. *)
LEMMA DestMetaStep ==
  ASSUME Inv, DestMeta PROVE Inv'
<1>1. /\ pc = "destmeta" /\ cur' = cur /\ card0' = card0 /\ found' = found /\ temp' = temp
      /\ interrupt' = interrupt /\ requests' = requests
  BY DEF DestMeta
<1>2. PICK e \in get_item_metadata(cur.dest) :
         /\ card' = e.card /\ instep' = e.instep /\ sure' = e.sure /\ exists' = (e.kind # "none")
         /\ IF e.kind # "none" /\ ~cur.overwrite THEN Respond(412)
            ELSE Goto(IF e.kind # "none" THEN "clear" ELSE AfterClear)
  BY Zenon DEF DestMeta, Take
<1>3. Types
  BY DEF Inv
<1>4. /\ e.card = card /\ e.instep \in BOOLEAN /\ (e.instep => instep)
      /\ e.sure \in BOOLEAN /\ (e.sure => sure) /\ e.kind \in {"none", "dir", "file"}
      /\ e.sure /\ cur.dest \in DOMAIN card /\ e.kind = "none" => card[cur.dest].kind = "none"
  BY <1>3, Metadata
<1>5. card' = card /\ card = card0
  BY <1>1, <1>2, <1>4 DEF Inv, SoFar, Untouched
<1>6. /\ instep' \in BOOLEAN /\ (instep' => instep) /\ sure' \in BOOLEAN /\ (sure' => sure)
      /\ exists' \in BOOLEAN
  BY <1>2, <1>4
<1>7. cur.method \in {"MOVE", "COPY"}
  BY <1>1 DEF Inv, MethodOf
<1>8. \/ pc' = "accept" /\ status' = 412
      \/ pc' = "clear" /\ status' = status /\ cur.overwrite
      \/ pc' = "rename" /\ status' = status /\ cur.method = "MOVE" /\ e.kind = "none"
      \/ pc' = "download" /\ status' = status /\ cur.method = "COPY" /\ e.kind = "none"
  <2>1. CASE e.kind # "none" /\ ~cur.overwrite
    BY <1>2, <2>1 DEF Respond
  <2>2. CASE e.kind # "none" /\ cur.overwrite
    BY <1>2, <2>2 DEF Goto
  <2>3. CASE e.kind = "none"
    BY <1>2, <1>7, <2>3 DEF Goto, AfterClear
  <2> QED
    BY <2>1, <2>2, <2>3
<1>9. Types'
  <2>1. pc' \in Labels /\ status' \in Statuses
    BY <1>3, <1>8 DEF Types, Labels, Statuses, Served, Untouched
  <2>2. IsTree(card') /\ DOMAIN card' = DOMAIN card /\ found' \in {"none", "dir", "file"}
    BY <1>1, <1>3, <1>5 DEF Types
  <2> QED
    BY <1>1, <1>3, <1>6, <2>1, <2>2, TypesKept
<1>10. MethodOf'
  BY <1>1, <1>7, <1>8 DEF MethodOf
<1>11. SoFar' /\ Buffered'
  BY <1>1, <1>5, <1>8 DEF SoFar, Buffered, Untouched, NeedsDest
<1>12. DestFree'
  <2>1. pc' \in {"clear", "cleardir"} => cur'.overwrite
    BY <1>1, <1>8
  <2>2. pc' \in {"rename", "download", "upload"} /\ sure' /\ cur'.dest \in DOMAIN card0' =>
           card0'[cur'.dest].kind = "none"
    BY <1>1, <1>2, <1>4, <1>5, <1>8
  <2> QED
    BY <2>1, <2>2 DEF DestFree
<1>13. Answers'
  BY <1>1, <1>5, <1>8 DEF Answers, Served, Success
<1>14. SourceKept' /\ OverwriteRespected'
  BY <1>1, <1>3, <1>5, <1>6, CardLeft DEF Inv, Types
<1> QED
  BY <1>9, <1>10, <1>11, <1>12, <1>13, <1>14 DEF Inv

(* One request of the two that clear the destination. *)
LEMMA ClearedStep ==
  ASSUME Inv, pc \in {"clear", "cleardir"}, cur' = cur, card0' = card0, found' = found, exists' = exists,
         temp' = temp, interrupt' = interrupt, requests' = requests, sure' = sure, status' = status,
         NEW op \in {"remove", "rmdir"}, NEW o \in Request(Simple(op, cur.dest)),
         card' = o.card, instep' = o.instep,
         pc' = AfterClear \/ (pc' = "cleardir" /\ o.ret # 1)
  PROVE  Inv'
<1>1. Types
  BY DEF Inv
<1>2. /\ o.ret \in {0, 1} /\ o.instep \in BOOLEAN /\ (o.instep => instep)
      /\ IsTree(o.card) /\ DOMAIN o.card = DOMAIN card
      /\ o.instep => \/ o.ret = 1 /\ cur.dest \in DOMAIN card /\ o.card = [card EXCEPT ![cur.dest] = None]
                     \/ o.ret = 0 /\ o.card = card
  BY <1>1, RemoveOutcome
<1>3. cur.method \in {"MOVE", "COPY"} /\ cur.overwrite
  BY DEF Inv, MethodOf, DestFree
<1>4. instep => card = card0
  BY DEF Inv, SoFar, Untouched
<1>5. instep' => \/ o.ret = 1 /\ card' = [card0 EXCEPT ![cur.dest] = None] /\ cur.dest \in DOMAIN card0
                 \/ o.ret = 0 /\ card' = card0
  BY <1>2, <1>4
<1>6. \/ pc' = "rename" /\ cur.method = "MOVE"
      \/ pc' = "download" /\ cur.method = "COPY"
      \/ pc' = "cleardir" /\ o.ret # 1
  BY <1>3 DEF AfterClear
<1>7. Types'
  <2>1. pc' \in Labels /\ status' \in Statuses
    BY <1>1, <1>6 DEF Types, Labels, Statuses
  <2>2. IsTree(card') /\ DOMAIN card' = DOMAIN card /\ found' \in {"none", "dir", "file"}
    BY <1>1, <1>2 DEF Types
  <2>3. exists' \in BOOLEAN /\ instep' \in BOOLEAN /\ sure' \in BOOLEAN
    BY <1>1, <1>2 DEF Types
  <2> QED
    BY <1>1, <2>1, <2>2, <2>3, TypesKept
<1>8. MethodOf'
  BY <1>3, <1>6 DEF MethodOf
<1>9. SoFar'
  <2>1. pc' = "cleardir" /\ instep' => card' = card0'
    BY <1>5, <1>6
  <2>2. instep' => card' = card0' \/ card' = [card0' EXCEPT ![cur'.dest] = None]
    BY <1>5
  <2>3. NeedsDest(cur')
    BY <1>3 DEF NeedsDest
  <2> QED
    BY <1>6, <2>1, <2>2, <2>3 DEF SoFar, Untouched
<1>10. Buffered'
  BY <1>6 DEF Buffered
<1>11. DestFree'
  BY <1>3 DEF DestFree
<1>12. Answers'
  BY <1>6 DEF Answers, Served
<1>13. SourceKept'
  <2> SUFFICES ASSUME instep', cur.dest \in DOMAIN card', cur.path \in DOMAIN card',
                      ~IsPrefix(cur.dest, cur.path), card0[cur.path].kind = "file"
               PROVE  card0[cur.path] \in {card'[cur.path], card'[cur.dest]}
    BY DEF SourceKept
  <2>1. cur.dest \in Path /\ cur.path \in Path
    BY <1>2, TreeParts
  <2>2. cur.path # cur.dest
    BY <2>1, PrefixByNames, LenProperties DEF Path
  <2>3. CASE card' = card0
    BY <2>3
  <2>4. CASE card' = [card0 EXCEPT ![cur.dest] = None]
    BY <2>2, <2>4
  <2> QED
    BY <1>5, <2>3, <2>4
<1>14. OverwriteRespected'
  BY <1>3 DEF OverwriteRespected
<1> QED
  BY <1>7, <1>8, <1>9, <1>10, <1>11, <1>12, <1>13, <1>14 DEF Inv

(* What stands at the destination is removed. *)
LEMMA ClearStep ==
  ASSUME Inv, Clear \/ ClearDir PROVE Inv'
<1>1. CASE Clear
  <2>1. PICK o \in Request(Simple("remove", cur.dest)) :
           card' = o.card /\ instep' = o.instep /\ Goto(IF o.ret = 1 THEN AfterClear ELSE "cleardir")
    BY <1>1, Zenon DEF Clear, Take
  <2>2. status' = status /\ (pc' = AfterClear \/ (pc' = "cleardir" /\ o.ret # 1))
    BY <2>1 DEF Goto
  <2> QED
    BY <1>1, <2>1, <2>2, ClearedStep DEF Clear
<1>2. CASE ClearDir
  <2>1. PICK o \in Request(Simple("rmdir", cur.dest)) :
           card' = o.card /\ instep' = o.instep /\ Goto(AfterClear)
    BY <1>2, Zenon DEF ClearDir, Take
  <2>2. status' = status /\ pc' = AfterClear
    BY <2>1 DEF Goto
  <2> QED
    BY <1>2, <2>1, <2>2, ClearedStep DEF ClearDir
<1> QED
  BY <1>1, <1>2

(* A step of handle_request that ends with the response. *)
LEMMA EndTypes ==
  ASSUME Types, cur' = cur, card0' = card0, interrupt' = interrupt, requests' = requests,
         pc' = "accept", status' \in Statuses, found' = found, exists' = exists, sure' = sure,
         cur.method = "PUT" => temp' = temp,
         IsTree(card'), DOMAIN card' = DOMAIN card, instep' \in BOOLEAN
  PROVE  Types'
<1>1. pc' \in Labels
  BY DEF Labels, Served
<1>2. found' \in {"none", "dir", "file"} /\ exists' \in BOOLEAN /\ sure' \in BOOLEAN
  BY DEF Types
<1> QED
  BY <1>1, <1>2, TypesKept

(* The card after a rename: everything has moved, and nothing is left at the source. *)
LEMMA RenameMoves ==
  ASSUME NEW c, NEW d, IsTree(d), NEW p \in DOMAIN d, NEW q \in DOMAIN d, DOMAIN d = DOMAIN c,
         d[p].kind # "none", d[q].kind = "none", ~IsPrefix(p, q), d = c \/ d = [c EXCEPT ![q] = None]
  PROVE  /\ Renamed(d, p, q)[p] = None
         /\ Renamed(d, p, q)[q] = c[p]
         /\ \A x \in DOMAIN d : IsPrefix(q, x) =>
               LET y == p \o SubSeq(x, Len(q) + 1, Len(x))
               IN  Renamed(d, p, q)[x] = IF y \in DOMAIN c THEN c[y] ELSE None
<1>1. p \in Path /\ q \in Path /\ Len(p) \in Nat /\ Len(q) \in Nat /\ p # <<>> /\ q # <<>>
  BY TreeParts, LenProperties DEF Path
<1>2. IsPrefix(p, p) /\ IsPrefix(q, q) /\ p # q
  BY <1>1, PrefixByNames
<1>3. \A y \in DOMAIN d : y # q => d[y] = c[y]
  OBVIOUS
<1>4. ~IsPrefix(q, p)
  <2> SUFFICES ASSUME IsPrefix(q, p) PROVE FALSE
    OBVIOUS
  <2>1. Len(q) \in 0 .. Len(p) /\ q = SubSeq(p, 1, Len(q))
    BY <1>1, PrefixIsInitial
  <2>2. Len(q) # Len(p)
    <3> SUFFICES ASSUME Len(q) = Len(p) PROVE FALSE
      OBVIOUS
    <3>1. \A i \in 1 .. Len(q) : q[i] = p[i]
      BY <1>1, PrefixByNames
    <3> QED
      BY <1>1, <1>2, <3>1, SamePath
  <2>3. Len(q) # 0
    BY <1>1, EmptySeq DEF Path
  <2>4. Len(q) \in 1 .. (Len(p) - 1)
    BY <1>1, <2>1, <2>2, <2>3
  <2>5. d[SubSeq(p, 1, Len(q))].kind = "dir"
    BY <2>4, TreeParts
  <2> QED
    BY <2>1, <2>5
<1>5. Renamed(d, p, q)[p] = None
  BY <1>2, <1>4 DEF Renamed
<1>6. ASSUME NEW x \in DOMAIN d, IsPrefix(q, x)
      PROVE  LET y == p \o SubSeq(x, Len(q) + 1, Len(x))
             IN  Renamed(d, p, q)[x] = IF y \in DOMAIN c THEN c[y] ELSE None
  <2> DEFINE s == SubSeq(x, Len(q) + 1, Len(x))
             y == p \o s
  <2>1. Renamed(d, p, q)[x] = IF y \in DOMAIN d THEN d[y] ELSE None
    BY <1>6 DEF Renamed
  <2>2. x \in Path /\ Len(q) \in 0 .. Len(x)
    <3>1. x \in Path
      BY TreeParts
    <3> QED
      BY <1>1, <1>6, <3>1, PrefixIsInitial
  <2>3. s \in Path
    BY <2>2, Final
  <2> HIDE DEF s
  <2>4. IsPrefix(p, y)
    BY <1>1, <2>3, PrefixOfExtended
  <2> HIDE DEF y
  <2>5. y # q
    BY <2>4
  <2>6. Renamed(d, p, q)[x] = IF y \in DOMAIN c THEN c[y] ELSE None
    BY <1>3, <2>1, <2>5
  <2> QED
    BY <2>6 DEF y, s
<1>7. Renamed(d, p, q)[q] = c[p]
  <2> DEFINE s == SubSeq(q, Len(q) + 1, Len(q))
             y == p \o s
  <2>1. Renamed(d, p, q)[q] = IF y \in DOMAIN c THEN c[y] ELSE None
    BY <1>2, <1>6
  <2>2. s \in Path /\ Len(s) = 0
    BY <1>1, Final
  <2> HIDE DEF s
  <2>3. y \in Path /\ Len(y) = Len(p) /\ \A i \in 1 .. Len(p) : y[i] = p[i]
    BY <1>1, <2>2, Extended
  <2> HIDE DEF y
  <2>4. y = p
    BY <1>1, <2>3, SamePath
  <2> QED
    BY <2>1, <2>4
<1> QED
  BY <1>5, <1>6, <1>7

(* The rename of MOVE. *)
LEMMA RenameStep ==
  ASSUME Inv, Rename PROVE Inv'
<1>1. /\ pc = "rename" /\ pc' = "accept" /\ cur' = cur /\ card0' = card0 /\ found' = found
      /\ exists' = exists /\ temp' = temp /\ interrupt' = interrupt /\ requests' = requests /\ sure' = sure
  BY DEF Rename, Respond
<1>2. PICK o \in Request(Req("rename", cur.path, cur.dest, <<>>)) :
         card' = o.card /\ instep' = o.instep /\ Respond(IF o.ret = 1 THEN Placed ELSE 500)
  BY Zenon DEF Rename, Take
<1>3. Types
  BY DEF Inv
<1>4. /\ o.ret \in {0, 1} /\ o.instep \in BOOLEAN /\ (o.instep => instep)
      /\ IsTree(o.card) /\ DOMAIN o.card = DOMAIN card
      /\ o.instep => \/ o.ret = 1 /\ RenamedTo(o, card, cur.path, cur.dest)
                     \/ o.ret = 0 /\ o.card = card
  BY <1>3, RenameOutcome
<1>5. status' \in {201, 204, 500} /\ (o.ret # 1 => status' = 500)
  BY <1>2 DEF Respond, Placed
<1>6. cur.method = "MOVE" /\ (instep => card = card0 \/ card = [card0 EXCEPT ![cur.dest] = None])
  BY <1>1 DEF Inv, MethodOf, SoFar, NeedsDest
<1>7. ASSUME instep', o.ret = 1
      PROVE  /\ card'[cur.path] = None /\ card'[cur.dest] = card0[cur.path]
             /\ \A x \in DOMAIN card : IsPrefix(cur.dest, x) =>
                   LET y == cur.path \o SubSeq(x, Len(cur.dest) + 1, Len(x))
                   IN  card'[x] = IF y \in DOMAIN card0 THEN card0[y] ELSE None
  <2>1. /\ card' = Renamed(card, cur.path, cur.dest)
        /\ cur.path \in DOMAIN card /\ card[cur.path].kind # "none"
        /\ cur.dest \in DOMAIN card /\ card[cur.dest].kind = "none"
        /\ ~IsPrefix(cur.path, cur.dest)
    BY <1>2, <1>4, <1>7 DEF RenamedTo
  <2>2. card = card0 \/ card = [card0 EXCEPT ![cur.dest] = None]
    BY <1>2, <1>4, <1>6, <1>7
  <2>3. IsTree(card) /\ DOMAIN card = DOMAIN card0
    BY <1>3 DEF Types
  <2> QED
    BY <2>1, <2>2, <2>3, RenameMoves
<1>8. Types'
  BY <1>1, <1>2, <1>3, <1>4, <1>5, EndTypes DEF Statuses
<1>9. Answers'
  <2>1. instep' /\ Success' => o.ret = 1
    BY <1>5 DEF Success
  <2>2. ASSUME instep', o.ret = 1 PROVE Delivered'
    <3>1. DOMAIN card' = DOMAIN card
      BY <1>2, <1>4
    <3>2. MovedTo(cur.path, cur.dest)'
      BY <1>1, <1>7, <2>2, <3>1 DEF MovedTo
    <3>3. cur'.method = "MOVE" /\ cur' = cur /\ card'[cur.path] = None
      BY <1>1, <1>6, <1>7, <2>2
    <3> QED
      BY <3>2, <3>3 DEF Delivered, MovedTo
  <2> QED
    BY <1>5, <2>1, <2>2 DEF Answers
<1>10. SourceKept'
  <2> SUFFICES ASSUME instep', cur.dest \in DOMAIN card', cur.path \in DOMAIN card',
                      ~IsPrefix(cur.dest, cur.path), card0[cur.path].kind = "file"
               PROVE  card0[cur.path] \in {card'[cur.path], card'[cur.dest]}
    BY <1>1 DEF SourceKept
  <2>1. CASE o.ret = 1
    BY <1>7, <2>1
  <2>2. CASE o.ret # 1
    <3>1. card' = card /\ instep
      BY <1>2, <1>4, <2>2
    <3> QED
      BY <1>6, <3>1 DEF Inv, SourceKept, NeedsDest
  <2> QED
    BY <2>1, <2>2
<1>11. OverwriteRespected'
  <2>1. sure /\ ~cur.overwrite /\ cur.dest \in DOMAIN card0 => card0[cur.dest].kind = "none"
    BY <1>1, <1>6 DEF Inv, DestFree, NeedsDest
  <2>2. DOMAIN card' = DOMAIN card0
    BY <1>1, <1>8 DEF Types
  <2> QED
    BY <1>1, <2>1, <2>2 DEF OverwriteRespected
<1>12. pc' \in Served
  BY <1>1 DEF Served
<1> QED
  BY <1>8, <1>9, <1>10, <1>11, <1>12, Ended DEF Inv

(* The download of GET and COPY. *)
LEMMA DownloadStep ==
  ASSUME Inv, Download PROVE Inv'
<1>1. /\ pc = "download" /\ cur' = cur /\ card0' = card0 /\ found' = found
      /\ exists' = exists /\ interrupt' = interrupt /\ requests' = requests /\ sure' = sure
  BY DEF Download
<1>2. PICK o \in Request(Simple("download", cur.path)) :
         /\ card' = o.card /\ instep' = o.instep /\ temp' = o.answer
         /\ IF o.ret # 1 THEN Respond(500) /\ UNCHANGED reply
            ELSE IF cur.method = "GET" THEN Respond(200) /\ reply' = o.answer
            ELSE Goto("upload") /\ UNCHANGED reply
  BY Zenon DEF Download, Take
<1>3. Types
  BY DEF Inv
<1>4. /\ o.ret \in {0, 1} /\ o.instep \in BOOLEAN /\ (o.instep => instep) /\ o.card = card
      /\ o.instep /\ o.ret = 1 => /\ cur.path \in DOMAIN card /\ card[cur.path].kind = "file"
                                  /\ card[cur.path] = File(o.answer)
  BY <1>3, DownloadOutcome
<1>5. card' = card /\ instep' \in BOOLEAN /\ (instep' => instep)
  BY <1>2, <1>4
<1>6. cur.method \in {"GET", "COPY"}
  BY <1>1 DEF Inv, MethodOf
<1>7. \/ pc' = "accept" /\ status' = 500
      \/ pc' = "accept" /\ status' = 200 /\ cur.method = "GET" /\ o.ret = 1 /\ reply' = o.answer
      \/ pc' = "upload" /\ status' = status /\ cur.method = "COPY" /\ o.ret = 1
  BY <1>2, <1>6 DEF Respond, Goto
<1>8. cur.method = "GET" => card = card0
  BY <1>1 DEF Inv, SoFar, NeedsDest
<1>9. cur.method = "COPY" /\ instep => card = card0 \/ card = [card0 EXCEPT ![cur.dest] = None]
  BY <1>1 DEF Inv, SoFar, NeedsDest
<1>10. Types'
  <2>1. pc' \in Labels /\ status' \in Statuses
    BY <1>3, <1>7 DEF Types, Labels, Statuses, Served
  <2>2. IsTree(card') /\ DOMAIN card' = DOMAIN card /\ found' \in {"none", "dir", "file"}
    BY <1>1, <1>3, <1>5 DEF Types
  <2>3. exists' \in BOOLEAN /\ sure' \in BOOLEAN
    BY <1>1, <1>3 DEF Types
  <2> QED
    BY <1>1, <1>3, <1>5, <1>6, <2>1, <2>2, <2>3, TypesKept
<1>11. MethodOf'
  BY <1>1, <1>7 DEF MethodOf
<1>12. SoFar'
  <2>1. CASE pc' = "accept"
    BY <2>1 DEF SoFar, Untouched
  <2>2. CASE pc' = "upload" /\ cur.method = "COPY"
    <3>1. NeedsDest(cur')
      BY <1>1, <2>2 DEF NeedsDest
    <3>2. instep' => card' = card0' \/ card' = [card0' EXCEPT ![cur'.dest] = None]
      BY <1>1, <1>5, <1>9, <2>2
    <3> QED
      BY <2>2, <3>1, <3>2 DEF SoFar, Untouched
  <2> QED
    BY <1>7, <2>1, <2>2
<1>13. Buffered'
  <2>1. CASE pc' = "accept"
    BY <2>1 DEF Buffered
  <2>2. CASE pc' = "upload" /\ cur.method = "COPY" /\ o.ret = 1
    <3>1. ASSUME instep' PROVE cur.path \in DOMAIN card0 /\ card0[cur.path] = File(temp')
      <4>1. /\ cur.path \in DOMAIN card /\ card[cur.path].kind = "file"
            /\ card[cur.path] = File(temp')
        BY <1>2, <1>4, <2>2, <3>1
      <4>2. card = card0 \/ card = [card0 EXCEPT ![cur.dest] = None]
        BY <1>5, <1>9, <2>2, <3>1
      <4>3. card[cur.path] = card0[cur.path]
        <5>1. CASE card = card0
          BY <5>1
        <5>2. CASE card = [card0 EXCEPT ![cur.dest] = None]
          BY <4>1, <5>2, ItemKinds
        <5> QED
          BY <4>2, <5>1, <5>2
      <4>4. DOMAIN card = DOMAIN card0
        BY <1>3 DEF Types
      <4> QED
        BY <4>1, <4>3, <4>4
    <3> QED
      BY <1>1, <2>2, <3>1 DEF Buffered
  <2> QED
    BY <1>7, <2>1, <2>2
<1>14. DestFree'
  BY <1>1, <1>7 DEF Inv, DestFree, NeedsDest
<1>15. Answers'
  <2>1. CASE pc' = "accept" /\ status' = 500
    BY <2>1 DEF Answers, Success
  <2>2. CASE pc' = "accept" /\ status' = 200 /\ cur.method = "GET" /\ o.ret = 1 /\ reply' = o.answer
    <3>1. ASSUME instep' PROVE Delivered'
      <4>1. card' = card0' /\ cur' = cur /\ File(reply') = card'[cur'.path] /\ cur'.method = "GET"
        BY <1>1, <1>2, <1>4, <1>5, <1>8, <2>2, <3>1
      <4> QED
        BY <4>1 DEF Delivered
    <3> QED
      BY <2>2, <3>1 DEF Answers
  <2>3. CASE pc' = "upload"
    BY <2>3 DEF Answers, Served
  <2> QED
    BY <1>7, <2>1, <2>2, <2>3
<1>16. SourceKept' /\ OverwriteRespected'
  BY <1>1, <1>3, <1>5, CardLeft DEF Inv, Types
<1> QED
  BY <1>10, <1>11, <1>12, <1>13, <1>14, <1>15, <1>16 DEF Inv

(* The body of PUT goes to the temporary file. *)
LEMMA TempStep ==
  ASSUME Inv, Temp PROVE Inv'
<1>1. /\ pc = "temp" /\ cur' = cur /\ card0' = card0 /\ found' = found /\ card' = card /\ instep' = instep
      /\ exists' = exists /\ interrupt' = interrupt /\ requests' = requests
  BY DEF Temp
<1>2. Types
  BY DEF Inv
<1>3. cur.method = "PUT" /\ card = card0
  BY <1>1 DEF Inv, MethodOf, SoFar, Untouched
<1>4. CASE pc' = "accept" /\ status' = 500 /\ temp' = temp /\ sure' = sure
  <2>1. IsTree(card') /\ DOMAIN card' = DOMAIN card /\ instep' \in BOOLEAN
    BY <1>1, <1>2 DEF Types
  <2>2. Types'
    BY <1>1, <1>2, <1>4, <2>1, EndTypes DEF Statuses
  <2>3. Answers'
    BY <1>4 DEF Answers, Success
  <2>4. SourceKept' /\ OverwriteRespected'
    BY <1>1, <1>2, <1>4, CardLeft DEF Inv, Types
  <2>5. pc' \in Served
    BY <1>4 DEF Served
  <2> QED
    BY <2>2, <2>3, <2>4, <2>5, Ended DEF Inv
<1>5. CASE /\ pc' = "upload" /\ status' = status
           /\ \E n \in 0 .. Len(cur.body) :
                temp' = SubSeq(cur.body, 1, n) /\ sure' = (n = Len(cur.body))
  <2>1. PICK n \in 0 .. Len(cur.body) : temp' = SubSeq(cur.body, 1, n) /\ sure' = (n = Len(cur.body))
    BY <1>5
  <2>2. cur.body \in Seq(Nat)
    BY <1>2, HeadersOfCur DEF Types
  <2>3. IsPrefix(temp', cur.body) /\ (n = Len(cur.body) => temp' = cur.body)
    BY <2>1, <2>2, Written
  <2>4. sure' \in BOOLEAN /\ (sure' => temp' = cur.body)
    BY <2>1, <2>3
  <2>5. Types'
    <3>1. IsTree(card') /\ DOMAIN card' = DOMAIN card0' /\ found' \in {"none", "dir", "file"}
          /\ requests' \in 0 .. MaxRequests /\ status' \in Statuses /\ pc' \in Labels
      BY <1>1, <1>2, <1>5 DEF Types, Statuses, Labels
    <3>2. exists' \in BOOLEAN /\ interrupt' \in BOOLEAN /\ instep' \in BOOLEAN
      BY <1>1, <1>2 DEF Types
    <3>3. Asked'
      BY <1>1, <1>2 DEF Types, Asked
    <3>4. IsPrefix(temp', cur'.body)
      BY <1>1, <2>3
    <3> QED
      BY <2>4, <3>1, <3>2, <3>3, <3>4 DEF Types, Labels, Statuses
  <2>6. MethodOf'
    BY <1>1, <1>3, <1>5 DEF MethodOf
  <2>7. SoFar'
    <3>1. card' = card0' /\ ~NeedsDest(cur')
      BY <1>1, <1>3 DEF NeedsDest
    <3> QED
      BY <3>1 DEF SoFar
  <2>8. Buffered'
    BY <1>1, <1>3, <2>4 DEF Buffered
  <2>9. DestFree'
    BY <1>1, <1>3, <1>5 DEF DestFree, NeedsDest
  <2>10. Answers'
    BY <1>5 DEF Answers, Served
  <2>11. SourceKept' /\ OverwriteRespected'
    BY <1>1, <1>3 DEF SourceKept, OverwriteRespected, NeedsDest
  <2> QED
    BY <2>5, <2>6, <2>7, <2>8, <2>9, <2>10, <2>11 DEF Inv
<1> QED
  BY <1>4, <1>5 DEF Temp, Respond, Goto

(* The upload of PUT and COPY. *)
LEMMA UploadStep ==
  ASSUME Inv, Upload PROVE Inv'
<1>1. /\ pc = "upload" /\ pc' = "accept" /\ cur' = cur /\ card0' = card0 /\ found' = found
      /\ exists' = exists /\ temp' = temp /\ interrupt' = interrupt /\ requests' = requests /\ sure' = sure
  BY DEF Upload, Respond
<1>2. PICK o \in Request(Req("upload", Target, Target, temp)) :
         card' = o.card /\ instep' = o.instep /\ Respond(IF o.ret = 1 THEN Placed ELSE 500)
  BY Zenon DEF Upload, Take
<1>3. Types
  BY DEF Inv
<1>4. /\ o.ret \in {0, 1} /\ o.instep \in BOOLEAN /\ (o.instep => instep)
      /\ IsTree(o.card) /\ DOMAIN o.card = DOMAIN card
      /\ o.instep => \/ o.ret = 1 /\ o.card = [card EXCEPT ![Target] = File(temp)]
                     \/ o.ret = 0 /\ o.card = card
  <2>1. Told(o, Req("upload", Target, Target, temp), card) /\ (o.instep => instep) /\ IsTree(card)
    BY <1>3, OutcomeFacts
  <2>2. /\ o.ret \in {0, 1} /\ o.instep \in BOOLEAN /\ IsTree(o.card) /\ DOMAIN o.card = DOMAIN card
        /\ o.card = card \/ (Target \in DOMAIN card /\ o.card = [card EXCEPT ![Target] = File(temp)])
        /\ o.instep => (o.ret = 1 /\ Target \in DOMAIN card /\ o.card = [card EXCEPT ![Target] = File(temp)]) \/ (o.ret = 0 /\ o.card = card)
    BY <2>1, UploadTold
  <2> QED
    BY <2>1, <2>2
<1>5. status' \in {201, 204, 500} /\ (o.ret # 1 => status' = 500)
  BY <1>2 DEF Respond, Placed
<1>6. cur.method \in {"PUT", "COPY"}
  BY <1>1 DEF Inv, MethodOf
<1>7. cur.method = "PUT" => Target = cur.path /\ card = card0 /\ (sure => temp = cur.body)
  BY <1>1 DEF Inv, SoFar, Buffered, NeedsDest, Target
<1>8. cur.method = "COPY" /\ instep =>
        /\ Target = cur.dest /\ cur.path \in DOMAIN card0 /\ card0[cur.path] = File(temp)
        /\ card = card0 \/ card = [card0 EXCEPT ![cur.dest] = None]
  BY <1>1 DEF Inv, SoFar, Buffered, NeedsDest, Target
<1>9. Types'
  BY <1>1, <1>2, <1>3, <1>4, <1>5, EndTypes DEF Statuses
<1>10. Answers'
  <2>1. Success' => o.ret = 1
    BY <1>5 DEF Success
  <2>2. ASSUME instep', sure', o.ret = 1 PROVE Delivered'
    <3>1. card' = [card EXCEPT ![Target] = File(temp)] /\ instep
      BY <1>2, <1>4, <2>2
    <3>2. CASE cur.method = "PUT"
      <4>1. card' = [card0 EXCEPT ![cur.path] = File(cur.body)]
        BY <1>1, <1>7, <2>2, <3>1, <3>2
      <4> QED
        BY <1>1, <3>2, <4>1 DEF Delivered
    <3>3. CASE cur.method = "COPY"
      <4>1. cur.path # <<>>
        BY <1>3, <1>8, <3>1, <3>3, TreeParts DEF Types
      <4>2. At(card0, cur.path) = File(temp)
        BY <1>8, <3>1, <3>3, <4>1 DEF At
      <4>3. card' = [card0 EXCEPT ![cur.dest] = File(temp)]
        <5>1. CASE card = card0
          BY <1>8, <3>1, <3>3, <5>1
        <5>2. CASE card = [card0 EXCEPT ![cur.dest] = None]
          BY <1>8, <3>1, <3>3, <5>2
        <5> QED
          BY <1>8, <3>1, <3>3, <5>1, <5>2
      <4>4. card' = [card0' EXCEPT ![cur'.dest] = At(card0', cur'.path)]
        BY <1>1, <4>2, <4>3
      <4> QED
        BY <1>1, <3>3, <4>4 DEF Delivered
    <3> QED
      BY <1>6, <3>2, <3>3
  <2> QED
    BY <1>5, <2>1, <2>2 DEF Answers
<1>11. SourceKept'
  <2> SUFFICES ASSUME instep', cur.method \in {"MOVE", "COPY"}, cur.dest \in DOMAIN card', cur.path \in DOMAIN card',
                      ~IsPrefix(cur.dest, cur.path), card0[cur.path].kind = "file"
               PROVE  card0[cur.path] \in {card'[cur.path], card'[cur.dest]}
    BY <1>1 DEF SourceKept, NeedsDest
  <2>1. cur.method = "COPY" /\ instep
    BY <1>2, <1>4, <1>6
  <2>2. cur.dest \in Path /\ cur.path \in Path
    BY <1>2, <1>4, TreeParts
  <2>3. cur.path # cur.dest
    BY <2>2, PrefixByNames, LenProperties DEF Path
  <2>4. card[cur.path] = card0[cur.path]
    BY <1>8, <2>1, <2>3
  <2>5. card'[cur.path] = card[cur.path]
    BY <1>2, <1>4, <1>8, <2>1, <2>3
  <2> QED
    BY <2>4, <2>5
<1>12. OverwriteRespected'
  <2>1. sure /\ NeedsDest(cur) /\ ~cur.overwrite /\ cur.dest \in DOMAIN card0 => card0[cur.dest].kind = "none"
    BY <1>1 DEF Inv, DestFree
  <2>2. DOMAIN card' = DOMAIN card0
    BY <1>1, <1>9 DEF Types
  <2> QED
    BY <1>1, <2>1, <2>2 DEF OverwriteRespected
<1>13. pc' \in Served
  BY <1>1 DEF Served
<1> QED
  BY <1>9, <1>10, <1>11, <1>12, <1>13, Ended DEF Inv

(* One request of the two that a DELETE sends. *)
LEMMA DeletedStep ==
  ASSUME Inv, pc \in {"remove", "rmdir"}, cur' = cur, card0' = card0, found' = found, exists' = exists,
         temp' = temp, interrupt' = interrupt, requests' = requests, sure' = sure,
         NEW op \in {"remove", "rmdir"}, NEW o \in Request(Simple(op, cur.path)),
         card' = o.card, instep' = o.instep,
         \/ pc' = "accept" /\ status' = 204 /\ o.ret = 1
         \/ pc' = "accept" /\ status' = 500
         \/ pc' = "rmdir" /\ status' = status /\ o.ret # 1
  PROVE  Inv'
<1>1. Types
  BY DEF Inv
<1>2. /\ o.ret \in {0, 1} /\ o.instep \in BOOLEAN /\ (o.instep => instep)
      /\ IsTree(o.card) /\ DOMAIN o.card = DOMAIN card
      /\ o.instep => \/ o.ret = 1 /\ cur.path \in DOMAIN card /\ o.card = [card EXCEPT ![cur.path] = None]
                     \/ o.ret = 0 /\ o.card = card
  BY <1>1, RemoveOutcome
<1>3. cur.method = "DELETE"
  BY DEF Inv, MethodOf
<1>4. instep => card = card0
  BY DEF Inv, SoFar, Untouched
<1>5. instep' => \/ o.ret = 1 /\ card' = [card0 EXCEPT ![cur.path] = None]
                 \/ o.ret = 0 /\ card' = card0
  BY <1>2, <1>4
<1>6. Types'
  <2>1. pc' \in Labels /\ status' \in Statuses
    BY <1>1 DEF Types, Labels, Statuses, Served
  <2>2. IsTree(card') /\ DOMAIN card' = DOMAIN card /\ found' \in {"none", "dir", "file"}
    BY <1>1, <1>2 DEF Types
  <2>3. exists' \in BOOLEAN /\ instep' \in BOOLEAN /\ sure' \in BOOLEAN
    BY <1>1, <1>2 DEF Types
  <2> QED
    BY <1>1, <2>1, <2>2, <2>3, TypesKept
<1>7. MethodOf'
  BY <1>3 DEF MethodOf
<1>8. SoFar'
  <2>1. CASE pc' = "accept"
    BY <2>1 DEF SoFar, Untouched
  <2>2. CASE pc' = "rmdir" /\ o.ret # 1
    <3>1. instep' => card' = card0'
      BY <1>5, <2>2
    <3> QED
      BY <2>2, <3>1 DEF SoFar, Untouched
  <2> QED
    BY <2>1, <2>2
<1>9. Buffered' /\ DestFree'
  BY DEF Buffered, DestFree
<1>10. Answers'
  <2>1. CASE pc' = "accept" /\ status' = 204 /\ o.ret = 1
    <3>1. ASSUME instep' PROVE Delivered'
      <4>1. card' = [card0' EXCEPT ![cur'.path] = None] /\ cur'.method = "DELETE"
        BY <1>3, <1>5, <2>1, <3>1
      <4> QED
        BY <4>1 DEF Delivered
    <3> QED
      BY <2>1, <3>1 DEF Answers
  <2>2. CASE pc' = "accept" /\ status' = 500
    BY <2>2 DEF Answers, Success
  <2>3. CASE pc' = "rmdir"
    BY <2>3 DEF Answers, Served
  <2> QED
    BY <2>1, <2>2, <2>3
<1>11. SourceKept' /\ OverwriteRespected'
  BY <1>3 DEF SourceKept, OverwriteRespected, NeedsDest
<1> QED
  BY <1>6, <1>7, <1>8, <1>9, <1>10, <1>11 DEF Inv

(* DELETE, as a file and then as a directory. *)
LEMMA DeleteStep ==
  ASSUME Inv, Delete \/ Rmdir PROVE Inv'
<1>1. CASE Delete
  <2>1. PICK o \in Request(Simple("remove", cur.path)) :
           card' = o.card /\ instep' = o.instep /\ IF o.ret = 1 THEN Respond(204) ELSE Goto("rmdir")
    BY <1>1, Zenon DEF Delete, Take
  <2>2. \/ pc' = "accept" /\ status' = 204 /\ o.ret = 1
        \/ pc' = "rmdir" /\ status' = status /\ o.ret # 1
    BY <2>1 DEF Respond, Goto
  <2> QED
    BY <1>1, <2>1, <2>2, DeletedStep DEF Delete
<1>2. CASE Rmdir
  <2>1. PICK o \in Request(Simple("rmdir", cur.path)) :
           card' = o.card /\ instep' = o.instep /\ Respond(IF o.ret = 1 THEN 204 ELSE 500)
    BY <1>2, Zenon DEF Rmdir, Take
  <2>2. \/ pc' = "accept" /\ status' = 204 /\ o.ret = 1
        \/ pc' = "accept" /\ status' = 500
    BY <2>1 DEF Respond
  <2> QED
    BY <1>2, <2>1, <2>2, DeletedStep DEF Rmdir
<1> QED
  BY <1>1, <1>2

(* MKCOL. *)
LEMMA MkdirStep ==
  ASSUME Inv, Mkdir PROVE Inv'
<1>1. /\ pc = "mkdir" /\ pc' = "accept" /\ cur' = cur /\ card0' = card0 /\ found' = found
      /\ exists' = exists /\ temp' = temp /\ interrupt' = interrupt /\ requests' = requests /\ sure' = sure
  BY DEF Mkdir, Respond
<1>2. PICK o \in Request(Simple("mkdir", cur.path)) :
         card' = o.card /\ instep' = o.instep /\ Respond(IF o.ret = 1 THEN 201 ELSE 500)
  BY Zenon DEF Mkdir, Take
<1>3. Types
  BY DEF Inv
<1>4. /\ o.ret \in {0, 1} /\ o.instep \in BOOLEAN /\ (o.instep => instep)
      /\ IsTree(o.card) /\ DOMAIN o.card = DOMAIN card
      /\ o.instep => \/ o.ret = 1 /\ o.card = [card EXCEPT ![cur.path] = Dir]
                     \/ o.ret = 0 /\ o.card = card
  BY <1>3, MkdirOutcome
<1>5. status' \in {201, 500} /\ (o.ret # 1 => status' = 500)
  BY <1>2 DEF Respond
<1>6. cur.method = "MKCOL" /\ card = card0
  BY <1>1 DEF Inv, MethodOf, SoFar, Untouched
<1>7. Types'
  BY <1>1, <1>2, <1>3, <1>4, <1>5, EndTypes DEF Statuses
<1>8. Answers'
  <2>1. Success' => o.ret = 1
    BY <1>5 DEF Success
  <2>2. ASSUME instep', o.ret = 1 PROVE Delivered'
    <3>1. card' = [card0' EXCEPT ![cur'.path] = Dir] /\ cur'.method = "MKCOL"
      BY <1>1, <1>2, <1>4, <1>6, <2>2
    <3> QED
      BY <3>1 DEF Delivered
  <2> QED
    BY <1>5, <2>1, <2>2 DEF Answers
<1>9. SourceKept' /\ OverwriteRespected'
  BY <1>1, <1>6 DEF SourceKept, OverwriteRespected, NeedsDest
<1>10. pc' \in Served
  BY <1>1 DEF Served
<1> QED
  BY <1>7, <1>8, <1>9, <1>10, Ended DEF Inv

-----------------------------------------------------------------------------
(* Results *)

(* The invariant holds before the first request. *)
LEMMA InvInit == Init => Inv
<1> SUFFICES ASSUME Init PROVE Inv
  OBVIOUS
<1>1. IsTree(card) /\ card = card0 /\ MaxRequests \in Nat
  BY WebDavAssumption DEF Init
<1>2. cur = NoRequest /\ cur.method = "none"
  BY DEF Init, NoRequest
<1>3. Types
  <2>1. Asked
    BY <1>2 DEF Asked
  <2> QED
    <3>1. exists \in BOOLEAN /\ interrupt \in BOOLEAN /\ instep \in BOOLEAN /\ sure \in BOOLEAN
      BY DEF Init
    <3>2. pc \in Served /\ status = 0 /\ found = "none" /\ requests = 0
      BY DEF Init, Served
    <3> QED
      BY <1>1, <1>2, <2>1, <3>1, <3>2 DEF Types
<1>4. MethodOf /\ SoFar /\ Buffered /\ DestFree
  BY DEF Init, MethodOf, SoFar, Buffered, DestFree, Untouched
<1>5. Answers
  BY DEF Init, Answers, Success
<1>6. SourceKept /\ OverwriteRespected
  BY <1>1 DEF SourceKept, OverwriteRespected
<1> QED
  BY <1>3, <1>4, <1>5, <1>6 DEF Inv

(* Every step keeps the invariant: one case per action. *)
LEMMA InvNext == Inv /\ [Next]_vars => Inv'
<1> SUFFICES ASSUME Inv, [Next]_vars PROVE Inv'
  OBVIOUS
<1>1. CASE Stop
  BY <1>1, StopStep
<1>2. CASE Accept
  BY <1>2, AcceptStep
<1>3. CASE ReadError
  BY <1>3, ReadErrorStep
<1>4. CASE \E m \in Methods : \E c \in RequestsOf(m) : ReadRequest(c)
  BY <1>4, ReadRequestStep
<1>5. CASE Signal \/ UNCHANGED vars
  BY <1>5, SignalStep
<1>6. CASE Handling
  <2>1. CASE Meta
    BY <2>1, MetaStep
  <2>2. CASE Children207
    BY <2>2, Children207Step
  <2>3. CASE DestMeta
    BY <2>3, DestMetaStep
  <2>4. CASE Clear \/ ClearDir
    BY <2>4, ClearStep
  <2>5. CASE Rename
    BY <2>5, RenameStep
  <2>6. CASE Download
    BY <2>6, DownloadStep
  <2>7. CASE Temp
    BY <2>7, TempStep
  <2>8. CASE Upload
    BY <2>8, UploadStep
  <2>9. CASE Delete \/ Rmdir
    BY <2>9, DeleteStep
  <2>10. CASE Mkdir
    BY <2>10, MkdirStep
  <2> QED
    BY <1>6, <2>1, <2>2, <2>3, <2>4, <2>5, <2>6, <2>7, <2>8, <2>9, <2>10 DEF Handling
<1> QED
  BY <1>1, <1>2, <1>3, <1>4, <1>5, <1>6 DEF Next

(* The invariant holds in every state. *)
LEMMA Invariance == Spec => []Inv
  BY InvInit, InvNext, PTL DEF Spec

(* The status that handle_request sends is true: over a link in step, with whole listings and *)
(* a whole temporary file, each success has done to the card what the method promises, and an *)
(* error of the client has changed nothing - for every card, path, body and number of requests. *)
THEOREM StatusIsTrue == Spec => []StatusTrue
<1>1. Inv => StatusTrue
  <2> SUFFICES ASSUME Inv PROVE StatusTrue
    OBVIOUS
  <2>1. TypeOK
    BY DEF Inv, Types, TypeOK, Served, Untouched
  <2>2. AnswerTrue
    <3> SUFFICES ASSUME instep, sure, Success, pc = "accept"
                 PROVE  Delivered
      BY DEF AnswerTrue, Delivered, Done
    <3> QED
      BY DEF Inv, Answers, Served
  <2>3. RefusedUnchanged
    BY DEF Inv, Answers, RefusedUnchanged, Served
  <2> QED
    BY <2>1, <2>2, <2>3 DEF StatusTrue
<1> QED
  BY <1>1, Invariance, PTL

(* MOVE and COPY to another path never lose the source: whatever request fails, the contents *)
(* of a source file are still where they were or where they should go. *)
THEOREM SourceIsKept == Spec => []SourceKept
<1>1. Inv => SourceKept
  BY DEF Inv
<1> QED
  BY <1>1, Invariance, PTL

(* "Overwrite: F" keeps an existing destination as long as every listing was complete, *)
(* also over a link that is out of step. *)
THEOREM OverwriteIsRespected == Spec => []OverwriteRespected
<1>1. Inv => OverwriteRespected
  BY DEF Inv
<1> QED
  BY <1>1, Invariance, PTL

=============================================================================
