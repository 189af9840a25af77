--------------------------- MODULE RemoteIoProofs ---------------------------
(***************************************************************************)
(* Proofs about RemoteIo, for every alphabet, card, CRC, set of files,     *)
(* buffer size and number of requests: what a request returns is true, and *)
(* the requests implement SdStore.                                         *)
(*                                                                         *)
(* The invariant follows a request that found the link in step (fresh)     *)
(* through three phases of the console, Asking, Uploading and Over, and    *)
(* says in each what the items on the link are: those that the console has *)
(* or will have (Given) are a part of what the host wrote, and those that  *)
(* the host has yet to read (Unread) are the rest of this answer.  After a *)
(* failure of the host only the console's side is followed: it may still   *)
(* carry the request out.  Of a request out of step only types are known.  *)
(***************************************************************************)
EXTENDS RemoteIoStore, SequenceTheorems, TLAPS

(* What the console has of the request and what is on its way to it. *)
Given == din \o toDev

(* What the console has answered and the host has not read. *)
Unread == fromDev \o dout

FsType == [Paths -> [kind : {"none", "dir", "file"}, data : Seq(Item)]]
FsSound(f) == f \in FsType /\ \A p \in Paths : Len(f[p].data) < Width

(* s is the beginning of t. *)
IsPart(s, t) == s = <<>> \/ (Len(s) =< Len(t) /\ s = SubSeq(t, 1, Len(s)))

(* The arguments of a request. *)
Arguments ==
    /\ op = "raw" => path \in Sectors
    /\ op # "raw" => path \in Paths /\ path2 \in Paths
    /\ (op = "rename") = (path # path2)
    /\ Len(file) < Width

(* Where a request can be, and how it can have ended. *)
Phases ==
    /\ hpc # "ready" \/ fresh => requests > 0
    /\ hpc \notin {"ready", "data"} => local = <<>>
    /\ hpc = "reply" => op # "raw" /\ listing = {}
    /\ hpc = "next" => op = "list"
    /\ hpc = "data" => op = "download"
    /\ hpc = "body" => op = "upload"
    /\ hpc = "result" => op \in {"upload", "raw"}
    /\ hpc = "request" => listing = {}
    /\ hpc # "ready" /\ failed => op = "raw" /\ hpc = "result" /\ interrupt
    /\ cut => hpc = "ready" /\ op = "list" /\ failed
    /\ hpc = "ready" /\ ret = 1 /\ failed => cut \/ (op = "raw" /\ interrupt)

Types ==
    /\ TypeOK
    /\ FsSound(fs) /\ FsSound(fs0)
    /\ requests > 0 => Arguments
    /\ Phases

(* What the request does, if the console does it. *)
Can == op = "raw" \/ Possible(Code[op], path, path2, fs0)
After == IF op = "upload" THEN [fs0 EXCEPT ![path] = File(file)]
         ELSE Apply(Code[op], path, path2, fs0)
Data == fs0[path].data

(* The console has a part of the request, and all of it unless the host has failed. *)
Asking ==
    /\ dpc = "request" /\ fs = fs0 /\ Unread = <<>>
    /\ IsPart(Given, Request)
    /\ ~failed => \/ hpc = "request" /\ Given = <<>>
                  \/ hpc = (IF op = "raw" THEN "result" ELSE "reply") /\ Given = Request

(* The console has accepted an upload, and has a part of its data. *)
Uploading ==
    /\ op = "upload" /\ Can
    /\ dpc = "upload" /\ dpath = path /\ fs = fs0
    /\ IsPart(Given, Body)
    /\ ~failed => \/ hpc = "reply" /\ Given = <<>> /\ Unread = <<MAGIC, Status.OK, 0>>
                  \/ hpc = "body" /\ Given = <<>> /\ Unread = <<>>
                  \/ hpc = "result" /\ Given = Body /\ Unread = <<>>

(* The packets of a listing that are on the way, and the entries that are still to come. *)
Packets(n) ==
    /\ \A i \in 0 .. (n - 1) :
         /\ Unread[4 * i + 1] = MAGIC /\ Unread[4 * i + 2] = Status.OK /\ Unread[4 * i + 3] = 1
         /\ Unread[4 * i + 4] \in Entries(fs0)
    /\ \/ Len(Unread) = 4 * n /\ (dpc = "list" \/ dlist = {})
       \/ /\ dpc = "request" /\ dlist = {}
          /\ Len(Unread) = 4 * n + 3
          /\ Unread[4 * n + 1] = MAGIC /\ Unread[4 * n + 2] = Status.OK /\ Unread[4 * n + 3] = 0
    /\ listing \subseteq Entries(fs0) /\ dlist \subseteq Entries(fs0)
    /\ \A p \in Entries(fs0) :
         p \in listing \/ p \in dlist \/ \E i \in 0 .. (n - 1) : Unread[4 * i + 4] = p

(* The console has carried the request out; what it answers. *)
Answering ==
    CASE op = "list" -> hpc \in {"reply", "next"} /\ \E n \in 0 .. Len(Unread) : Packets(n)
      [] op = "download" ->
           \/ hpc = "reply" /\ Unread = <<MAGIC, Status.OK, 1, Len(Data)>> \o Append(Data, Checksum(Data))
           \/ hpc = "data" /\ need = Len(Data) /\ local \o Unread = Append(Data, Checksum(Data))
      [] op \in {"upload", "raw"} -> hpc = "result" /\ Unread = <<0>> /\ (op = "raw" => sd[path] = file)
      [] OTHER -> /\ hpc = "reply" /\ Len(Unread) >= 3
                  /\ Unread[1] = MAGIC /\ Unread[2] = Status.OK /\ Len(Unread) = 3 + Unread[3]

Refusing ==
    /\ hpc = "reply" /\ Len(Unread) = 3
    /\ Unread[1] = MAGIC /\ Unread[2] # Status.OK /\ Unread[3] = 0

(* The console has answered the request. *)
Over ==
    /\ dpc \in {"request", "list"} /\ Given = <<>>
    /\ dpc = "list" => op = "list" /\ Can /\ fs = fs0
    /\ fs = fs0 \/ (Can /\ fs = After)
    /\ ~failed =>
         \/ dpc = "request" /\ fs = fs0 /\ Refusing
         \/ dpc = "request" /\ fs = fs0 /\ hpc = "ready" /\ ret = 0 /\ Unread = <<>>
         \/ Can /\ fs = After /\ Answering
         \/ dpc = "request" /\ Can /\ hpc = "ready" /\ ret = 1 /\ Unread = <<>> /\ Effect

Track == Asking \/ Uploading \/ Over

Inv == Types /\ (fresh => Track)

-----------------------------------------------------------------------------
(* Sequences of items *)

(* Items are naturals, and the constants of the protocol are items. *)
LEMMA ItemFacts ==
  /\ Width \in Nat /\ Width > 83 /\ Item \subseteq Nat
  /\ \A n \in Nat : n < Width => n \in Item
  /\ {0, 1, 2, 3, MAGIC, Status.OK, Status.ERR, Status.UNSUPPORTED, Status.BAD_REQUEST} \subseteq Item
  /\ \A o \in Ops : Code[o] \in Item
<1>1. Width \in Nat /\ Width > 83
  BY ItemAssumption DEF MAGIC
<1>2. Item \subseteq Nat /\ \A n \in Nat : n < Width => n \in Item
  BY <1>1 DEF Item
<1>3. {0, 1, 2, 3, 4, 5, 6, 7, 8, 16, 83} \subseteq Item
  BY <1>1 DEF Item
<1>4. \A o \in Ops : Code[o] \in Item
  BY <1>3 DEF Ops, Code
<1> QED
  BY <1>1, <1>2, <1>3, <1>4 DEF MAGIC, Status

(* The checksum is an item, whatever Crc is. *)
LEMMA ChecksumType == \A s : Checksum(s) \in Item
  BY ItemFacts DEF Checksum

(* Only the empty sequence has no items. *)
LEMMA EmptyItems == Len(<<>>) = 0 /\ <<>> \in Seq(Item) /\ \A s \in Seq(Item) : (s = <<>>) = (Len(s) = 0)
<1>1. Len(<<>>) = 0 /\ <<>> \in Seq(Item)
  BY EmptySeq
<1>2. \A s \in Seq(Item) : s # <<>> => Len(s) \in Nat \ {0}
  BY EmptySeq
<1> QED
  BY <1>1, <1>2

(* Concatenation, item by item. *)
LEMMA ConcatItems ==
  ASSUME NEW s \in Seq(Item), NEW t \in Seq(Item)
  PROVE  /\ s \o t \in Seq(Item)
         /\ Len(s) \in Nat /\ Len(t) \in Nat /\ Len(s \o t) = Len(s) + Len(t)
         /\ \A i \in 1 .. Len(s) : (s \o t)[i] = s[i]
         /\ \A i \in 1 .. Len(t) : (s \o t)[Len(s) + i] = t[i]
<1>1. /\ Len(s \o t) = Len(s) + Len(t) /\ Len(s) \in Nat /\ Len(t) \in Nat
      /\ \A i \in 1 .. Len(s) + Len(t) : (s \o t)[i] = IF i =< Len(s) THEN s[i] ELSE t[i - Len(s)]
  BY ConcatProperties, LenProperties
<1>2. \A i \in 1 .. Len(s) : (s \o t)[i] = s[i]
  BY <1>1
<1>3. ASSUME NEW i \in 1 .. Len(t) PROVE (s \o t)[Len(s) + i] = t[i]
  <2>1. Len(s) + i \in 1 .. Len(s) + Len(t) /\ ~(Len(s) + i =< Len(s)) /\ Len(s) + i - Len(s) = i
    BY <1>1
  <2> QED
    BY <1>1, <2>1
<1> QED
  BY <1>1, <1>2, <1>3

(* A part of a sequence, item by item. *)
LEMMA PartItems ==
  ASSUME NEW s \in Seq(Item), NEW m \in Nat, NEW n \in 0 .. Len(s), m =< n
  PROVE  /\ SubSeq(s, m + 1, n) \in Seq(Item)
         /\ Len(SubSeq(s, m + 1, n)) = n - m
         /\ \A i \in 1 .. (n - m) : SubSeq(s, m + 1, n)[i] = s[m + i]
<1>1. Len(s) \in Nat /\ \A i \in 1 .. Len(s) : s[i] \in Item
  BY LenProperties, ElementOfSeq
<1>2. \A i \in (m + 1) .. n : s[i] \in Item
  BY <1>1
<1> QED
  BY <1>1, <1>2, SubSeqProperties

(* Sequences that agree at every place are one. *)
LEMMA SameItems ==
  ASSUME NEW s \in Seq(Item), NEW t \in Seq(Item), Len(s) = Len(t), \A i \in 1 .. Len(s) : s[i] = t[i]
  PROVE  s = t
  BY SeqEqual

(* Moving the head of t to the end of s changes nothing in the two together. *)
LEMMA MoveItem ==
  ASSUME NEW s \in Seq(Item), NEW t \in Seq(Item), t # <<>>
  PROVE  /\ Append(s, Head(t)) \in Seq(Item) /\ Tail(t) \in Seq(Item)
         /\ Append(s, Head(t)) \o Tail(t) = s \o t
<1>1. /\ Head(t) \in Item /\ Tail(t) \in Seq(Item) /\ Len(t) > 0 /\ Head(t) = t[1]
      /\ Len(Tail(t)) = Len(t) - 1 /\ \A i \in 1 .. Len(Tail(t)) : Tail(t)[i] = t[i + 1]
  BY HeadTailProperties, EmptySeq, LenProperties
<1>2. /\ Append(s, Head(t)) \in Seq(Item) /\ Len(Append(s, Head(t))) = Len(s) + 1
      /\ \A i \in 1 .. Len(s) : Append(s, Head(t))[i] = s[i]
      /\ Append(s, Head(t))[Len(s) + 1] = t[1]
  BY <1>1, AppendProperties
<1>3. /\ s \o t \in Seq(Item) /\ Len(s \o t) = Len(s) + Len(t) /\ Len(s) \in Nat /\ Len(t) \in Nat
      /\ \A i \in 1 .. Len(s) : (s \o t)[i] = s[i]
      /\ \A i \in 1 .. Len(t) : (s \o t)[Len(s) + i] = t[i]
  BY ConcatItems
<1> DEFINE u == Append(s, Head(t)) \o Tail(t)
<1>4. /\ u \in Seq(Item) /\ Len(u) = Len(s) + 1 + (Len(t) - 1)
      /\ \A i \in 1 .. Len(s) + 1 : u[i] = Append(s, Head(t))[i]
      /\ \A i \in 1 .. (Len(t) - 1) : u[Len(s) + 1 + i] = Tail(t)[i]
  BY <1>1, <1>2, <1>3, ConcatItems
<1>5. ASSUME NEW i \in 1 .. Len(s) + Len(t) PROVE u[i] = (s \o t)[i]
  <2>1. CASE i =< Len(s)
    BY <1>2, <1>3, <1>4, <2>1
  <2>2. CASE i = Len(s) + 1
    BY <1>1, <1>2, <1>3, <1>4, <2>2
  <2>3. CASE i > Len(s) + 1
    <3>1. PICK j \in 1 .. (Len(t) - 1) : i = Len(s) + 1 + j /\ i = Len(s) + (j + 1) /\ j + 1 \in 1 .. Len(t)
      <4>1. i - Len(s) - 1 \in 1 .. (Len(t) - 1)
        BY <1>3, <2>3
      <4> QED
        BY <1>3, <4>1
    <3> QED
      BY <1>1, <1>3, <1>4, <3>1
  <2> QED
    BY <1>3, <2>1, <2>2, <2>3
<1>6. Len(u) = Len(s \o t)
  BY <1>3, <1>4
<1>7. u = s \o t
  BY <1>3, <1>4, <1>5, <1>6, SameItems
<1> QED
  BY <1>1, <1>2, <1>7

(* Taking k items from the front of s takes them from the two together. *)
LEMMA TakeItems ==
  ASSUME NEW s \in Seq(Item), NEW t \in Seq(Item), NEW k \in 0 .. Len(s)
  PROVE  /\ SubSeq(s, k + 1, Len(s)) \in Seq(Item)
         /\ SubSeq(s, k + 1, Len(s)) \o t \in Seq(Item)
         /\ Len(SubSeq(s, k + 1, Len(s)) \o t) = Len(s \o t) - k
         /\ \A i \in 1 .. (Len(s \o t) - k) : (SubSeq(s, k + 1, Len(s)) \o t)[i] = (s \o t)[k + i]
<1>1. /\ Len(s) \in Nat /\ Len(t) \in Nat /\ Len(s \o t) = Len(s) + Len(t)
      /\ \A i \in 1 .. Len(s) : (s \o t)[i] = s[i]
      /\ \A i \in 1 .. Len(t) : (s \o t)[Len(s) + i] = t[i]
  BY ConcatItems
<1> DEFINE r == SubSeq(s, k + 1, Len(s))
<1>2. r \in Seq(Item) /\ Len(r) = Len(s) - k /\ \A i \in 1 .. (Len(s) - k) : r[i] = s[k + i]
  BY <1>1, PartItems
<1> HIDE DEF r
<1>a. k \in Nat /\ k =< Len(s) /\ Len(r) \in Nat
  BY <1>1, <1>2
<1>3. /\ r \o t \in Seq(Item) /\ Len(r \o t) = Len(s) - k + Len(t)
      /\ \A i \in 1 .. (Len(s) - k) : (r \o t)[i] = r[i]
      /\ \A i \in 1 .. Len(t) : (r \o t)[Len(s) - k + i] = t[i]
  <2>1. /\ r \o t \in Seq(Item) /\ Len(r \o t) = Len(r) + Len(t)
        /\ \A i \in 1 .. Len(r) : (r \o t)[i] = r[i]
        /\ \A i \in 1 .. Len(t) : (r \o t)[Len(r) + i] = t[i]
    BY <1>2, ConcatItems
  <2> QED
    BY <1>2, <2>1
<1>4. ASSUME NEW i \in 1 .. (Len(s \o t) - k) PROVE (r \o t)[i] = (s \o t)[k + i]
  <2>0. i \in Int /\ 1 =< i /\ i =< Len(s) + Len(t) - k
    BY <1>1, <1>a
  <2>1. CASE i =< Len(s) - k
    <3>1. i \in 1 .. (Len(s) - k) /\ k + i \in 1 .. Len(s)
      BY <1>1, <1>a, <2>0, <2>1
    <3> QED
      BY <1>1, <1>2, <1>3, <3>1
  <2>2. CASE i > Len(s) - k
    <3>1. PICK j : j = i - (Len(s) - k)
      OBVIOUS
    <3>2. j \in 1 .. Len(t) /\ i = Len(s) - k + j /\ k + i = Len(s) + j
      BY <1>1, <1>a, <2>0, <2>2, <3>1
    <3> QED
      BY <1>1, <1>3, <3>2
  <2>3. i =< Len(s) - k \/ i > Len(s) - k
    BY <1>1, <1>a, <2>0
  <2> QED
    BY <2>1, <2>2, <2>3
<1> QED
  BY <1>1, <1>2, <1>3, <1>4, <1>a DEF r

-----------------------------------------------------------------------------
(* What the host writes *)

(* A header, data and their checksum, item by item. *)
LEMMA Framed ==
  ASSUME NEW h \in Seq(Item), NEW f \in Seq(Item), NEW c \in Item
  PROVE  LET s == h \o Append(f, c)
         IN  /\ s \in Seq(Item) /\ Len(s) = Len(h) + Len(f) + 1
             /\ \A i \in 1 .. Len(h) : s[i] = h[i]
             /\ SubSeq(s, Len(h) + 1, Len(s) - 1) = f
             /\ s[Len(s)] = c
<1> DEFINE s == h \o Append(f, c)
<1>1. /\ Append(f, c) \in Seq(Item) /\ Len(Append(f, c)) = Len(f) + 1
      /\ \A i \in 1 .. Len(f) : Append(f, c)[i] = f[i]
      /\ Append(f, c)[Len(f) + 1] = c
  BY AppendProperties
<1>2. Len(f) \in Nat /\ Len(h) \in Nat
  BY LenProperties
<1>3. /\ s \in Seq(Item) /\ Len(s) = Len(h) + (Len(f) + 1)
      /\ \A i \in 1 .. Len(h) : s[i] = h[i]
      /\ \A i \in 1 .. Len(f) + 1 : s[Len(h) + i] = Append(f, c)[i]
  BY <1>1, ConcatItems
<1> HIDE DEF s
<1>4. Len(s) - 1 \in 0 .. Len(s) /\ Len(h) =< Len(s) - 1 /\ Len(s) - 1 - Len(h) = Len(f)
  BY <1>2, <1>3
<1>5. /\ SubSeq(s, Len(h) + 1, Len(s) - 1) \in Seq(Item)
      /\ Len(SubSeq(s, Len(h) + 1, Len(s) - 1)) = Len(f)
      /\ \A i \in 1 .. Len(f) : SubSeq(s, Len(h) + 1, Len(s) - 1)[i] = s[Len(h) + i]
  BY <1>2, <1>3, <1>4, PartItems
<1>6. \A i \in 1 .. Len(f) : s[Len(h) + i] = f[i]
  <2>1. \A i \in 1 .. Len(f) : i \in 1 .. Len(f) + 1
    BY <1>2
  <2> QED
    BY <1>1, <1>3, <2>1
<1>7. SubSeq(s, Len(h) + 1, Len(s) - 1) = f
  BY <1>5, <1>6, SameItems
<1>8. s[Len(s)] = c
  <2>1. Len(f) + 1 \in 1 .. Len(f) + 1 /\ Len(s) = Len(h) + (Len(f) + 1)
    BY <1>2, <1>3
  <2> QED
    BY <1>1, <1>3, <2>1
<1>9. Len(s) = Len(h) + Len(f) + 1
  BY <1>2, <1>3
<1> QED
  BY <1>3, <1>7, <1>8, <1>9 DEF s

(* What the three forms of a request and the data of an upload are. *)
LEMMA Written ==
  ASSUME TypeOK, Arguments
  PROVE  /\ Request \in Seq(Item) /\ Body \in Seq(Item)
         /\ op # "raw" => /\ Len(Request) = (IF op = "rename" THEN 4 ELSE 3)
                          /\ Request[1] = MAGIC /\ Request[2] = Code[op] /\ Request[3] = path
                          /\ Request[Len(Request)] = path2
         /\ op = "raw" => /\ Len(Request) = Len(file) + 4
                          /\ Request[1] = Code.raw /\ Request[2] = path /\ Request[3] = Len(file)
                          /\ SubSeq(Request, 4, Len(Request) - 1) = file
                          /\ Request[Len(Request)] = Checksum(file)
         /\ Len(Body) = Len(file) + 2 /\ Body[1] = Len(file)
         /\ SubSeq(Body, 2, Len(Body) - 1) = file
         /\ Body[Len(Body)] = Checksum(file)
<1>1. /\ op \in Ops /\ path \in Item /\ path2 \in Item /\ file \in Seq(Item)
      /\ Len(file) \in Nat /\ Len(file) \in Item /\ Checksum(file) \in Item
      /\ MAGIC \in Item /\ \A o \in Ops : Code[o] \in Item
  BY ItemFacts, ChecksumType, LenProperties DEF TypeOK, Arguments
<1>2. Code.raw \in Item /\ Code.rename \in Item
  BY ItemFacts DEF Ops, Code
<1>6. /\ Body \in Seq(Item) /\ Len(Body) = Len(file) + 2 /\ Body[1] = Len(file)
      /\ SubSeq(Body, 2, Len(Body) - 1) = file
      /\ Body[Len(Body)] = Checksum(file)
  <2>1. PICK h : h = <<Len(file)>>
    OBVIOUS
  <2>2. h \in Seq(Item) /\ Len(h) = 1 /\ h[1] = Len(file)
    BY <1>1, <2>1
  <2>3. /\ Body \in Seq(Item) /\ Len(Body) = 1 + Len(file) + 1
        /\ \A i \in 1 .. 1 : Body[i] = h[i]
        /\ SubSeq(Body, 1 + 1, Len(Body) - 1) = file
        /\ Body[Len(Body)] = Checksum(file)
    BY <1>1, <2>1, <2>2, Framed DEF Body
  <2> QED
    BY <1>1, <2>2, <2>3
<1>3. CASE op = "rename"
  <2>1. Request = <<MAGIC, Code[op], path, path2>>
    BY <1>3 DEF Request, SendRemoteIoRenameCommand, Code
  <2>2. Request \in Seq(Item)
    BY <1>1, <2>1
  <2> QED
    BY <1>3, <1>6, <2>1, <2>2
<1>4. CASE op \notin {"rename", "raw"}
  <2>1. Request = <<MAGIC, Code[op], path>> /\ path = path2
    BY <1>4 DEF Request, SendRemoteIoCommand, Arguments
  <2>2. Request \in Seq(Item)
    BY <1>1, <2>1
  <2> QED
    BY <1>4, <1>6, <2>1, <2>2
<1>5. CASE op = "raw"
  <2>1. Request = <<Code.raw, path, Len(file)>> \o Append(file, Checksum(file))
    BY <1>5 DEF Request, RawUpload
  <2>2. PICK h : h = <<Code.raw, path, Len(file)>>
    OBVIOUS
  <2>3. h \in Seq(Item) /\ Len(h) = 3 /\ h[1] = Code.raw /\ h[2] = path /\ h[3] = Len(file)
    BY <1>1, <1>2, <2>2
  <2>4. /\ Request \in Seq(Item) /\ Len(Request) = 3 + Len(file) + 1
        /\ \A i \in 1 .. 3 : Request[i] = h[i]
        /\ SubSeq(Request, 3 + 1, Len(Request) - 1) = file
        /\ Request[Len(Request)] = Checksum(file)
    BY <1>1, <2>1, <2>2, <2>3, Framed
  <2> QED
    BY <1>1, <1>5, <1>6, <2>3, <2>4
<1> QED
  BY <1>3, <1>4, <1>5, <1>6

(* What the host is writing is a sequence of items. *)
LEMMA OutgoingType ==
  ASSUME Types, hpc \in {"request", "body"}
  PROVE  Outgoing \in Seq(Item) /\ Outgoing = (IF hpc = "request" THEN Request ELSE Body)
<1>1. TypeOK /\ Arguments
  BY DEF Types, Phases
<1> QED
  BY <1>1, Written DEF Outgoing

(* The items that a read waits for. *)
LEMMA WantedType ==
  ASSUME Types
  PROVE  /\ Wanted \in Nat
         /\ hpc = "data" /\ Len(local) < need => Wanted > 0 /\ Len(local) + Wanted =< need
<1>1. /\ fromDev \in Seq(Item) /\ Len(fromDev) \in Nat /\ local \in Seq(Item) /\ Len(local) \in Nat
      /\ need \in Nat /\ Chunk \in Nat /\ Chunk > 0
  BY ItemFacts, BoundAssumption, LenProperties DEF Types, TypeOK
<1>2. Len(fromDev) >= 3 => fromDev[3] \in Nat
  <2>1. Len(fromDev) >= 3 => 3 \in 1 .. Len(fromDev)
    BY <1>1
  <2> QED
    BY <1>1, <2>1, ItemFacts, ElementOfSeq
<1>3. CASE hpc \in {"reply", "next"}
  BY <1>2, <1>3 DEF Wanted
<1>4. CASE hpc = "data" /\ Len(local) < need
  BY <1>1, <1>4 DEF Wanted
<1>5. CASE hpc \notin {"reply", "next"} /\ ~(hpc = "data" /\ Len(local) < need)
  BY <1>1, <1>5 DEF Wanted
<1> QED
  BY <1>3, <1>4, <1>5

-----------------------------------------------------------------------------
(* Types *)

(* What a file system holds at a path. *)
LEMMA EntryTypes ==
  /\ {None, Dir} \subseteq [kind : {"none", "dir", "file"}, data : Seq(Item)]
  /\ Len(None.data) = 0 /\ Len(Dir.data) = 0
  /\ \A d \in Seq(Item) : File(d) \in [kind : {"none", "dir", "file"}, data : Seq(Item)] /\ File(d).data = d
<1>1. <<>> \in Seq(Item) /\ Len(<<>>) = 0
  BY EmptySeq
<1> QED
  BY <1>1 DEF None, Dir, File

(* The card at the start. *)
LEMMA InitialSound == FsSound(InitialFs)
<1>1. ASSUME NEW p \in Paths
      PROVE  InitialFs[p] \in [kind : {"none", "dir", "file"}, data : Seq(Item)] /\ Len(InitialFs[p].data) < Width
  <2>1. CASE InitialFs[p] \in {None, Dir}
    BY <2>1, EntryTypes, ItemFacts
  <2>2. CASE \E d \in Contents : InitialFs[p] = File(d)
    <3>1. PICK d \in Contents : InitialFs[p] = File(d)
      BY <2>2
    <3> QED
      BY <3>1, EntryTypes, ItemAssumption
  <2> QED
    BY <2>1, <2>2, FsAssumption
<1> QED
  BY <1>1, FsAssumption DEF FsSound, FsType

(* Replacing one entry. *)
LEMMA ReplaceSound ==
  ASSUME NEW f, FsSound(f), NEW p, NEW e \in [kind : {"none", "dir", "file"}, data : Seq(Item)],
         Len(e.data) < Width
  PROVE  FsSound([f EXCEPT ![p] = e])
  BY DEF FsSound, FsType

(* What a request does to a file system keeps it sound. *)
LEMMA ApplySound ==
  ASSUME NEW f, FsSound(f), NEW c, NEW p \in Paths, NEW q \in Paths
  PROVE  FsSound(Apply(c, p, q, f))
<1>1. \A x \in {None, Dir} : x \in [kind : {"none", "dir", "file"}, data : Seq(Item)] /\ Len(x.data) < Width
  BY EntryTypes, ItemFacts
<1>2. FsSound([f EXCEPT ![p] = None]) /\ FsSound([f EXCEPT ![p] = Dir])
  BY <1>1, ReplaceSound
<1>3. f[p] \in [kind : {"none", "dir", "file"}, data : Seq(Item)] /\ Len(f[p].data) < Width
  BY DEF FsSound, FsType
<1>4. FsSound([f EXCEPT ![p] = None, ![q] = f[p]])
  BY <1>1, <1>2, <1>3, ReplaceSound
<1> QED
  BY <1>2, <1>4 DEF Apply, Code

(* The answer to a request is a sequence of items. *)
LEMMA PayloadType ==
  ASSUME FsSound(fs), NEW c, NEW p \in Paths
  PROVE  Payload(c, p) \in Seq(Item)
<1>1. fs[p].data \in Seq(Item) /\ Len(fs[p].data) \in Item /\ Checksum(fs[p].data) \in Item
  BY ItemFacts, ChecksumType, LenProperties DEF FsSound, FsType
<1>2. {MAGIC, Status.OK, 0, 1} \subseteq Item
  BY ItemFacts
<1>3. <<MAGIC, Status.OK, 1, Len(fs[p].data)>> \in Seq(Item)
  BY <1>1, <1>2
<1>4. <<MAGIC, Status.OK, 1, Len(fs[p].data)>> \o Append(fs[p].data, Checksum(fs[p].data)) \in Seq(Item)
  BY <1>1, <1>3, Framed
<1>5. <<MAGIC, Status.OK, 1, Checksum(fs[p].data)>> \in Seq(Item) /\ <<MAGIC, Status.OK, 0>> \in Seq(Item)
  BY <1>1, <1>2
<1> QED
  BY <1>4, <1>5 DEF Payload, Code

(* The types hold at the start. *)
LEMMA TypesInit == Init => Types
<1> SUFFICES ASSUME Init PROVE Types
  OBVIOUS
<1>1. <<>> \in Seq(Item) /\ Len(<<>>) = 0 /\ 0 \in Item
  BY ItemFacts, EmptySeq
<1>2. FsSound(fs) /\ FsSound(fs0)
  BY InitialSound DEF Init
<1>3. fs \in FsType /\ sd \in [Sectors -> Seq(Item)] /\ 0 \in 0 .. MaxRequests /\ "list" \in Ops
  BY <1>1, <1>2, BoundAssumption DEF Init, FsSound, Ops, Code
<1>5. TypeOK
  <2>1. /\ hpc = "ready" /\ op = "list" /\ path = 0 /\ path2 = 0 /\ file = <<>> /\ listing = {} /\ need = 0
        /\ local = <<>> /\ ret = 0 /\ interrupt = FALSE /\ requests = 0 /\ toDev = <<>> /\ fromDev = <<>>
    BY DEF Init
  <2>2. /\ dpc = "request" /\ din = <<>> /\ dpath = 0 /\ dlist = {} /\ dout = <<>>
        /\ fresh = FALSE /\ failed = FALSE /\ cut = FALSE
    BY DEF Init
  <2>3. Len(local) =< need
    BY <1>1, <2>1
  <2> QED
    BY <1>1, <1>3, <2>1, <2>2, <2>3 DEF TypeOK, FsType
<1>4. Phases
  BY DEF Init, Phases
<1> QED
  BY <1>2, <1>4, <1>5 DEF Init, Types

(* A request that begins. *)
LEMMA BeginTypes ==
  ASSUME Types, NEW purge \in BOOLEAN, Begin(purge)
  PROVE  Types'
<1> USE DEF link, console
<1>1. op' \in Ops /\ requests' \in 0 .. MaxRequests /\ requests' > 0
  BY BoundAssumption DEF Begin, Types, TypeOK
<1>2. /\ op' = "raw" => path' \in Sectors
      /\ op' # "raw" => path' \in Paths /\ path2' \in Paths
      /\ (op' = "rename") = (path' # path2')
      /\ path' \in Item /\ path2' \in Item
  BY ItemAssumption DEF Begin
<1>3. file' \in Seq(Item) /\ Len(file') < Width
  <2>0. file' \in (IF op' \in {"upload", "raw"} THEN Contents ELSE {<<>>})
    BY DEF Begin
  <2>1. file' \in Contents \/ file' = <<>>
    BY <2>0
  <2>2. <<>> \in Seq(Item) /\ Len(<<>>) < Width
    BY ItemFacts, EmptySeq
  <2>3. CASE file' \in Contents
    BY <2>3, ItemAssumption
  <2> QED
    BY <2>1, <2>2, <2>3
<1>4. <<>> \in Seq(Item) /\ Len(<<>>) = 0 /\ 0 \in Item
  BY ItemFacts, EmptySeq
<1>5. toDev' \in Seq(Item) /\ fromDev' \in Seq(Item) /\ interrupt' \in BOOLEAN
  BY <1>4 DEF Begin, Types, TypeOK
<1>6. FsSound(fs)' /\ FsSound(fs0)'
  BY DEF Begin, Types, FsSound
<1>7. fresh' \in BOOLEAN
  BY DEF Begin
<1>8. TypeOK'
  <2>1. hpc' = "request" /\ listing' = {} /\ need' = 0 /\ local' = <<>> /\ ret' = 0 /\ failed' = FALSE /\ cut' = FALSE
    BY DEF Begin
  <2>2. UNCHANGED <<dpc, din, dpath, dlist, dout, fs, sd>>
    BY DEF Begin
  <2>3. Len(local') =< need'
    BY <1>4, <2>1
  <2> QED
    BY <1>1, <1>2, <1>3, <1>4, <1>5, <1>7, <2>1, <2>2, <2>3 DEF Types, TypeOK
<1>9. Phases'
  BY <1>1 DEF Begin, Phases
<1> QED
  BY <1>2, <1>3, <1>6, <1>8, <1>9 DEF Types, Arguments

(* The writes of the host. *)
LEMMA WriteTypes ==
  ASSUME Types, WriteAllToDevice \/ WriteFails
  PROVE  Types'
<1> USE DEF request, answer, console, history
<1>0. Outgoing \in Seq(Item) /\ toDev \in Seq(Item) /\ Len(Outgoing) \in Nat
  BY OutgoingType, LenProperties DEF WriteAllToDevice, WriteFails, Types, TypeOK
<1>1. toDev' \in Seq(Item)
  <2>1. CASE WriteAllToDevice
    BY <1>0, <2>1, ConcatItems DEF WriteAllToDevice
  <2>2. CASE WriteFails
    <3>1. PICK k \in 0 .. Len(Outgoing) : toDev' = toDev \o SubSeq(Outgoing, 1, k)
      BY <2>2 DEF WriteFails
    <3>2. SubSeq(Outgoing, 0 + 1, k) \in Seq(Item)
      BY <1>0, PartItems
    <3> QED
      BY <1>0, <3>1, <3>2, ConcatItems
  <2> QED
    BY <2>1, <2>2
<1>2. UNCHANGED <<op, path, path2, file, requests, listing, need, local, interrupt, fromDev, dpc,
                  din, dpath, dlist, dout, fs, sd, fresh, cut, fs0>>
  BY DEF WriteAllToDevice, WriteFails
<1>3. hpc' \in {"ready", "request", "reply", "next", "body", "data", "result"} /\ ret' \in {0, 1} /\ failed' \in BOOLEAN
  BY DEF WriteAllToDevice, WriteFails, Finish, AfterWrite, Types, TypeOK
<1>4. TypeOK'
  BY <1>1, <1>2, <1>3 DEF Types, TypeOK
<1>5. FsSound(fs)' /\ FsSound(fs0)' /\ (requests' > 0 => Arguments')
  BY <1>2 DEF Types, Arguments, FsSound
<1>6. Phases'
  <2>1. CASE WriteAllToDevice
    BY <1>2, <2>1 DEF WriteAllToDevice, AfterWrite, Types, Phases
  <2>2. CASE WriteFails
    BY <1>2, <2>2 DEF WriteFails, Finish, Types, Phases
  <2> QED
    BY <2>1, <2>2
<1> QED
  BY <1>4, <1>5, <1>6 DEF Types

(* A read that leaves the last items of the link. *)
LEMMA LeftType ==
  ASSUME TypeOK, NEW k \in Nat, k =< Len(fromDev)
  PROVE  SubSeq(fromDev, k + 1, Len(fromDev)) \in Seq(Item)
<1>1. fromDev \in Seq(Item) /\ Len(fromDev) \in Nat
  BY LenProperties DEF TypeOK
<1> QED
  BY <1>1, PartItems

(* The payload of a reply. *)
LEMMA ReplyFacts ==
  ASSUME TypeOK, hpc \in {"reply", "next"}, Len(fromDev) >= 3, Len(fromDev) >= Wanted, fromDev[1] = MAGIC
  PROVE  /\ Wanted = 3 + fromDev[3] /\ fromDev[3] \in Nat
         /\ SubSeq(fromDev, 4, 3 + fromDev[3]) \in Seq(Item)
         /\ Len(SubSeq(fromDev, 4, 3 + fromDev[3])) = fromDev[3]
         /\ \A i \in 1 .. fromDev[3] : SubSeq(fromDev, 4, 3 + fromDev[3])[i] = fromDev[3 + i]
<1>1. fromDev \in Seq(Item) /\ Len(fromDev) \in Nat
  BY LenProperties DEF TypeOK
<1>2. fromDev[3] \in Nat
  <2>1. 3 \in 1 .. Len(fromDev)
    BY <1>1
  <2> QED
    BY <1>1, <2>1, ItemFacts, ElementOfSeq
<1>3. Wanted = 3 + fromDev[3]
  BY DEF Wanted
<1>4. PICK n : n = 3 + fromDev[3]
  OBVIOUS
<1>5. n \in 0 .. Len(fromDev) /\ 3 =< n /\ n - 3 = fromDev[3]
  BY <1>1, <1>2, <1>3, <1>4
<1>6. /\ SubSeq(fromDev, 3 + 1, n) \in Seq(Item) /\ Len(SubSeq(fromDev, 3 + 1, n)) = n - 3
      /\ \A i \in 1 .. (n - 3) : SubSeq(fromDev, 3 + 1, n)[i] = fromDev[3 + i]
  BY <1>1, <1>5, PartItems
<1>7. SubSeq(fromDev, 4, 3 + fromDev[3]) = SubSeq(fromDev, 3 + 1, n)
  BY <1>4
<1>8. /\ SubSeq(fromDev, 3 + 1, n) \in Seq(Item) /\ Len(SubSeq(fromDev, 3 + 1, n)) = fromDev[3]
      /\ \A i \in 1 .. fromDev[3] : SubSeq(fromDev, 3 + 1, n)[i] = fromDev[3 + i]
  BY <1>5, <1>6
<1> QED
  BY <1>2, <1>3, <1>7, <1>8

(* The replies that the host reads. *)
LEMMA ReplyTypes ==
  ASSUME Types, ReadReply
  PROVE  Types'
<1> USE DEF request, answer, console, history
<1>0. TypeOK /\ Wanted \in Nat /\ Wanted =< Len(fromDev)
  BY WantedType, LenProperties DEF Types, TypeOK, ReadReply, Read
<1>1. fromDev' \in Seq(Item)
  BY <1>0, LeftType DEF ReadReply, Read
<1>2. UNCHANGED <<op, path, path2, file, requests, interrupt, toDev, dpc, din, dpath, dlist, dout,
                  fs, sd, fresh, failed, cut, fs0>>
  BY DEF ReadReply
<1> DEFINE payload == SubSeq(fromDev, 4, 3 + fromDev[3])
<1>3. hpc \in {"reply", "next"} /\ local = <<>> /\ op # "raw" /\ ~cut /\ ~failed /\ requests > 0
      /\ (op # "list" => hpc = "reply")
  BY DEF ReadReply, Types, Phases
<1>4. CASE fromDev[1] = MAGIC /\ fromDev[2] = Status.OK
  <2>1. payload \in Seq(Item) /\ Accepted(payload)
    BY <1>0, <1>4, ReplyFacts DEF ReadReply
  <2>2. payload # <<>> => payload[1] \in Item
    BY <2>1, EmptySeq, ElementOfSeq, LenProperties
  <2>3. \A i \in 1 .. Len(payload) : payload[i] \in Item
    BY <2>1, ElementOfSeq
  <2> HIDE DEF payload
  <2>4. CASE op = "list"
    <3>1. ListPacket(payload)
      BY <2>1, <2>4 DEF Accepted
    <3>2. /\ listing' = listing \cup {payload[i] : i \in 1 .. Len(payload)} /\ UNCHANGED <<need, local>>
          /\ (hpc' = "ready" /\ ret' = 1) \/ (hpc' = "next" /\ ret' = ret)
      BY <3>1 DEF ListPacket, Finish
    <3>3. TypeOK'
      BY <1>0, <1>1, <1>2, <2>3, <3>2 DEF TypeOK
    <3>4. Phases'
      BY <1>2, <1>3, <2>4, <3>2 DEF Phases
    <3> QED
      BY <1>2, <3>3, <3>4 DEF Types, Arguments, FsSound
  <2>5. CASE op = "upload"
    <3>1. hpc' = "body" /\ UNCHANGED <<listing, need, local, ret>>
      BY <2>1, <2>5 DEF Accepted, UploadAccepted
    <3>2. TypeOK'
      BY <1>0, <1>1, <1>2, <3>1 DEF TypeOK
    <3>3. Phases'
      BY <1>2, <1>3, <2>5, <3>1 DEF Phases
    <3> QED
      BY <1>2, <3>2, <3>3 DEF Types, Arguments, FsSound
  <2>6. CASE op = "download"
    <3>1. DownloadAccepted(payload)
      BY <2>1, <2>6 DEF Accepted
    <3>2. /\ UNCHANGED <<listing, local>>
          /\ \/ hpc' = "ready" /\ ret' = 0 /\ need' = need
             \/ hpc' = "data" /\ ret' = ret /\ need' \in Item
      BY <2>2, <3>1 DEF DownloadAccepted, Finish
    <3>3. TypeOK'
      <4>1. Len(local') =< need'
        <5>1. Len(<<>>) = 0
          BY EmptySeq
        <5>2. need \in Nat /\ Len(local) =< need /\ Item \subseteq Nat /\ \A x \in Item : 0 =< x
          BY <1>0, ItemFacts DEF TypeOK
        <5> QED
          BY <1>3, <3>2, <5>1, <5>2
      <4> QED
        BY <1>0, <1>1, <1>2, <3>2, <4>1 DEF TypeOK
    <3>4. Phases'
      BY <1>2, <1>3, <2>6, <3>2 DEF Phases
    <3> QED
      BY <1>2, <3>3, <3>4 DEF Types, Arguments, FsSound
  <2>7. CASE op \notin {"list", "upload", "download"}
    <3>1. hpc' = "ready" /\ ret' = 1 /\ UNCHANGED <<listing, need, local>>
      BY <2>1, <2>7 DEF Accepted, CommandAccepted, Finish
    <3>2. TypeOK'
      BY <1>0, <1>1, <1>2, <3>1 DEF TypeOK
    <3>3. Phases'
      BY <1>2, <1>3, <3>1 DEF Phases, Types
    <3> QED
      BY <1>2, <3>2, <3>3 DEF Types, Arguments, FsSound
  <2> QED
    BY <2>4, <2>5, <2>6, <2>7
<1>5. CASE ~(fromDev[1] = MAGIC /\ fromDev[2] = Status.OK)
  <2>1. hpc' = "ready" /\ ret' = 0 /\ UNCHANGED <<listing, need, local>>
    BY <1>5 DEF ReadReply, Finish
  <2>2. TypeOK'
    BY <1>0, <1>1, <1>2, <2>1 DEF TypeOK
  <2>3. Phases'
    BY <1>2, <1>3, <2>1 DEF Phases, Types
  <2> QED
    BY <1>2, <2>2, <2>3 DEF Types, Arguments, FsSound
<1> QED
  BY <1>4, <1>5

(* The data and the last item that the host reads. *)
LEMMA ReadTypes ==
  ASSUME Types, ReadData \/ ReadChecksum \/ ReadResult
  PROVE  Types'
<1> USE DEF request, answer, console, history
<1>0. TypeOK /\ fromDev \in Seq(Item) /\ Len(fromDev) \in Nat
  BY LenProperties DEF Types, TypeOK
<1>1. UNCHANGED <<op, path, path2, file, requests, listing, need, interrupt, toDev, dpc, din,
                  dpath, dlist, dout, fs, sd, fresh, failed, cut, fs0>>
  BY DEF ReadData, ReadChecksum, ReadResult
<1>2. CASE ReadData
  <2>1. /\ hpc = "data" /\ Len(local) < need /\ Wanted \in Nat /\ Wanted =< Len(fromDev)
        /\ Wanted > 0 /\ Len(local) + Wanted =< need
    BY <1>0, <1>2, WantedType DEF ReadData, Read
  <2>2. fromDev' \in Seq(Item)
    BY <1>0, <1>2, <2>1, LeftType DEF ReadData, Read
  <2>3. PICK w \in Nat : w = Wanted
    BY <2>1
  <2>4. SubSeq(fromDev, 0 + 1, w) \in Seq(Item) /\ Len(SubSeq(fromDev, 0 + 1, w)) = w - 0
    BY <1>0, <2>1, <2>3, PartItems
  <2>5. local \in Seq(Item) /\ Len(local) \in Nat /\ local' = local \o SubSeq(fromDev, 1, w)
    BY <1>0, <1>2, <2>3, LenProperties DEF TypeOK, ReadData
  <2>6. local' \in Seq(Item) /\ Len(local') = Len(local) + w
    BY <2>4, <2>5, ConcatItems
  <2>7. Len(local') =< need' /\ hpc' = hpc /\ ret' = ret
    BY <1>1, <1>2, <2>1, <2>3, <2>6 DEF ReadData
  <2>8. TypeOK'
    BY <1>0, <1>1, <2>2, <2>6, <2>7 DEF TypeOK
  <2>9. Phases'
    BY <1>1, <2>1, <2>7 DEF Phases, Types
  <2> QED
    BY <1>1, <2>8, <2>9 DEF Types, Arguments, FsSound
<1>3. CASE ReadChecksum \/ ReadResult
  <2>1. fromDev' \in Seq(Item)
    <3>1. CASE Read(1)
      BY <1>0, <3>1, LeftType DEF Read
    <3>2. CASE fromDev # <<>> /\ fromDev' = Tail(fromDev)
      BY <1>0, <3>2, HeadTailProperties
    <3> QED
      BY <1>3, <3>1, <3>2 DEF ReadChecksum, ReadResult
  <2>2. hpc' = "ready" /\ ret' \in {0, 1} /\ UNCHANGED local /\ hpc \in {"data", "result"}
    BY <1>3 DEF ReadChecksum, ReadResult, Finish
  <2>3. TypeOK'
    BY <1>0, <1>1, <2>1, <2>2 DEF TypeOK
  <2>4. Phases'
    BY <1>1, <2>2 DEF Phases, Types
  <2> QED
    BY <1>1, <2>3, <2>4 DEF Types, Arguments, FsSound
<1> QED
  BY <1>2, <1>3

(* A read that gives up. *)
LEMMA GiveUpTypes ==
  ASSUME Types, Waiting, NEW k \in 0 .. Len(fromDev), GiveUp(k), ~failed
  PROVE  Types'
<1> USE DEF request, answer, console
<1>0. TypeOK /\ fromDev \in Seq(Item) /\ Len(fromDev) \in Nat
  BY LenProperties DEF Types, TypeOK
<1>1. UNCHANGED <<op, path, path2, file, requests, listing, need, local, interrupt, toDev, dpc,
                  din, dpath, dlist, dout, fs, sd, fresh, fs0>>
  BY DEF GiveUp
<1>2. fromDev' \in Seq(Item)
  BY <1>0, LeftType DEF GiveUp
<1>3. hpc' = "ready" /\ ret' = (IF hpc = "next" /\ k < 3 THEN 1 ELSE 0)
  BY DEF GiveUp, Finish
<1>4. failed' \in BOOLEAN /\ cut' \in BOOLEAN /\ (cut' => failed' /\ hpc = "next")
      /\ (failed' /\ ret' = 1 => cut')
  <2>1. failed' = ~(hpc = "next" /\ k = 0 /\ fromDev = <<>> /\ Quiet)
    BY DEF GiveUp
  <2>2. cut' = (hpc = "next" /\ k < 3 /\ ~(fromDev = <<>> /\ Quiet))
    BY DEF GiveUp
  <2>3. fromDev = <<>> => k = 0
    BY <1>0, EmptySeq
  <2>4. failed' \in BOOLEAN /\ cut' \in BOOLEAN /\ (cut' => failed') /\ (cut' => hpc = "next")
    BY <2>1, <2>2, Zenon
  <2>5. ret' = 1 => hpc = "next" /\ k < 3
    BY <1>3
  <2>6. failed' /\ ret' = 1 => cut'
    BY <2>1, <2>2, <2>3, <2>5, Zenon
  <2> QED
    BY <2>4, <2>6
<1>5. TypeOK'
  BY <1>0, <1>1, <1>2, <1>3, <1>4 DEF TypeOK
<1>6. Phases'
  BY <1>1, <1>3, <1>4 DEF Phases, Types, Waiting
<1> QED
  BY <1>1, <1>5, <1>6 DEF Types, Arguments, FsSound

(* The reads that end before they have what they want. *)
LEMMA GivesUp ==
  ASSUME Types, ReadTimeout \/ ReadFails
  PROVE  Waiting /\ ~failed /\ \E k \in 0 .. Len(fromDev) : GiveUp(k)
<1>1. Waiting /\ ~failed
  BY DEF ReadTimeout, ReadFails, Waiting, Types, Phases
<1>2. Len(fromDev) \in 0 .. Len(fromDev)
  BY LenProperties DEF Types, TypeOK
<1> QED
  BY <1>1, <1>2 DEF ReadTimeout, ReadFails

(* A raw upload that is interrupted, and the signal. *)
LEMMA InterruptTypes ==
  ASSUME Types, ReadInterrupted \/ Signal
  PROVE  Types'
<1> USE DEF request, answer, console, link, history
<1>0. TypeOK
  BY DEF Types
<1>1. UNCHANGED <<op, path, path2, file, requests, listing, need, local, toDev, fromDev, dpc, din,
                  dpath, dlist, dout, fs, sd, fresh, cut, fs0>>
  BY DEF ReadInterrupted, Signal
<1>2. CASE ReadInterrupted
  <2>1. hpc' = "ready" /\ ret' \in {0, 1} /\ failed' = TRUE /\ op = "raw" /\ interrupt /\ interrupt' = interrupt /\ hpc = "result"
    BY <1>2 DEF ReadInterrupted, Finish
  <2>2. TypeOK'
    BY <1>0, <1>1, <2>1 DEF TypeOK
  <2>3. Phases'
    BY <1>1, <2>1 DEF Phases, Types
  <2> QED
    BY <1>1, <2>2, <2>3 DEF Types, Arguments, FsSound
<1>3. CASE Signal
  <2>1. UNCHANGED <<hpc, ret, failed>> /\ interrupt' = TRUE
    BY <1>3 DEF Signal
  <2>2. TypeOK'
    BY <1>0, <1>1, <2>1 DEF TypeOK
  <2>3. Phases'
    BY <1>1, <2>1 DEF Phases, Types
  <2> QED
    BY <1>1, <2>2, <2>3 DEF Types, Arguments, FsSound
<1> QED
  BY <1>2, <1>3

(* A step of the console that changes only what the console keeps and the link. *)
LEMMA ConsoleTypes ==
  ASSUME Types,
         UNCHANGED <<hpc, op, path, path2, file, requests, listing, need, local, ret, interrupt, fresh, failed, cut, fs0>>,
         toDev' \in Seq(Item), fromDev' \in Seq(Item), din' \in Seq(Item), dout' \in Seq(Item),
         dpc' \in {"request", "upload", "list"}, dpath' \in Item, dlist' \subseteq Paths,
         FsSound(fs'), sd' \in [Sectors -> Seq(Item)]
  PROVE  Types'
<1>1. TypeOK'
  BY DEF Types, TypeOK, FsSound, FsType
<1>2. Phases'
  BY DEF Types, Phases
<1>3. FsSound(fs)' /\ FsSound(fs0)'
  BY DEF Types, FsSound
<1> QED
  BY <1>1, <1>2, <1>3 DEF Types, Arguments

(* The items of a complete request. *)
LEMMA CompleteFacts ==
  ASSUME TypeOK, Complete
  PROVE  /\ din \in Seq(Item) /\ Len(din) \in Nat /\ Len(din) >= 2
         /\ dpc = "upload" => Len(din) - 2 = din[1] /\ din[1] \in Item
         /\ dpc # "upload" => Len(din) >= 3
         /\ dpc # "upload" /\ din[1] = Code.raw => Len(din) - 4 = din[3] /\ din[3] \in Item /\ Len(din) >= 4
<1>1. din \in Seq(Item) /\ Len(din) \in Nat /\ \A i \in 1 .. Len(din) : din[i] \in Item
  BY LenProperties, ElementOfSeq DEF TypeOK
<1>2. CASE dpc = "upload"
  <2>1. Len(din) > 0 /\ Len(din) = din[1] + 2
    BY <1>2 DEF Complete
  <2>2. din[1] \in Item /\ din[1] \in Nat
    <3>1. 1 \in 1 .. Len(din)
      BY <1>1, <2>1
    <3>2. din[1] \in Item
      BY <1>1, <3>1
    <3> QED
      BY <3>2, ItemFacts
  <2> QED
    BY <1>1, <1>2, <2>1, <2>2
<1>3. CASE dpc # "upload"
  <2>1. \/ Len(din) = 3 /\ din[1] = MAGIC
        \/ Len(din) = 4 /\ din[1] = MAGIC
        \/ Len(din) > 2 /\ din[1] = Code.raw /\ Len(din) = din[3] + 4
    BY <1>3 DEF Complete
  <2>2. Len(din) >= 3
    BY <1>1, <2>1
  <2>3. din[3] \in Item /\ din[3] \in Nat
    <3>1. 3 \in 1 .. Len(din)
      BY <1>1, <2>2
    <3>2. din[3] \in Item
      BY <1>1, <3>1
    <3> QED
      BY <3>2, ItemFacts
  <2>4. Code.raw # MAGIC
    BY DEF Code, MAGIC
  <2> QED
    BY <1>1, <1>3, <2>1, <2>2, <2>3, <2>4
<1> QED
  BY <1>2, <1>3

(* What an upload stores. *)
LEMMA StoredFacts ==
  ASSUME TypeOK, Complete, dpc = "upload" \/ din[1] = Code.raw
  PROVE  LET data == SubSeq(din, (IF dpc = "upload" THEN 1 ELSE 3) + 1, Len(din) - 1)
         IN  data \in Seq(Item) /\ Len(data) < Width
<1> DEFINE head == IF dpc = "upload" THEN 1 ELSE 3
<1>0. Width \in Nat /\ \A x \in Item : x < Width /\ x \in Nat
  BY ItemFacts DEF Item
<1>1. CASE dpc = "upload"
  <2>1. /\ din \in Seq(Item) /\ Len(din) \in Nat /\ Len(din) - 2 = din[1] /\ din[1] \in Item /\ Len(din) >= 2
    BY <1>1, CompleteFacts
  <2>2. SubSeq(din, 1 + 1, Len(din) - 1) \in Seq(Item) /\ Len(SubSeq(din, 1 + 1, Len(din) - 1)) = Len(din) - 1 - 1
    <3>1. Len(din) - 1 \in 0 .. Len(din) /\ 1 =< Len(din) - 1
      BY <2>1
    <3> QED
      BY <2>1, <3>1, PartItems
  <2>3. Len(din) - 1 - 1 < Width
    BY <1>0, <2>1
  <2>4. head = 1
    BY <1>1
  <2> HIDE DEF head
  <2>5. SubSeq(din, head + 1, Len(din) - 1) \in Seq(Item) /\ Len(SubSeq(din, head + 1, Len(din) - 1)) < Width
    BY <2>2, <2>3, <2>4
  <2> QED
    BY <2>5 DEF head
<1>2. CASE dpc # "upload"
  <2>1. /\ din \in Seq(Item) /\ Len(din) \in Nat /\ Len(din) - 4 = din[3] /\ din[3] \in Item /\ Len(din) >= 4
    BY <1>2, CompleteFacts
  <2>2. SubSeq(din, 3 + 1, Len(din) - 1) \in Seq(Item) /\ Len(SubSeq(din, 3 + 1, Len(din) - 1)) = Len(din) - 1 - 3
    <3>1. Len(din) - 1 \in 0 .. Len(din) /\ 3 =< Len(din) - 1
      BY <2>1
    <3> QED
      BY <2>1, <3>1, PartItems
  <2>3. Len(din) - 1 - 3 < Width
    BY <1>0, <2>1
  <2>4. head = 3
    BY <1>2
  <2> HIDE DEF head
  <2>5. SubSeq(din, head + 1, Len(din) - 1) \in Seq(Item) /\ Len(SubSeq(din, head + 1, Len(din) - 1)) < Width
    BY <2>2, <2>3, <2>4
  <2> QED
    BY <2>5 DEF head
<1> QED
  BY <1>1, <1>2

(* The console's steps. *)
LEMMA ReceiveTypes ==
  ASSUME Types, Receive
  PROVE  Types'
<1> USE DEF request, answer, history
<1>1. toDev \in Seq(Item) /\ din \in Seq(Item) /\ toDev # <<>>
  BY DEF Types, TypeOK, Receive
<1>2. Head(toDev) \in Item /\ Tail(toDev) \in Seq(Item)
  BY <1>1, HeadTailProperties
<1>3. din' \in Seq(Item) /\ toDev' \in Seq(Item)
  BY <1>1, <1>2, AppendProperties DEF Receive
<1>4. UNCHANGED <<hpc, op, path, path2, file, requests, listing, need, local, ret, interrupt, fresh, failed, cut, fs0>>
  BY DEF Receive
<1>5. UNCHANGED <<fromDev, dpc, dpath, dlist, dout, fs, sd>>
  BY DEF Receive
<1>6. FsSound(fs')
  BY <1>5 DEF Types
<1> QED
  BY <1>3, <1>4, <1>5, <1>6, ConsoleTypes DEF Types, TypeOK

(* A request is executed. *)
LEMMA ExecuteTypes ==
  ASSUME Types, Execute
  PROVE  Types'
<1> USE DEF request, answer, history, link
<1>0. UNCHANGED <<hpc, op, path, path2, file, requests, listing, need, local, ret, interrupt, fresh, failed, cut, fs0>>
  BY DEF Execute
<1>1. UNCHANGED <<toDev, fromDev, sd>> /\ din' = <<>>
  BY DEF Execute
<1>2. <<>> \in Seq(Item) /\ TypeOK /\ FsSound(fs) /\ Paths \subseteq Item
  BY EmptySeq, ItemAssumption DEF Types
<1> DEFINE c == din[2]
           p == din[3]
           q == din[Len(din)]
<1>3. CASE /\ {p, q} \subseteq Paths
           /\ fs' = Apply(c, p, q, fs)
           /\ dpc' = CASE c = Code.upload -> "upload"
                       [] c = Code.list /\ Entries(fs) # {} -> "list"
                       [] OTHER -> "request"
           /\ dpath' = p
           /\ dlist' = IF c = Code.list THEN Entries(fs) ELSE {}
           /\ dout' = IF dpc' = "list" THEN << >> ELSE Payload(c, p)
  <2> HIDE DEF c, p, q
  <2>1. FsSound(fs')
    BY <1>2, <1>3, ApplySound
  <2>2. dout' \in Seq(Item)
    BY <1>2, <1>3, PayloadType
  <2>3. dpc' \in {"request", "upload", "list"}
    BY <1>3 DEF Code
  <2>4. dpath' \in Item /\ dlist' \subseteq Paths
    BY <1>2, <1>3 DEF Entries
  <2> QED
    BY <1>0, <1>1, <1>2, <2>1, <2>2, <2>3, <2>4, ConsoleTypes DEF TypeOK
<1>4. CASE /\ \E s \in {Status.ERR, Status.UNSUPPORTED, Status.BAD_REQUEST} :
                   dout' = <<MAGIC, s, 0>>
           /\ UNCHANGED <<dpc, dpath, dlist, fs>>
  <2>1. PICK s \in {Status.ERR, Status.UNSUPPORTED, Status.BAD_REQUEST} : dout' = <<MAGIC, s, 0>>
    BY <1>4
  <2>2. dout' \in Seq(Item)
    <3>1. MAGIC \in Item /\ s \in Item /\ 0 \in Item
      BY <2>1, ItemFacts
    <3> QED
      BY <2>1, <3>1
  <2>3. FsSound(fs')
    BY <1>2, <1>4
  <2> QED
    BY <1>0, <1>1, <1>2, <1>4, <2>2, <2>3, ConsoleTypes DEF TypeOK
<1> QED
  BY <1>3, <1>4 DEF Execute

(* Answers and listings are sent. *)
LEMMA SendTypes ==
  ASSUME Types, SendListing \/ Send
  PROVE  Types'
<1> USE DEF request, answer, history, link
<1>0. UNCHANGED <<hpc, op, path, path2, file, requests, listing, need, local, ret, interrupt, fresh, failed, cut, fs0>>
  BY DEF SendListing, Send
<1>1. UNCHANGED <<toDev, din, dpath, fs, sd>>
  BY DEF SendListing, Send
<1>2. {MAGIC, Status.OK, 0, 1} \subseteq Item /\ <<>> \in Seq(Item) /\ TypeOK /\ FsSound(fs) /\ Paths \subseteq Item
  BY ItemFacts, EmptySeq, ItemAssumption DEF Types
<1>3. CASE SendListing
  <2>1. dout' \in Seq(Item) /\ dlist' \subseteq dlist /\ dpc' \in {dpc, "request"} /\ fromDev' = fromDev
    <3>1. <<MAGIC, Status.OK, 0>> \in Seq(Item) /\ \A p \in Paths : <<MAGIC, Status.OK, 1, p>> \in Seq(Item)
      BY <1>2
    <3>2. \A p \in dlist : p \in Paths
      BY <1>2 DEF TypeOK
    <3> QED
      BY <1>2, <1>3, <3>1, <3>2 DEF SendListing
  <2> QED
    BY <1>0, <1>1, <1>2, <2>1, ConsoleTypes DEF TypeOK
<1>4. CASE Send
  <2>1. Append(fromDev, Head(dout)) \in Seq(Item) /\ Tail(dout) \in Seq(Item)
    BY <1>2, <1>4, MoveItem DEF Send, TypeOK
  <2>2. fromDev' \in Seq(Item) /\ dout' \in Seq(Item) /\ UNCHANGED <<dpc, dlist>>
    BY <1>4, <2>1 DEF Send
  <2> QED
    BY <1>0, <1>1, <1>2, <2>2, ConsoleTypes DEF TypeOK
<1> QED
  BY <1>3, <1>4

(* An upload is stored. *)
LEMMA StoreTypes ==
  ASSUME Types, StoreUpload
  PROVE  Types'
<1> USE DEF request, answer, history, link
<1>0. UNCHANGED <<hpc, op, path, path2, file, requests, listing, need, local, ret, interrupt, fresh, failed, cut, fs0>>
  BY DEF StoreUpload
<1>1. UNCHANGED <<toDev, fromDev, dpath, dlist>> /\ din' = <<>> /\ dpc' = "request"
  BY DEF StoreUpload
<1>2. <<>> \in Seq(Item) /\ TypeOK /\ FsSound(fs) /\ {0, 1} \subseteq Item
  BY EmptySeq, ItemFacts DEF Types
<1> DEFINE data == SubSeq(din, (IF dpc = "upload" THEN 1 ELSE 3) + 1, Len(din) - 1)
<1>3. data \in Seq(Item) /\ Len(data) < Width
  BY <1>2, StoredFacts DEF StoreUpload
<1>4. /\ dout' \in {<<0>>, <<1>>}
      /\ \/ fs' = [fs EXCEPT ![dpath] = File(data)] /\ sd' = sd
         \/ fs' = fs /\ (sd' = sd \/ sd' = [sd EXCEPT ![din[2]] = data])
  BY DEF StoreUpload
<1> HIDE DEF data
<1>5. FsSound(fs')
  <2>1. File(data) \in [kind : {"none", "dir", "file"}, data : Seq(Item)] /\ Len(File(data).data) < Width
    BY <1>3, EntryTypes
  <2>2. FsSound([fs EXCEPT ![dpath] = File(data)])
    BY <1>2, <2>1, ReplaceSound
  <2> QED
    BY <1>2, <1>4, <2>2
<1>6. sd' \in [Sectors -> Seq(Item)]
  BY <1>2, <1>3, <1>4 DEF TypeOK
<1>7. dout' \in Seq(Item)
  <2>1. <<0>> \in Seq(Item) /\ <<1>> \in Seq(Item)
    BY <1>2
  <2> QED
    BY <1>4, <2>1
<1> QED
  BY <1>0, <1>1, <1>2, <1>5, <1>6, <1>7, ConsoleTypes DEF TypeOK

(* Types is an invariant on its own. *)
LEMMA TypesNext == Types /\ [Next]_vars => Types'
<1> SUFFICES ASSUME Types, [Next]_vars PROVE Types'
  OBVIOUS
<1>1. CASE \E purge \in BOOLEAN : Begin(purge)
  BY <1>1, BeginTypes
<1>2. CASE HostStep
  <2>1. CASE ReadTimeout \/ ReadFails
    BY <2>1, GivesUp, GiveUpTypes
  <2> QED
    BY <1>2, <2>1, WriteTypes, ReplyTypes, ReadTypes, InterruptTypes DEF HostStep
<1>3. CASE Signal
  BY <1>3, InterruptTypes
<1>4. CASE ConsoleStep
  BY <1>4, ReceiveTypes, ExecuteTypes, SendTypes, StoreTypes DEF ConsoleStep
<1>5. CASE UNCHANGED vars
  <2>1. /\ UNCHANGED <<hpc, op, path, path2, file, requests, listing, need, local, ret, interrupt,
                       fresh, failed, cut, fs0>>
        /\ UNCHANGED <<toDev, fromDev, dpc, din, dpath, dlist, dout, fs, sd>>
    BY <1>5 DEF vars, request, answer, link, console, history
  <2> QED
    BY <2>1, ConsoleTypes DEF Types, TypeOK
<1> QED
  BY <1>1, <1>2, <1>3, <1>4, <1>5 DEF Next

-----------------------------------------------------------------------------
(* The items of the request in progress *)

(* The two ways of the link, item by item. *)
LEMMA LinkFacts ==
  ASSUME TypeOK
  PROVE  /\ Given \in Seq(Item) /\ Unread \in Seq(Item)
         /\ Len(din) \in Nat /\ Len(toDev) \in Nat /\ Len(fromDev) \in Nat /\ Len(dout) \in Nat
         /\ Len(Given) = Len(din) + Len(toDev) /\ Len(Unread) = Len(fromDev) + Len(dout)
         /\ \A i \in 1 .. Len(din) : Given[i] = din[i]
         /\ \A i \in 1 .. Len(fromDev) : Unread[i] = fromDev[i]
         /\ \A i \in 1 .. Len(dout) : Unread[Len(fromDev) + i] = dout[i]
         /\ (Given = <<>>) = (din = <<>> /\ toDev = <<>>)
         /\ (Unread = <<>>) = (fromDev = <<>> /\ dout = <<>>)
<1>1. din \in Seq(Item) /\ toDev \in Seq(Item) /\ fromDev \in Seq(Item) /\ dout \in Seq(Item)
  BY DEF TypeOK
<1>2. /\ Given \in Seq(Item) /\ Len(din) \in Nat /\ Len(toDev) \in Nat /\ Len(Given) = Len(din) + Len(toDev)
      /\ \A i \in 1 .. Len(din) : Given[i] = din[i]
  BY <1>1, ConcatItems DEF Given
<1>3. /\ Unread \in Seq(Item) /\ Len(fromDev) \in Nat /\ Len(dout) \in Nat
      /\ Len(Unread) = Len(fromDev) + Len(dout)
      /\ \A i \in 1 .. Len(fromDev) : Unread[i] = fromDev[i]
      /\ \A i \in 1 .. Len(dout) : Unread[Len(fromDev) + i] = dout[i]
  BY <1>1, ConcatItems DEF Unread
<1>4. \A s \in Seq(Item) : (s = <<>>) = (Len(s) = 0)
  BY EmptySeq
<1>5. (Given = <<>>) = (din = <<>> /\ toDev = <<>>)
  <2>1. (Len(Given) = 0) = (Len(din) = 0 /\ Len(toDev) = 0)
    BY <1>2
  <2> QED
    BY <1>1, <1>2, <1>4, <2>1
<1>6. (Unread = <<>>) = (fromDev = <<>> /\ dout = <<>>)
  <2>1. (Len(Unread) = 0) = (Len(fromDev) = 0 /\ Len(dout) = 0)
    BY <1>3
  <2> QED
    BY <1>1, <1>3, <1>4, <2>1
<1> QED
  BY <1>2, <1>3, <1>5, <1>6

(* What the request asks does not change with the step. *)
LEMMA SameRequest ==
  ASSUME UNCHANGED <<op, path, path2, file, fs0>>
  PROVE  /\ Request' = Request /\ Body' = Body /\ Can' = Can /\ After' = After /\ Data' = Data
  BY DEF Request, SendRemoteIoCommand, SendRemoteIoRenameCommand, RawUpload, Body, Can, After, Data

(* A step that leaves what host and console know, and what is on the way in each direction. *)
LEMMA SameTrack ==
  ASSUME Track, UNCHANGED <<hpc, op, path, path2, file, listing, need, local, ret, failed>>,
         UNCHANGED <<dpc, dpath, dlist, fs, sd, fs0>>, Given' = Given, Unread' = Unread
  PROVE  Track'
<1>1. Request' = Request /\ Body' = Body /\ Can' = Can /\ After' = After /\ Data' = Data
  BY SameRequest
<1>2. Asking => Asking'
  BY <1>1 DEF Asking, IsPart
<1>3. Uploading => Uploading'
  BY <1>1 DEF Uploading, IsPart
<1>4. Over => Over'
  <2>1. \A n : Packets(n) => Packets(n)'
    BY DEF Packets, Entries
  <2>2. Answering => Answering'
    BY <1>1, <2>1 DEF Answering
  <2>3. Refusing' = Refusing
    BY DEF Refusing
  <2>4. Effect' = Effect
    BY DEF Effect, Entries
  <2> QED
    BY <1>1, <2>2, <2>3, <2>4 DEF Over
<1> QED
  BY <1>2, <1>3, <1>4 DEF Track

(* A step in which the host gives up what it is doing. *)
LEMMA FailedTrack ==
  ASSUME Track, failed' = TRUE, UNCHANGED <<op, path, path2, file, dpc, dpath, fs, fs0>>,
         Given' = Given, Asking => Unread' = <<>>
  PROVE  Track'
<1>1. Request' = Request /\ Body' = Body /\ Can' = Can /\ After' = After
  BY SameRequest
<1>2. Asking => Asking'
  BY <1>1 DEF Asking, IsPart
<1>3. Uploading => Uploading'
  BY <1>1 DEF Uploading, IsPart
<1>4. Over => Over'
  BY <1>1 DEF Over
<1> QED
  BY <1>2, <1>3, <1>4 DEF Track

(* A request that finds the console ready and the link empty. *)
LEMMA BeginTrack ==
  ASSUME Types, NEW purge \in BOOLEAN, Begin(purge), fresh'
  PROVE  Track'
<1>1. /\ dpc = "request" /\ din = <<>> /\ dout = <<>> /\ toDev' = <<>> /\ fromDev' = <<>>
      /\ UNCHANGED <<dpc, din, dout, fs>> /\ fs0' = fs /\ hpc' = "request"
  BY DEF Begin, console
<1>2. Given' = <<>> /\ Unread' = <<>>
  BY <1>1 DEF Given, Unread
<1> QED
  BY <1>1, <1>2 DEF Track, Asking, IsPart

(* The writes of the host. *)
LEMMA WriteTrack ==
  ASSUME Types, Track, WriteAllToDevice \/ WriteFails
  PROVE  Track'
<1> USE DEF request, answer, console, history
<1>0. TypeOK /\ ~failed /\ hpc \in {"request", "body"} /\ (hpc = "body" => op = "upload")
  BY DEF Types, Phases, WriteAllToDevice, WriteFails
<1>1. Outgoing \in Seq(Item) /\ Outgoing = (IF hpc = "request" THEN Request ELSE Body) /\ Len(Outgoing) \in Nat
  BY <1>0, OutgoingType, LenProperties
<1>2. /\ hpc = "request" => Asking /\ Given = <<>>
      /\ hpc = "body" => Uploading /\ Given = <<>> /\ Unread = <<>>
  BY <1>0 DEF Track, Asking, Uploading, Over, Answering, Refusing
<1>3. din = <<>> /\ toDev = <<>>
  BY <1>0, <1>2, LinkFacts
<1>4. UNCHANGED <<op, path, path2, file, fs0, din, dpc, dpath, fs, fromDev, dout>>
  BY DEF WriteAllToDevice, WriteFails
<1>5. Request' = Request /\ Body' = Body /\ Can' = Can /\ Unread' = Unread
  BY <1>4, SameRequest DEF Unread
<1>6. CASE WriteAllToDevice
  <2>1. Given' = Outgoing
    BY <1>1, <1>3, <1>4, <1>6 DEF WriteAllToDevice, Given
  <2>2. hpc' = AfterWrite /\ failed' = failed
    BY <1>6 DEF WriteAllToDevice
  <2>3. IsPart(Outgoing, Outgoing)
    BY <1>1, PartItems, SameItems DEF IsPart
  <2>4. CASE hpc = "request"
    BY <1>0, <1>1, <1>2, <1>4, <1>5, <2>1, <2>2, <2>3, <2>4 DEF Track, Asking, AfterWrite
  <2>5. CASE hpc = "body"
    BY <1>0, <1>1, <1>2, <1>4, <1>5, <2>1, <2>2, <2>3, <2>5 DEF Track, Uploading, AfterWrite
  <2> QED
    BY <1>0, <2>4, <2>5
<1>7. CASE WriteFails
  <2>1. PICK k \in 0 .. Len(Outgoing) : toDev' = toDev \o SubSeq(Outgoing, 1, k)
    BY <1>7 DEF WriteFails
  <2>2. SubSeq(Outgoing, 0 + 1, k) \in Seq(Item) /\ Len(SubSeq(Outgoing, 0 + 1, k)) = k - 0
    BY <1>1, PartItems
  <2>3. Given' = SubSeq(Outgoing, 1, k)
    BY <1>3, <1>4, <2>1, <2>2 DEF Given
  <2>4. IsPart(SubSeq(Outgoing, 1, k), Outgoing)
    BY <1>1, <2>2 DEF IsPart
  <2>5. failed' = TRUE
    BY <1>7 DEF WriteFails
  <2>6. CASE hpc = "request"
    BY <1>0, <1>1, <1>2, <1>4, <1>5, <2>3, <2>4, <2>5, <2>6 DEF Track, Asking
  <2>7. CASE hpc = "body"
    BY <1>0, <1>1, <1>2, <1>4, <1>5, <2>3, <2>4, <2>5, <2>7 DEF Track, Uploading
  <2> QED
    BY <1>0, <2>6, <2>7
<1> QED
  BY <1>6, <1>7

(* A read takes its items from the front of the answer. *)
LEMMA ReadFront ==
  ASSUME TypeOK, NEW k \in 0 .. Len(fromDev), fromDev' = SubSeq(fromDev, k + 1, Len(fromDev)), dout' = dout
  PROVE  /\ Unread' \in Seq(Item) /\ Len(Unread') \in Nat /\ Len(Unread') = Len(Unread) - k
         /\ \A i \in 1 .. (Len(Unread) - k) : Unread'[i] = Unread[k + i]
         /\ Len(Unread) = k => Unread' = <<>>
<1>1. fromDev \in Seq(Item) /\ dout \in Seq(Item)
  BY DEF TypeOK
<1>2. /\ SubSeq(fromDev, k + 1, Len(fromDev)) \o dout \in Seq(Item)
      /\ Len(SubSeq(fromDev, k + 1, Len(fromDev)) \o dout) = Len(Unread) - k
      /\ \A i \in 1 .. (Len(Unread) - k) : (SubSeq(fromDev, k + 1, Len(fromDev)) \o dout)[i] = Unread[k + i]
  BY <1>1, TakeItems DEF Unread
<1>3. Unread' = SubSeq(fromDev, k + 1, Len(fromDev)) \o dout
  BY DEF Unread
<1>4. Unread' \in Seq(Item) /\ Len(Unread') \in Nat /\ Len(Unread') = Len(Unread) - k
  BY <1>2, <1>3, LenProperties
<1>5. Len(Unread) \in Nat
  BY LinkFacts, LenProperties
<1>6. Len(Unread) = k => Len(Unread') = 0
  BY <1>4, <1>5
<1>7. Len(Unread) = k => Unread' = <<>>
  BY <1>4, <1>6, EmptySeq
<1> QED
  BY <1>2, <1>3, <1>4, <1>7

(* What the host reads as a reply is the front of the answer. *)
LEMMA ReadHeader ==
  ASSUME TypeOK, ReadReply
  PROVE  /\ fromDev[1] = Unread[1] /\ fromDev[2] = Unread[2] /\ fromDev[3] = Unread[3]
         /\ Len(fromDev) \in Nat /\ Len(fromDev) >= 3
         /\ Len(Unread) \in Nat /\ Len(Unread) >= 3
         /\ Unread[1] = MAGIC =>
              /\ Unread[3] \in Nat /\ 3 + Unread[3] \in 0 .. Len(fromDev)
              /\ Len(Unread') = Len(Unread) - (3 + Unread[3]) /\ Unread' \in Seq(Item)
              /\ \A i \in 1 .. (Len(Unread) - (3 + Unread[3])) : Unread'[i] = Unread[3 + Unread[3] + i]
              /\ Len(Unread) = 3 + Unread[3] => Unread' = <<>>
<1>1. Len(fromDev) >= 3 /\ hpc \in {"reply", "next"} /\ Len(fromDev) >= Wanted
      /\ fromDev' = SubSeq(fromDev, Wanted + 1, Len(fromDev)) /\ dout' = dout
  BY DEF ReadReply, Read, console
<1>2. /\ Len(fromDev) \in Nat /\ Len(dout) \in Nat /\ Len(Unread) = Len(fromDev) + Len(dout)
      /\ \A i \in 1 .. Len(fromDev) : Unread[i] = fromDev[i]
  BY LinkFacts
<1>3. fromDev[1] = Unread[1] /\ fromDev[2] = Unread[2] /\ fromDev[3] = Unread[3]
  <2>1. 1 \in 1 .. Len(fromDev) /\ 2 \in 1 .. Len(fromDev) /\ 3 \in 1 .. Len(fromDev)
    BY <1>1, <1>2
  <2> QED
    BY <1>2, <2>1
<1>4. ASSUME Unread[1] = MAGIC
      PROVE  /\ Unread[3] \in Nat /\ 3 + Unread[3] \in 0 .. Len(fromDev)
             /\ Len(Unread') = Len(Unread) - (3 + Unread[3]) /\ Unread' \in Seq(Item)
             /\ \A i \in 1 .. (Len(Unread) - (3 + Unread[3])) : Unread'[i] = Unread[3 + Unread[3] + i]
             /\ Len(Unread) = 3 + Unread[3] => Unread' = <<>>
  <2>1. Wanted = 3 + fromDev[3] /\ fromDev[3] \in Nat
    BY <1>1, <1>3, <1>4, ReplyFacts
  <2>2. PICK k : k = 3 + Unread[3]
    OBVIOUS
  <2>3. k \in 0 .. Len(fromDev) /\ fromDev' = SubSeq(fromDev, k + 1, Len(fromDev)) /\ Unread[3] \in Nat
    BY <1>1, <1>2, <1>3, <2>1, <2>2
  <2>4. /\ Unread' \in Seq(Item) /\ Len(Unread') = Len(Unread) - k
        /\ \A i \in 1 .. (Len(Unread) - k) : Unread'[i] = Unread[k + i]
        /\ Len(Unread) = k => Unread' = <<>>
    BY <1>1, <2>3, ReadFront
  <2> QED
    BY <2>2, <2>3, <2>4
<1> QED
  BY <1>1, <1>2, <1>3, <1>4

(* The reply to a request that changes the card, or to --crc. *)
LEMMA ReplyTrackCommand ==
  ASSUME Types, Track, ReadReply, op \notin {"list", "upload", "download"}
  PROVE  Track'
<1> USE DEF request, answer, console, history
<1>0. TypeOK /\ ~failed /\ hpc = "reply" /\ op # "raw" /\ op \in Ops
  BY DEF Types, TypeOK, Phases, ReadReply
<1>1. UNCHANGED <<op, path, path2, file, fs0, din, toDev, dpc, dpath, dlist, fs, dout, failed>>
  BY DEF ReadReply
<1>2. Given' = Given /\ Can' = Can /\ After' = After
  BY <1>1, SameRequest DEF Given
<1>3. Unread # <<>>
  BY <1>0, ReadHeader, EmptyItems
<1>4. Over
  BY <1>0, <1>3 DEF Track, Asking, Uploading
<1>5. CASE Refusing /\ fs = fs0 /\ dpc = "request"
  <2>1. hpc' = "ready" /\ ret' = 0
    BY <1>0, <1>5, ReadHeader DEF ReadReply, Finish, Refusing
  <2>2. Unread' = <<>>
    BY <1>0, <1>5, ReadHeader DEF Refusing
  <2> QED
    BY <1>0, <1>1, <1>2, <1>4, <1>5, <2>1, <2>2 DEF Track, Over
<1>6. CASE Can /\ fs = After /\ Answering
  <2>1. Unread[1] = MAGIC /\ Unread[2] = Status.OK /\ Len(Unread) = 3 + Unread[3]
    BY <1>0, <1>6 DEF Answering
  <2>2. Unread' = <<>>
    BY <1>0, <2>1, ReadHeader
  <2>3. hpc' = "ready" /\ ret' = 1
    BY <1>0, <2>1, ReadHeader DEF ReadReply, Accepted, CommandAccepted, Finish
  <2>4. Effect'
    BY <1>0, <1>1, <1>6 DEF Effect, After
  <2>5. dpc = "request"
    BY <1>4 DEF Over
  <2> QED
    BY <1>0, <1>1, <1>2, <1>4, <1>6, <2>2, <2>3, <2>4, <2>5 DEF Track, Over
<1> QED
  BY <1>0, <1>3, <1>4, <1>5, <1>6 DEF Over

(* The answer to an upload. *)
LEMMA ReplyTrackUpload ==
  ASSUME Types, Track, ReadReply, op = "upload"
  PROVE  Track'
<1> USE DEF request, answer, console, history
<1>0. TypeOK /\ ~failed /\ hpc = "reply"
  BY DEF Types, Phases, ReadReply
<1>1. UNCHANGED <<op, path, path2, file, fs0, din, toDev, dpc, dpath, dlist, fs, dout, failed>>
  BY DEF ReadReply
<1>2. Given' = Given /\ Can' = Can /\ After' = After /\ Body' = Body
  BY <1>1, SameRequest DEF Given
<1>3. Unread # <<>>
  BY <1>0, ReadHeader, EmptyItems
<1>4. \/ Uploading /\ Given = <<>> /\ Unread = <<MAGIC, Status.OK, 0>>
      \/ Over /\ Refusing /\ fs = fs0 /\ dpc = "request"
  BY <1>0, <1>3 DEF Track, Asking, Uploading, Over, Answering
<1>5. CASE Refusing /\ fs = fs0 /\ dpc = "request" /\ Over
  <2>1. hpc' = "ready" /\ ret' = 0
    BY <1>0, <1>5, ReadHeader DEF ReadReply, Finish, Refusing
  <2>2. Unread' = <<>>
    BY <1>0, <1>5, ReadHeader DEF Refusing
  <2> QED
    BY <1>0, <1>1, <1>2, <1>5, <2>1, <2>2 DEF Track, Over
<1>6. CASE Uploading /\ Given = <<>> /\ Unread = <<MAGIC, Status.OK, 0>>
  <2>1. Len(Unread) = 3 /\ Unread[1] = MAGIC /\ Unread[2] = Status.OK /\ Unread[3] = 0
    BY <1>6
  <2>2. Unread' = <<>>
    BY <1>0, <2>1, ReadHeader
  <2>3. hpc' = "body"
    BY <1>0, <2>1, ReadHeader DEF ReadReply, Accepted, UploadAccepted
  <2> QED
    BY <1>0, <1>1, <1>2, <1>6, <2>2, <2>3 DEF Track, Uploading, IsPart
<1> QED
  BY <1>4, <1>5, <1>6

(* What the file that is downloaded holds. *)
LEMMA DataFacts ==
  ASSUME Types, op = "download", requests > 0
  PROVE  /\ path \in Paths /\ Data \in Seq(Item) /\ Len(Data) \in Nat /\ Len(Data) \in Item
         /\ Append(Data, Checksum(Data)) \in Seq(Item)
         /\ Len(Append(Data, Checksum(Data))) = Len(Data) + 1
         /\ \A i \in 1 .. Len(Data) : Append(Data, Checksum(Data))[i] = Data[i]
         /\ Append(Data, Checksum(Data))[Len(Data) + 1] = Checksum(Data)
         /\ Can => fs0[path] = File(Data)
<1>1. path \in Paths /\ FsSound(fs0)
  BY DEF Types, Arguments
<1>2. Data \in Seq(Item) /\ Len(Data) < Width /\ fs0[path] \in [kind : {"none", "dir", "file"}, data : Seq(Item)]
  BY <1>1 DEF Data, FsSound, FsType
<1>3. Len(Data) \in Nat /\ Len(Data) \in Item /\ Checksum(Data) \in Item
  BY <1>2, ItemFacts, ChecksumType, LenProperties
<1>4. Can => fs0[path].kind = "file"
  BY DEF Can, Possible, Code
<1>5. Can => fs0[path] = File(Data)
  BY <1>2, <1>4 DEF File, Data
<1> QED
  BY <1>1, <1>2, <1>3, <1>5, AppendProperties

(* The answer to a download. *)
LEMMA ReplyTrackDownload ==
  ASSUME Types, Track, ReadReply, op = "download"
  PROVE  Track'
<1> USE DEF request, answer, console, history
<1>0. TypeOK /\ ~failed /\ hpc = "reply" /\ requests > 0 /\ local = <<>>
  BY DEF Types, Phases, ReadReply
<1>1. UNCHANGED <<op, path, path2, file, fs0, din, toDev, dpc, dpath, dlist, fs, dout, failed>>
  BY DEF ReadReply
<1>2. Given' = Given /\ Can' = Can /\ After' = After /\ Data' = Data
  BY <1>1, SameRequest DEF Given
<1>3. Unread # <<>>
  BY <1>0, ReadHeader, EmptyItems
<1>4. /\ Over
      /\ \/ Refusing /\ fs = fs0 /\ dpc = "request"
         \/ Can /\ fs = After /\ Unread = <<MAGIC, Status.OK, 1, Len(Data)>> \o Append(Data, Checksum(Data))
  BY <1>0, <1>3 DEF Track, Asking, Uploading, Over, Answering
<1>5. CASE Refusing /\ fs = fs0 /\ dpc = "request" /\ Over
  <2>1. hpc' = "ready" /\ ret' = 0
    BY <1>0, <1>5, ReadHeader DEF ReadReply, Finish, Refusing
  <2>2. Unread' = <<>>
    BY <1>0, <1>5, ReadHeader DEF Refusing
  <2> QED
    BY <1>0, <1>1, <1>2, <1>5, <2>1, <2>2 DEF Track, Over
<1>6. CASE Can /\ fs = After /\ Unread = <<MAGIC, Status.OK, 1, Len(Data)>> \o Append(Data, Checksum(Data))
  <2>1. PICK h : h = <<MAGIC, Status.OK, 1, Len(Data)>>
    OBVIOUS
  <2>2. PICK a : a = Append(Data, Checksum(Data))
    OBVIOUS
  <2>3. a \in Seq(Item) /\ Len(a) = Len(Data) + 1 /\ Len(Data) \in Nat /\ Len(Data) \in Item
    BY <1>0, <2>2, DataFacts
  <2>4. h \in Seq(Item) /\ Len(h) = 4 /\ h[1] = MAGIC /\ h[2] = Status.OK /\ h[3] = 1 /\ h[4] = Len(Data)
    <3>1. MAGIC \in Item /\ Status.OK \in Item /\ 1 \in Item
      BY ItemFacts
    <3> QED
      BY <2>1, <2>3, <3>1
  <2>5. /\ Len(Unread) = 4 + Len(a) /\ \A i \in 1 .. 4 : Unread[i] = h[i]
        /\ \A i \in 1 .. Len(a) : Unread[4 + i] = a[i]
    BY <1>6, <2>1, <2>2, <2>3, <2>4, ConcatItems
  <2>6. Unread[1] = MAGIC /\ Unread[2] = Status.OK /\ Unread[3] = 1 /\ Unread[4] = Len(Data)
    BY <2>4, <2>5
  <2>7. /\ 4 \in 0 .. Len(fromDev) /\ Unread' \in Seq(Item) /\ Len(Unread') = Len(Unread) - 4
        /\ \A i \in 1 .. (Len(Unread) - 4) : Unread'[i] = Unread[4 + i]
    <3>1. 3 + Unread[3] = 4
      BY <2>6
    <3> QED
      BY <1>0, <2>6, <3>1, ReadHeader
  <2>8. Unread' = a
    <3>1. Len(Unread') = Len(a) /\ Len(Unread) - 4 = Len(a)
      BY <2>3, <2>5, <2>7
    <3>2. \A i \in 1 .. Len(a) : Unread'[i] = a[i]
      BY <2>5, <2>7, <3>1
    <3> QED
      BY <2>3, <2>7, <3>1, <3>2, SameItems
  <2>9. hpc' = "data" /\ need' = Len(Data) /\ local' = local
    <3>1. fromDev[1] = MAGIC /\ fromDev[2] = Status.OK /\ fromDev[3] = 1 /\ Len(fromDev) >= 3 /\ Len(fromDev) \in Nat
      BY <1>0, <2>6, ReadHeader
    <3>2. Len(fromDev) >= Wanted
      BY DEF ReadReply, Read
    <3>3. PICK pay : pay = SubSeq(fromDev, 4, 3 + fromDev[3])
      OBVIOUS
    <3>4. pay \in Seq(Item) /\ Len(pay) = 1 /\ pay[1] = fromDev[3 + 1]
      BY <1>0, <3>1, <3>2, <3>3, ReplyFacts
    <3>5. fromDev[4] = Len(Data)
      BY <1>0, <2>6, <2>7, LinkFacts
    <3>6. DownloadAccepted(pay)
      BY <3>1, <3>3 DEF ReadReply, Accepted
    <3>7. pay # <<>>
      BY <3>4, EmptyItems
    <3> QED
      BY <3>4, <3>5, <3>6, <3>7 DEF DownloadAccepted
  <2>10. local' \o Unread' = a
    BY <1>0, <2>3, <2>8, <2>9
  <2>11. Answering'
    BY <1>1, <1>2, <2>2, <2>9, <2>10 DEF Answering
  <2> QED
    BY <1>0, <1>1, <1>2, <1>4, <1>6, <2>11 DEF Track, Over
<1> QED
  BY <1>4, <1>5, <1>6

(* Concatenation is associative. *)
LEMMA ConcatThree ==
  ASSUME NEW s \in Seq(Item), NEW t \in Seq(Item), NEW u \in Seq(Item)
  PROVE  (s \o t) \o u = s \o (t \o u)
  BY ConcatAssociative

(* Moving k items from the front of t to the end of s changes nothing in the two and what follows. *)
LEMMA MoveItems ==
  ASSUME NEW s \in Seq(Item), NEW t \in Seq(Item), NEW u \in Seq(Item), NEW k \in 0 .. Len(t)
  PROVE  (s \o SubSeq(t, 1, k)) \o (SubSeq(t, k + 1, Len(t)) \o u) = s \o (t \o u)
<1>1. Len(s) \in Nat /\ Len(t) \in Nat /\ Len(u) \in Nat /\ k \in Nat /\ k =< Len(t)
  BY LenProperties
<1>2. PICK a : a = SubSeq(t, 1, k)
  OBVIOUS
<1>3. PICK b : b = SubSeq(t, k + 1, Len(t))
  OBVIOUS
<1>4. a \in Seq(Item) /\ Len(a) = k /\ \A i \in 1 .. k : a[i] = t[i]
  <2>1. /\ SubSeq(t, 0 + 1, k) \in Seq(Item) /\ Len(SubSeq(t, 0 + 1, k)) = k - 0
        /\ \A i \in 1 .. (k - 0) : SubSeq(t, 0 + 1, k)[i] = t[0 + i]
    BY <1>1, PartItems
  <2> QED
    BY <1>1, <1>2, <2>1
<1>5. b \in Seq(Item)
  BY <1>1, <1>3, PartItems
<1>6. a \o b = t
  <2>1. /\ b \in Seq(Item) /\ Len(b) = Len(t) - k /\ \A i \in 1 .. (Len(t) - k) : b[i] = t[k + i]
    BY <1>1, <1>3, PartItems
  <2>2. /\ a \o b \in Seq(Item) /\ Len(a \o b) = k + (Len(t) - k)
        /\ \A i \in 1 .. k : (a \o b)[i] = a[i]
        /\ \A i \in 1 .. (Len(t) - k) : (a \o b)[k + i] = b[i]
    BY <1>4, <2>1, ConcatItems
  <2>3. ASSUME NEW i \in 1 .. Len(t) PROVE (a \o b)[i] = t[i]
    <3>1. CASE i =< k
      BY <1>1, <1>4, <2>2, <3>1
    <3>2. CASE i > k
      <4>1. PICK j : j = i - k
        OBVIOUS
      <4>2. j \in 1 .. (Len(t) - k) /\ i = k + j
        BY <1>1, <3>2, <4>1
      <4> QED
        BY <2>1, <2>2, <4>2
    <3>3. i =< k \/ i > k
      BY <1>1
    <3> QED
      BY <3>1, <3>2, <3>3
  <2>4. Len(a \o b) = Len(t)
    BY <1>1, <2>2
  <2> QED
    BY <2>2, <2>3, <2>4, SameItems
<1>7. (s \o a) \o (b \o u) = s \o (a \o (b \o u))
  <2>1. b \o u \in Seq(Item)
    BY <1>5, ConcatItems
  <2> QED
    BY <1>4, <2>1, ConcatThree
<1>8. a \o (b \o u) = (a \o b) \o u
  BY <1>4, <1>5, ConcatThree
<1> QED
  BY <1>2, <1>3, <1>6, <1>7, <1>8

(* A packet of a listing, or its end. *)
LEMMA ReplyTrackList ==
  ASSUME Types, Track, ReadReply, op = "list"
  PROVE  Track'
<1> USE DEF request, answer, console, history
<1>0. TypeOK /\ ~failed /\ hpc \in {"reply", "next"}
  BY DEF Types, Phases, ReadReply
<1>1. UNCHANGED <<op, path, path2, file, fs0, din, toDev, dpc, dpath, dlist, fs, dout, failed>>
  BY DEF ReadReply
<1>2. Given' = Given /\ Can' = Can /\ After' = After
  BY <1>1, SameRequest DEF Given
<1>3. Unread # <<>>
  BY <1>0, ReadHeader, EmptyItems
<1>4. /\ Over
      /\ \/ Refusing /\ fs = fs0 /\ dpc = "request"
         \/ Can /\ fs = After /\ \E n \in 0 .. Len(Unread) : Packets(n)
  BY <1>0, <1>3 DEF Track, Asking, Uploading, Over, Answering
<1>5. CASE Refusing /\ fs = fs0 /\ dpc = "request" /\ Over
  <2>1. hpc' = "ready" /\ ret' = 0
    BY <1>0, <1>5, ReadHeader DEF ReadReply, Finish, Refusing
  <2>2. Unread' = <<>>
    BY <1>0, <1>5, ReadHeader DEF Refusing
  <2> QED
    BY <1>0, <1>1, <1>2, <1>5, <2>1, <2>2 DEF Track, Over
<1>6. CASE Can /\ fs = After /\ \E n \in 0 .. Len(Unread) : Packets(n)
  <2>0. fs = fs0
    BY <1>6 DEF After, Apply, Code
  <2>1. PICK n \in 0 .. Len(Unread) : Packets(n)
    BY <1>6
  <2>2. Len(Unread) \in Nat /\ Len(Unread) >= 3 /\ n \in Nat /\ Len(fromDev) \in Nat
    BY <1>0, ReadHeader
  <2>3. CASE n = 0
    <3>1. /\ dpc = "request" /\ dlist = {} /\ Len(Unread) = 3
          /\ Unread[1] = MAGIC /\ Unread[2] = Status.OK /\ Unread[3] = 0
      BY <2>1, <2>2, <2>3 DEF Packets
    <3>2. listing = Entries(fs0)
      <4>1. 0 .. (n - 1) = {}
        BY <2>3
      <4>2. \A p \in Entries(fs0) : p \in listing
        BY <2>1, <3>1, <4>1 DEF Packets
      <4>3. listing \subseteq Entries(fs0)
        BY <2>1 DEF Packets
      <4> QED
        BY <4>2, <4>3
    <3>3. Unread' = <<>>
      BY <1>0, <3>1, ReadHeader
    <3>4. fromDev[1] = MAGIC /\ fromDev[2] = Status.OK /\ fromDev[3] = 0 /\ Len(fromDev) >= 3
      BY <1>0, <3>1, ReadHeader
    <3>5. PICK pay : pay = SubSeq(fromDev, 4, 3 + fromDev[3])
      OBVIOUS
    <3>6. pay = <<>>
      <4>1. Len(fromDev) >= Wanted
        BY DEF ReadReply, Read
      <4>2. pay \in Seq(Item) /\ Len(pay) = 0
        BY <1>0, <3>4, <3>5, <4>1, ReplyFacts
      <4> QED
        BY <4>2, EmptyItems
    <3>7. ListPacket(pay)
      BY <3>4, <3>5 DEF ReadReply, Accepted
    <3>8. hpc' = "ready" /\ ret' = 1 /\ listing' = listing
      <4>1. Len(pay) = 0
        BY <3>6, EmptyItems
      <4>2. 1 .. Len(pay) = {}
        BY <4>1
      <4> QED
        BY <3>6, <3>7, <4>2 DEF ListPacket, Finish
    <3>9. Effect'
      BY <1>1, <2>0, <3>2, <3>8 DEF Effect, Entries
    <3> QED
      BY <1>0, <1>1, <1>2, <1>4, <1>6, <3>1, <3>3, <3>8, <3>9 DEF Track, Over
  <2>4. CASE n > 0
    <3>1. Unread[1] = MAGIC /\ Unread[2] = Status.OK /\ Unread[3] = 1 /\ Unread[4] \in Entries(fs0)
      <4>1. 0 \in 0 .. (n - 1) /\ 4 * 0 + 1 = 1 /\ 4 * 0 + 2 = 2 /\ 4 * 0 + 3 = 3 /\ 4 * 0 + 4 = 4
        BY <2>2, <2>4
      <4>2. /\ Unread[4 * 0 + 1] = MAGIC /\ Unread[4 * 0 + 2] = Status.OK /\ Unread[4 * 0 + 3] = 1
            /\ Unread[4 * 0 + 4] \in Entries(fs0)
        BY <2>1, <4>1 DEF Packets
      <4> QED
        BY <4>1, <4>2
    <3>2. /\ 4 \in 0 .. Len(fromDev) /\ Unread' \in Seq(Item) /\ Len(Unread') = Len(Unread) - 4
          /\ \A i \in 1 .. (Len(Unread) - 4) : Unread'[i] = Unread[4 + i]
      <4>1. 3 + Unread[3] = 4
        BY <3>1
      <4> QED
        BY <1>0, <3>1, <4>1, ReadHeader
    <3>3. hpc' = "next" /\ listing' = listing \cup {Unread[4]}
      <4>1. fromDev[1] = MAGIC /\ fromDev[2] = Status.OK /\ fromDev[3] = 1 /\ Len(fromDev) >= 3
        BY <1>0, <3>1, ReadHeader
      <4>2. Len(fromDev) >= Wanted
        BY DEF ReadReply, Read
      <4>3. PICK pay : pay = SubSeq(fromDev, 4, 3 + fromDev[3])
        OBVIOUS
      <4>4. pay \in Seq(Item) /\ Len(pay) = 1 /\ pay[1] = fromDev[3 + 1]
        BY <1>0, <4>1, <4>2, <4>3, ReplyFacts
      <4>5. fromDev[4] = Unread[4]
        BY <1>0, <3>2, LinkFacts
      <4>6. ListPacket(pay)
        BY <4>1, <4>3 DEF ReadReply, Accepted
      <4>7. pay # <<>>
        <5>1. Len(pay) # 0
          BY <4>4
        <5>2. (pay = <<>>) = (Len(pay) = 0)
          BY <4>4, EmptyItems
        <5> QED
          BY <5>1, <5>2
      <4>8. {pay[i] : i \in 1 .. Len(pay)} = {Unread[4]}
        BY <4>4, <4>5
      <4> QED
        BY <4>6, <4>7, <4>8 DEF ListPacket
    <3>4. PICK m : m = n - 1
      OBVIOUS
    <3>5. m \in Nat /\ n = m + 1 /\ 4 * n = 4 * m + 4 /\ 4 * n =< Len(Unread)
      <4>1. Len(Unread) = 4 * n \/ Len(Unread) = 4 * n + 3
        BY <2>1 DEF Packets
      <4> QED
        BY <2>2, <2>4, <3>4, <4>1
    <3>6. \A i \in 0 .. (m - 1) :
            /\ i + 1 \in 0 .. (n - 1)
            /\ Unread'[4 * i + 1] = Unread[4 * (i + 1) + 1] /\ Unread'[4 * i + 2] = Unread[4 * (i + 1) + 2]
            /\ Unread'[4 * i + 3] = Unread[4 * (i + 1) + 3] /\ Unread'[4 * i + 4] = Unread[4 * (i + 1) + 4]
      <4> SUFFICES ASSUME NEW i \in 0 .. (m - 1)
                   PROVE  /\ i + 1 \in 0 .. (n - 1)
                          /\ Unread'[4 * i + 1] = Unread[4 * (i + 1) + 1] /\ Unread'[4 * i + 2] = Unread[4 * (i + 1) + 2]
                          /\ Unread'[4 * i + 3] = Unread[4 * (i + 1) + 3] /\ Unread'[4 * i + 4] = Unread[4 * (i + 1) + 4]
        OBVIOUS
      <4>1. i \in Nat /\ i < m
        BY <3>5
      <4>2. \A j \in 1 .. 4 : 4 * i + j \in 1 .. (Len(Unread) - 4) /\ 4 + (4 * i + j) = 4 * (i + 1) + j
        BY <2>2, <3>5, <4>1
      <4>3. \A j \in 1 .. 4 : Unread'[4 * i + j] = Unread[4 * (i + 1) + j]
        BY <3>2, <4>2
      <4>4. i + 1 \in 0 .. (n - 1)
        BY <3>5, <4>1
      <4> QED
        BY <4>3, <4>4
    <3>7. \A i \in 0 .. (m - 1) :
            /\ Unread'[4 * i + 1] = MAGIC /\ Unread'[4 * i + 2] = Status.OK /\ Unread'[4 * i + 3] = 1
            /\ Unread'[4 * i + 4] \in Entries(fs0)
      BY <2>1, <3>6 DEF Packets
    <3>8. \/ Len(Unread') = 4 * m /\ (dpc = "list" \/ dlist = {})
          \/ /\ dpc = "request" /\ dlist = {}
             /\ Len(Unread') = 4 * m + 3
             /\ Unread'[4 * m + 1] = MAGIC /\ Unread'[4 * m + 2] = Status.OK /\ Unread'[4 * m + 3] = 0
      <4>1. CASE Len(Unread) = 4 * n /\ (dpc = "list" \/ dlist = {})
        BY <3>2, <3>5, <4>1
      <4>2. CASE /\ dpc = "request" /\ dlist = {} /\ Len(Unread) = 4 * n + 3
                 /\ Unread[4 * n + 1] = MAGIC /\ Unread[4 * n + 2] = Status.OK /\ Unread[4 * n + 3] = 0
        <5>1. \A j \in 1 .. 3 : 4 * m + j \in 1 .. (Len(Unread) - 4) /\ 4 + (4 * m + j) = 4 * n + j
          BY <2>2, <3>5, <4>2
        <5>2. \A j \in 1 .. 3 : Unread'[4 * m + j] = Unread[4 * n + j]
          BY <3>2, <5>1
        <5>3. Len(Unread') = 4 * m + 3
          BY <2>2, <3>2, <3>5, <4>2
        <5> QED
          BY <4>2, <5>2, <5>3
      <4> QED
        BY <2>1, <4>1, <4>2 DEF Packets
    <3>9. listing' \subseteq Entries(fs0) /\ dlist \subseteq Entries(fs0)
      BY <2>1, <3>1, <3>3 DEF Packets
    <3>10. ASSUME NEW p \in Entries(fs0)
           PROVE  p \in listing' \/ p \in dlist \/ \E i \in 0 .. (m - 1) : Unread'[4 * i + 4] = p
      <4>1. p \in listing \/ p \in dlist \/ \E i \in 0 .. (n - 1) : Unread[4 * i + 4] = p
        BY <2>1 DEF Packets
      <4>2. ASSUME NEW i \in 0 .. (n - 1), Unread[4 * i + 4] = p
            PROVE  p \in listing' \/ \E j \in 0 .. (m - 1) : Unread'[4 * j + 4] = p
        <5>1. CASE i = 0
          BY <3>3, <4>2, <5>1
        <5>2. CASE i > 0
          <6>1. PICK j : j = i - 1
            OBVIOUS
          <6>2. j \in 0 .. (m - 1) /\ i = j + 1
            BY <2>2, <3>5, <5>2, <6>1
          <6> QED
            BY <3>6, <4>2, <6>2
        <5> QED
          BY <2>2, <5>1, <5>2
      <4> QED
        BY <3>3, <4>1, <4>2
    <3>11. Packets(m)'
      BY <1>1, <3>7, <3>8, <3>9, <3>10 DEF Packets, Entries
    <3>12. m \in 0 .. Len(Unread')
      BY <2>2, <3>2, <3>5
    <3>13. Answering'
      BY <1>1, <3>3, <3>11, <3>12 DEF Answering
    <3> QED
      BY <1>0, <1>1, <1>2, <1>4, <1>6, <3>13 DEF Track, Over
  <2> QED
    BY <2>2, <2>3, <2>4
<1> QED
  BY <1>4, <1>5, <1>6

(* The data of a download. *)
LEMMA DataTrack ==
  ASSUME Types, Track, ReadData
  PROVE  Track'
<1> USE DEF request, console, history
<1>0. TypeOK /\ ~failed /\ hpc = "data" /\ op = "download" /\ Len(local) < need
  BY DEF Types, Phases, ReadData
<1>1. UNCHANGED <<hpc, op, path, path2, file, fs0, din, toDev, dpc, dpath, dlist, fs, dout, failed, need>>
  BY DEF ReadData
<1>2. Given' = Given /\ Can' = Can /\ After' = After /\ Data' = Data
  BY <1>1, SameRequest DEF Given
<1>3. Over /\ Can /\ fs = After /\ need = Len(Data) /\ local \o Unread = Append(Data, Checksum(Data))
  BY <1>0 DEF Track, Asking, Uploading, Over, Answering, Refusing
<1>4. local' \o Unread' = local \o Unread
  <2>1. PICK k : k = Wanted
    OBVIOUS
  <2>2. /\ k \in 0 .. Len(fromDev) /\ fromDev \in Seq(Item) /\ dout \in Seq(Item) /\ local \in Seq(Item)
    BY <1>0, <2>1, WantedType, LenProperties DEF ReadData, Read, TypeOK
  <2>3. fromDev' = SubSeq(fromDev, k + 1, Len(fromDev)) /\ local' = local \o SubSeq(fromDev, 1, k)
    BY <2>1 DEF ReadData, Read
  <2> QED
    BY <1>1, <2>2, <2>3, MoveItems DEF Unread
<1>5. Answering'
  BY <1>0, <1>1, <1>2, <1>3, <1>4 DEF Answering
<1> QED
  BY <1>0, <1>1, <1>2, <1>3, <1>5 DEF Track, Over

(* The checksum of a download. *)
LEMMA ChecksumTrack ==
  ASSUME Types, Track, ReadChecksum
  PROVE  Track'
<1> USE DEF request, answer, console, history
<1>0. TypeOK /\ ~failed /\ hpc = "data" /\ op = "download" /\ Len(local) = need /\ requests > 0
      /\ local \in Seq(Item) /\ Len(local) \in Nat
  BY LenProperties DEF Types, TypeOK, Phases, ReadChecksum
<1>1. UNCHANGED <<op, path, path2, file, fs0, din, toDev, dpc, dpath, dlist, fs, dout, failed, local>>
  BY DEF ReadChecksum
<1>2. Given' = Given /\ Can' = Can /\ After' = After
  BY <1>1, SameRequest DEF Given
<1>3. Over /\ Can /\ fs = After /\ need = Len(Data) /\ local \o Unread = Append(Data, Checksum(Data))
  BY <1>0 DEF Track, Asking, Uploading, Over, Answering, Refusing
<1>4. PICK a : a = Append(Data, Checksum(Data))
  OBVIOUS
<1>5. /\ Len(a) = Len(Data) + 1 /\ Len(Data) \in Nat /\ Data \in Seq(Item)
      /\ \A i \in 1 .. Len(Data) : a[i] = Data[i]
      /\ a[Len(Data) + 1] = Checksum(Data) /\ fs0[path] = File(Data)
  BY <1>0, <1>3, <1>4, DataFacts
<1>6. /\ Unread \in Seq(Item) /\ Len(Unread) \in Nat /\ Len(a) = Len(local) + Len(Unread)
      /\ \A i \in 1 .. Len(local) : a[i] = local[i]
      /\ \A i \in 1 .. Len(Unread) : a[Len(local) + i] = Unread[i]
  <2>1. Unread \in Seq(Item)
    BY <1>0, LinkFacts
  <2>2. PICK u \in Seq(Item) : u = Unread
    BY <2>1
  <2>3. a = local \o u
    BY <1>3, <1>4, <2>2
  <2>4. /\ Len(local \o u) = Len(local) + Len(u) /\ Len(u) \in Nat
        /\ \A i \in 1 .. Len(local) : (local \o u)[i] = local[i]
        /\ \A i \in 1 .. Len(u) : (local \o u)[Len(local) + i] = u[i]
    BY <1>0, <2>2, ConcatItems
  <2> QED
    BY <2>2, <2>3, <2>4
<1>a. Len(local) = Len(Data)
  BY <1>0, <1>3
<1>7. Len(Unread) = 1
  <2>1. Len(local) + Len(Unread) = Len(local) + 1
    BY <1>5, <1>6, <1>a
  <2>2. PICK m \in Nat, n \in Nat : m = Len(local) /\ n = Len(Unread)
    BY <1>0, <1>6
  <2>3. m + n = m + 1
    BY <2>1, <2>2
  <2>4. n = 1
    BY <2>3
  <2> QED
    BY <2>2, <2>4
<1>8. local = Data
  <2>1. \A i \in 1 .. Len(local) : local[i] = Data[i]
    BY <1>5, <1>6, <1>a
  <2> QED
    BY <1>0, <1>5, <1>a, <2>1, SameItems
<1>9. Unread[1] = Checksum(Data)
  <2>1. 1 \in 1 .. Len(Unread)
    BY <1>7
  <2>2. a[Len(local) + 1] = Unread[1]
    BY <1>6, <2>1
  <2> QED
    BY <1>5, <1>a, <2>2
<1>10. 1 \in 0 .. Len(fromDev) /\ fromDev[1] = Unread[1]
  BY <1>0, LinkFacts DEF ReadChecksum, Read
<1>11. Unread' = <<>>
  <2>1. fromDev' = SubSeq(fromDev, 1 + 1, Len(fromDev)) /\ dout' = dout
    BY <1>1 DEF ReadChecksum, Read
  <2> QED
    BY <1>0, <1>7, <1>10, <2>1, ReadFront
<1>12. hpc' = "ready" /\ ret' = 1
  BY <1>8, <1>9, <1>10 DEF ReadChecksum, Finish
<1>13. Effect'
  BY <1>0, <1>1, <1>3, <1>5, <1>8 DEF Effect, After, Apply, Code
<1>14. dpc = "request"
  BY <1>0, <1>3 DEF Over
<1> QED
  BY <1>0, <1>1, <1>2, <1>3, <1>11, <1>12, <1>13, <1>14 DEF Track, Over

(* The result of an upload. *)
LEMMA ResultTrack ==
  ASSUME Types, Track, ReadResult
  PROVE  Track'
<1> USE DEF request, answer, console, history
<1>0. TypeOK /\ hpc = "result" /\ op \in {"upload", "raw"} /\ requests > 0
  BY DEF Types, Phases, ReadResult
<1>1. UNCHANGED <<op, path, path2, file, fs0, din, toDev, dpc, dpath, dlist, fs, sd, dout, failed>>
  BY DEF ReadResult
<1>2. Given' = Given /\ Can' = Can /\ After' = After
  BY <1>1, SameRequest DEF Given
<1>3. fromDev \in Seq(Item) /\ Len(fromDev) \in Nat /\ Len(fromDev) >= 1 /\ fromDev' = SubSeq(fromDev, 1 + 1, Len(fromDev))
  <2>1. fromDev \in Seq(Item) /\ Len(fromDev) \in Nat
    BY <1>0, LenProperties DEF TypeOK
  <2>2. CASE Read(1)
    BY <2>1, <2>2 DEF Read
  <2>3. CASE fromDev # <<>> /\ fromDev' = Tail(fromDev)
    <3>1. Len(fromDev) # 0
      BY <2>1, <2>3, EmptyItems
    <3>2. Tail(fromDev) = SubSeq(fromDev, 2, Len(fromDev))
      BY <2>1, <2>3, HeadTailProperties
    <3> QED
      BY <2>1, <2>3, <3>1, <3>2
  <2> QED
    BY <2>2, <2>3 DEF ReadResult
<1>4. Unread # <<>>
  <2>1. fromDev # <<>>
    BY <1>3, EmptyItems
  <2> QED
    BY <1>0, <2>1, LinkFacts
<1>5. CASE failed
  <2>1. ~Asking
    BY <1>4 DEF Asking
  <2>2. op = "raw"
    BY <1>0, <1>5 DEF Types, Phases
  <2>3. Over
    BY <2>1, <2>2 DEF Track, Uploading
  <2> QED
    BY <1>1, <1>2, <1>5, <2>3 DEF Track, Over
<1>6. CASE ~failed
  <2>1. Over /\ Can /\ fs = After /\ Unread = <<0>> /\ (op = "raw" => sd[path] = file)
    BY <1>0, <1>4, <1>6 DEF Track, Asking, Uploading, Over, Answering, Refusing
  <2>2. Len(Unread) = 1 /\ Unread[1] = 0
    BY <2>1
  <2>3. fromDev[1] = 0
    <3>1. 1 \in 1 .. Len(fromDev)
      BY <1>3
    <3> QED
      BY <1>0, <2>2, <3>1, LinkFacts
  <2>4. Unread' = <<>>
    <3>1. 1 \in 0 .. Len(fromDev) /\ dout' = dout
      BY <1>1, <1>3
    <3> QED
      BY <1>0, <1>3, <2>2, <3>1, ReadFront
  <2>5. hpc' = "ready" /\ ret' = 1
    BY <2>3 DEF ReadResult, Finish
  <2>6. Effect'
    BY <1>0, <1>1, <2>1 DEF Effect, After, Apply, Code
  <2>7. dpc = "request"
    BY <1>0, <2>1 DEF Over
  <2> QED
    BY <1>1, <1>2, <1>6, <2>1, <2>4, <2>5, <2>6, <2>7 DEF Track, Over
<1> QED
  BY <1>5, <1>6

(* A read that gives up. *)
LEMMA GiveUpTrack ==
  ASSUME Types, Track, Waiting, NEW k \in 0 .. Len(fromDev), GiveUp(k), ~failed
  PROVE  Track'
<1> USE DEF request, answer, console
<1>0. TypeOK
  BY DEF Types
<1>1. UNCHANGED <<op, path, path2, file, fs0, din, toDev, dpc, dpath, dlist, fs, sd, dout, listing>>
  BY DEF GiveUp
<1>2. Given' = Given /\ Can' = Can /\ After' = After
  BY <1>1, SameRequest DEF Given
<1>3. Asking => Unread' = <<>>
  <2> SUFFICES ASSUME Asking PROVE Unread' = <<>>
    OBVIOUS
  <2>1. Unread = <<>> /\ Len(Unread) = 0 /\ Len(fromDev) \in Nat /\ Len(dout) \in Nat /\ Len(Unread) = Len(fromDev) + Len(dout)
    BY <1>0, LinkFacts, EmptyItems DEF Asking
  <2>2. k = 0
    BY <2>1
  <2>3. fromDev' = SubSeq(fromDev, k + 1, Len(fromDev)) /\ dout' = dout
    BY <1>1 DEF GiveUp
  <2> QED
    BY <1>0, <2>1, <2>2, <2>3, ReadFront
<1>4. failed' = ~(hpc = "next" /\ k = 0 /\ fromDev = <<>> /\ Quiet)
  BY DEF GiveUp
<1>5. CASE ~(hpc = "next" /\ k = 0 /\ fromDev = <<>> /\ Quiet)
  <2>1. failed' = TRUE
    BY <1>4, <1>5
  <2> QED
    BY <1>1, <1>2, <1>3, <2>1, FailedTrack
<1>6. CASE hpc = "next" /\ k = 0 /\ fromDev = <<>> /\ Quiet
  <2>1. failed' = FALSE /\ hpc' = "ready" /\ ret' = 1
    <3>1. failed' = FALSE
      BY <1>4, <1>6
    <3>2. k < 3
      BY <1>6
    <3>3. hpc' = "ready" /\ ret' = (IF hpc = "next" /\ k < 3 THEN 1 ELSE 0)
      BY DEF GiveUp, Finish
    <3> QED
      BY <1>6, <3>1, <3>2, <3>3
  <2>2. op = "list"
    BY <1>6 DEF Types, Phases
  <2>3. Over /\ Can /\ fs = After /\ \E n \in 0 .. Len(Unread) : Packets(n)
    BY <1>6, <2>2 DEF Track, Asking, Uploading, Over, Answering, Refusing
  <2>4. Unread = <<>> /\ dpc = "request" /\ Len(Unread) = 0
    <3>1. dout = <<>> /\ dpc # "list"
      BY <1>6 DEF Quiet
    <3>2. Unread = <<>>
      BY <1>0, <1>6, <3>1, LinkFacts
    <3>3. dpc = "request"
      BY <2>3, <3>1 DEF Over
    <3> QED
      BY <3>2, <3>3, EmptyItems
  <2>5. Packets(0)
    <3>1. PICK n \in 0 .. 0 : Packets(n)
      BY <2>3, <2>4
    <3>2. n = 0
      OBVIOUS
    <3> QED
      BY <3>1, <3>2
  <2>6. dlist = {} /\ listing = Entries(fs0)
    <3>1. dlist = {} /\ listing \subseteq Entries(fs0)
      BY <2>4, <2>5 DEF Packets
    <3>2. 0 .. (0 - 1) = {}
      OBVIOUS
    <3>3. \A p \in Entries(fs0) : p \in listing
      BY <2>5, <3>1, <3>2 DEF Packets
    <3> QED
      BY <3>1, <3>3
  <2>7. fs = fs0
    BY <2>2, <2>3 DEF After, Apply, Code
  <2>8. Effect'
    BY <1>1, <2>2, <2>6, <2>7 DEF Effect, Entries
  <2>9. Unread' = <<>>
    <3>1. fromDev' = SubSeq(fromDev, k + 1, Len(fromDev)) /\ dout' = dout
      BY <1>1 DEF GiveUp
    <3> QED
      BY <1>0, <1>6, <2>4, <3>1, ReadFront
  <2> QED
    BY <1>1, <1>2, <2>1, <2>3, <2>4, <2>8, <2>9 DEF Track, Over
<1> QED
  BY <1>5, <1>6

(* A raw upload that is interrupted, and the signal. *)
LEMMA InterruptTrack ==
  ASSUME Types, Track, ReadInterrupted \/ Signal
  PROVE  Track'
<1> USE DEF request, answer, console, link, history
<1>1. CASE ReadInterrupted
  <2>1. UNCHANGED <<op, path, path2, file, dpc, dpath, fs, fs0, din, toDev, fromDev, dout>> /\ failed' = TRUE
    BY <1>1 DEF ReadInterrupted
  <2>2. Given' = Given /\ Unread' = Unread
    BY <2>1 DEF Given, Unread
  <2> QED
    BY <2>1, <2>2, FailedTrack DEF Asking
<1>2. CASE Signal
  <2>1. /\ UNCHANGED <<hpc, op, path, path2, file, listing, need, local, ret, failed>>
        /\ UNCHANGED <<dpc, dpath, dlist, fs, sd, fs0, din, toDev, fromDev, dout>>
    BY <1>2 DEF Signal
  <2>2. Given' = Given /\ Unread' = Unread
    BY <2>1 DEF Given, Unread
  <2> QED
    BY <2>1, <2>2, SameTrack
<1> QED
  BY <1>1, <1>2

-----------------------------------------------------------------------------
(* The console's side of the request *)

(* What the console has received is the front of what the host writes. *)
LEMMA PartGiven ==
  ASSUME TypeOK, NEW s \in Seq(Item), IsPart(Given, s), Given # <<>>
  PROVE  /\ Len(s) \in Nat /\ Len(din) \in Nat /\ Len(toDev) \in Nat
         /\ Len(din) + Len(toDev) =< Len(s) /\ Len(s) >= 1
         /\ \A i \in 1 .. Len(din) : din[i] = s[i]
         /\ Given[1] = s[1]
         /\ Len(din) = Len(s) => toDev = <<>> /\ din = s
<1>1. /\ Given \in Seq(Item) /\ Len(din) \in Nat /\ Len(toDev) \in Nat /\ Len(Given) = Len(din) + Len(toDev)
      /\ \A i \in 1 .. Len(din) : Given[i] = din[i]
      /\ din \in Seq(Item) /\ toDev \in Seq(Item)
  BY LinkFacts DEF TypeOK
<1>2. Len(s) \in Nat
  BY LenProperties
<1>3. Len(Given) =< Len(s) /\ Given = SubSeq(s, 1, Len(Given))
  BY DEF IsPart
<1>4. Len(Given) # 0
  BY <1>1, EmptyItems
<1>5. \A i \in 1 .. Len(Given) : Given[i] = s[i]
  <2>1. PICK n : n = Len(Given)
    OBVIOUS
  <2>2. 0 \in Nat /\ n \in 0 .. Len(s) /\ 0 =< n
    BY <1>1, <1>2, <1>3, <2>1
  <2>3. \A i \in 1 .. (n - 0) : SubSeq(s, 0 + 1, n)[i] = s[0 + i]
    BY <2>2, PartItems
  <2>4. \A i \in 1 .. n : SubSeq(s, 1, n)[i] = s[i]
    BY <2>2, <2>3
  <2> QED
    BY <1>3, <2>1, <2>4
<1>6. \A i \in 1 .. Len(din) : din[i] = s[i]
  <2>1. \A i \in 1 .. Len(din) : i \in 1 .. Len(Given)
    BY <1>1
  <2> QED
    BY <1>1, <1>5, <2>1
<1>7. Given[1] = s[1]
  <2>1. 1 \in 1 .. Len(Given)
    BY <1>1, <1>4
  <2> QED
    BY <1>5, <2>1
<1>8. Len(din) + Len(toDev) =< Len(s) /\ Len(s) >= 1
  BY <1>1, <1>2, <1>3, <1>4
<1>9. ASSUME Len(din) = Len(s) PROVE toDev = <<>> /\ din = s
  <2>1. Len(toDev) = 0
    BY <1>1, <1>8, <1>9
  <2>2. toDev = <<>>
    BY <1>1, <2>1, EmptyItems
  <2>3. din = s
    BY <1>1, <1>6, <1>9, SameItems
  <2> QED
    BY <2>2, <2>3
<1> QED
  BY <1>1, <1>2, <1>6, <1>7, <1>8, <1>9

(* The console takes an item: it is part of the request, so none is skipped. *)
LEMMA ReceiveTrack ==
  ASSUME Types, Track, fresh, Receive
  PROVE  Track'
<1> USE DEF request, answer, history
<1>0. TypeOK /\ Arguments
  BY DEF Types, Phases
<1>1. toDev \in Seq(Item) /\ din \in Seq(Item) /\ toDev # <<>> /\ Given # <<>>
  <2>1. toDev \in Seq(Item) /\ din \in Seq(Item) /\ toDev # <<>>
    BY <1>0 DEF TypeOK, Receive
  <2> QED
    BY <1>0, <2>1, LinkFacts
<1>2. /\ UNCHANGED <<hpc, op, path, path2, file, listing, need, local, ret, failed>>
      /\ UNCHANGED <<dpc, dpath, dlist, fs, sd, fs0, fromDev, dout>>
      /\ toDev' = Tail(toDev)
  BY DEF Receive
<1>3. din' = Append(din, Head(toDev))
  <2>1. CASE dpc = "request" /\ din = <<>>
    <3>1. Asking
      BY <1>1, <2>1 DEF Track, Uploading, Over
    <3>2. Request \in Seq(Item) /\ Request[1] \in {MAGIC, Code.raw}
      BY <1>0, Written
    <3>3. Given[1] = Request[1]
      BY <1>0, <1>1, <3>1, <3>2, PartGiven DEF Asking
    <3>4. Given = toDev
      BY <1>1, <2>1 DEF Given
    <3>5. Head(toDev) = toDev[1]
      BY <1>1, HeadTailProperties
    <3> QED
      BY <3>2, <3>3, <3>4, <3>5 DEF Receive
  <2>2. CASE ~(dpc = "request" /\ din = <<>>)
    BY <2>2 DEF Receive
  <2> QED
    BY <2>1, <2>2
<1>4. Given' = Given
  BY <1>1, <1>2, <1>3, MoveItem DEF Given
<1>5. Unread' = Unread
  BY <1>2 DEF Unread
<1> QED
  BY <1>2, <1>4, <1>5, SameTrack

(* The console sends an item of its answer. *)
LEMMA SendTrack ==
  ASSUME Types, Track, Send
  PROVE  Track'
<1> USE DEF request, answer, history
<1>1. fromDev \in Seq(Item) /\ dout \in Seq(Item) /\ dout # <<>>
  BY DEF Types, TypeOK, Send
<1>2. /\ UNCHANGED <<hpc, op, path, path2, file, listing, need, local, ret, failed>>
      /\ UNCHANGED <<dpc, dpath, dlist, fs, sd, fs0, din, toDev>>
      /\ fromDev' = Append(fromDev, Head(dout)) /\ dout' = Tail(dout)
  BY DEF Send
<1>3. Unread' = Unread
  BY <1>1, <1>2, MoveItem DEF Unread
<1>4. Given' = Given
  BY <1>2 DEF Given
<1> QED
  BY <1>2, <1>3, <1>4, SameTrack

(* The console stores an upload: it is the whole file, and the checksum is right. *)
LEMMA StoreTrack ==
  ASSUME Types, Track, fresh, StoreUpload
  PROVE  /\ Track'
         /\ fs' = fs \/ (fs = fs0 /\ Can /\ fs' = After /\ (~failed => hpc # "ready"))
<1> USE DEF request, answer, history, link
<1>0. TypeOK /\ Arguments /\ Complete /\ (dpc = "upload" \/ din[1] = Code.raw)
  BY DEF Types, Phases, StoreUpload
<1>1. UNCHANGED <<hpc, op, path, path2, file, toDev, fromDev, failed, fs0>> /\ din' = <<>> /\ dpc' = "request"
  BY DEF StoreUpload
<1>2. din \in Seq(Item) /\ Len(din) \in Nat /\ Len(din) >= 2
  BY <1>0, CompleteFacts
<1>3. Given # <<>> /\ ~Over
  <2>1. din # <<>>
    BY <1>2, EmptyItems
  <2>2. Given # <<>>
    BY <1>0, <2>1, LinkFacts
  <2> QED
    BY <2>2 DEF Over
<1>4. Can' = Can /\ After' = After
  BY <1>1, SameRequest
<1>5. 1 \in 1 .. Len(din)
  BY <1>2
<1>6. CASE Uploading
  <2>1. /\ Body \in Seq(Item) /\ Len(Body) = Len(file) + 2 /\ Body[1] = Len(file)
        /\ SubSeq(Body, 2, Len(Body) - 1) = file /\ Body[Len(Body)] = Checksum(file)
    BY <1>0, Written
  <2>2. din[1] = Body[1] /\ (Len(din) = Len(Body) => toDev = <<>> /\ din = Body)
    BY <1>0, <1>3, <1>5, <1>6, <2>1, PartGiven DEF Uploading
  <2>3. dpc = "upload" /\ dpath = path /\ fs = fs0 /\ op = "upload" /\ Can
    BY <1>6 DEF Uploading
  <2>4. Len(din) = Len(Body)
    BY <1>0, <2>1, <2>2, <2>3 DEF Complete
  <2>5. toDev = <<>> /\ din = Body
    BY <2>2, <2>4
  <2>6. dout' = <<0>> /\ fs' = [fs EXCEPT ![dpath] = File(file)]
    <3>1. SubSeq(din, 1 + 1, Len(din) - 1) = file /\ din[Len(din)] = Checksum(file)
      BY <2>1, <2>5
    <3> QED
      BY <2>3, <3>1 DEF StoreUpload
  <2>7. fs' = After
    BY <2>3, <2>6 DEF After
  <2>8. Given' = <<>>
    BY <1>1, <2>5 DEF Given
  <2>9. ~failed => hpc = "result" /\ Unread' = <<0>>
    <3>1. ~failed => hpc = "result" /\ Unread = <<>>
      BY <1>3, <1>6 DEF Uploading
    <3>2. ~failed => fromDev = <<>>
      BY <1>0, <3>1, LinkFacts
    <3> QED
      BY <1>1, <2>6, <3>1, <3>2 DEF Unread
  <2>10. ~failed => Answering'
    BY <1>1, <2>3, <2>9 DEF Answering
  <2> QED
    BY <1>1, <1>4, <2>3, <2>7, <2>8, <2>9, <2>10 DEF Track, Over
<1>7. CASE Asking
  <2>1. dpc = "request" /\ fs = fs0 /\ Unread = <<>> /\ IsPart(Given, Request) /\ din[1] = Code.raw
    BY <1>0, <1>7 DEF Asking
  <2>2. Request \in Seq(Item) /\ (op # "raw" => Request[1] = MAGIC)
    BY <1>0, Written
  <2>3. /\ Len(Request) \in Nat /\ Len(din) + Len(toDev) =< Len(Request) /\ Len(toDev) \in Nat
        /\ \A i \in 1 .. Len(din) : din[i] = Request[i]
        /\ Len(din) = Len(Request) => toDev = <<>> /\ din = Request
    BY <1>0, <1>3, <2>1, <2>2, PartGiven
  <2>4. op = "raw"
    <3>1. din[1] = Request[1]
      BY <1>5, <2>3
    <3>2. Code.raw # MAGIC
      BY DEF Code, MAGIC
    <3> QED
      BY <2>1, <2>2, <3>1, <3>2
  <2>5. /\ Len(Request) = Len(file) + 4 /\ Request[2] = path /\ Request[3] = Len(file)
        /\ SubSeq(Request, 4, Len(Request) - 1) = file /\ Request[Len(Request)] = Checksum(file)
    BY <1>0, <2>4, Written
  <2>6. Len(din) - 4 = din[3] /\ Len(din) >= 4
    BY <1>0, <2>1, CompleteFacts
  <2>7. din[3] = Len(file)
    <3>1. 3 \in 1 .. Len(din)
      BY <1>2, <2>6
    <3> QED
      BY <2>3, <2>5, <3>1
  <2>8. toDev = <<>> /\ din = Request
    <3>1. Len(din) = Len(Request)
      BY <1>2, <2>3, <2>5, <2>6, <2>7
    <3> QED
      BY <2>3, <3>1
  <2>9. path \in Sectors /\ sd \in [Sectors -> Seq(Item)]
    BY <1>0, <2>4 DEF Arguments, TypeOK
  <2>10. dout' = <<0>> /\ fs' = fs /\ sd' = [sd EXCEPT ![path] = file]
    <3>1. SubSeq(din, 3 + 1, Len(din) - 1) = file /\ din[Len(din)] = Checksum(file) /\ din[2] = path
      BY <2>5, <2>8
    <3> QED
      BY <2>1, <2>9, <3>1 DEF StoreUpload
  <2>11. sd'[path'] = file' /\ Given' = <<>> /\ Unread' = <<0>>
    <3>1. fromDev = <<>>
      BY <1>0, <2>1, LinkFacts
    <3> QED
      BY <1>1, <2>8, <2>9, <2>10, <3>1 DEF Given, Unread
  <2>12. ~failed => hpc = "result"
    BY <1>3, <1>7, <2>4 DEF Asking
  <2>13. ~failed => Answering'
    BY <1>1, <2>4, <2>11, <2>12 DEF Answering
  <2>14. Can /\ fs' = After
    BY <2>1, <2>4, <2>10 DEF Can, After, Apply, Code
  <2> QED
    BY <1>1, <1>4, <2>10, <2>11, <2>13, <2>14 DEF Track, Over
<1> QED
  BY <1>3, <1>6, <1>7 DEF Track

(* The next packet of a listing, or its end. *)
LEMMA SendListingTrack ==
  ASSUME Types, Track, SendListing
  PROVE  Track'
<1> USE DEF request, answer, history, link
<1>0. TypeOK /\ dpc = "list" /\ dout = <<>>
  BY DEF Types, SendListing
<1>1. /\ UNCHANGED <<hpc, op, path, path2, file, listing, failed, fs0, fs>>
      /\ UNCHANGED <<toDev, fromDev, din>>
  BY DEF SendListing
<1>2. Given' = Given /\ Can' = Can /\ After' = After
  BY <1>1, SameRequest DEF Given
<1>3. Over /\ op = "list" /\ Can /\ fs = fs0 /\ Given = <<>>
  BY <1>0 DEF Track, Asking, Uploading, Over
<1>4. ~failed => fs = After /\ hpc \in {"reply", "next"} /\ \E n \in 0 .. Len(Unread) : Packets(n)
  BY <1>0, <1>3 DEF Over, Answering
<1>5. /\ fromDev \in Seq(Item) /\ Len(fromDev) \in Nat /\ Unread = fromDev
      /\ dout' \in Seq(Item) /\ Unread' = fromDev \o dout'
  <2>1. fromDev \in Seq(Item) /\ Len(fromDev) \in Nat
    BY <1>0, LenProperties DEF TypeOK
  <2>2. TypeOK'
    BY SendTypes DEF Types
  <2> QED
    BY <1>0, <1>1, <2>1, <2>2 DEF TypeOK, Unread
<1>6. /\ Len(dout') \in Nat /\ Len(Unread') = Len(fromDev) + Len(dout')
      /\ \A i \in 1 .. Len(fromDev) : Unread'[i] = Unread[i]
      /\ \A i \in 1 .. Len(dout') : Unread'[Len(fromDev) + i] = dout'[i]
  <2>1. PICK d \in Seq(Item) : d = dout'
    BY <1>5
  <2>2. /\ Len(d) \in Nat /\ Len(fromDev \o d) = Len(fromDev) + Len(d)
        /\ \A i \in 1 .. Len(fromDev) : (fromDev \o d)[i] = fromDev[i]
        /\ \A i \in 1 .. Len(d) : (fromDev \o d)[Len(fromDev) + i] = d[i]
    BY <1>5, <2>1, ConcatItems
  <2> QED
    BY <1>5, <2>1, <2>2
<1>7. CASE failed
  <2>1. dpc' \in {"request", "list"}
    BY <1>0 DEF SendListing
  <2> QED
    BY <1>1, <1>2, <1>3, <1>7, <2>1 DEF Track, Over
<1>8. CASE ~failed
  <2>1. PICK n \in 0 .. Len(Unread) : Packets(n)
    BY <1>4, <1>8
  <2>2. /\ n \in Nat /\ Len(Unread) = 4 * n
        /\ listing \subseteq Entries(fs0) /\ dlist \subseteq Entries(fs0)
        /\ \A i \in 0 .. (n - 1) :
             /\ Unread[4 * i + 1] = MAGIC /\ Unread[4 * i + 2] = Status.OK /\ Unread[4 * i + 3] = 1
             /\ Unread[4 * i + 4] \in Entries(fs0)
        /\ \A p \in Entries(fs0) :
             p \in listing \/ p \in dlist \/ \E i \in 0 .. (n - 1) : Unread[4 * i + 4] = p
    <3>1. n \in Nat
      BY <1>5, <2>1
    <3> QED
      BY <1>0, <2>1, <3>1 DEF Packets
  <2>3. Entries(fs0)' = Entries(fs0)
    BY <1>1 DEF Entries
  <2>4. \A i \in 0 .. (n - 1) :
             /\ Unread'[4 * i + 1] = Unread[4 * i + 1] /\ Unread'[4 * i + 2] = Unread[4 * i + 2]
             /\ Unread'[4 * i + 3] = Unread[4 * i + 3] /\ Unread'[4 * i + 4] = Unread[4 * i + 4]
    <3>1. Len(fromDev) = 4 * n
      BY <1>5, <2>2
    <3>2. \A i \in 0 .. (n - 1) : {4 * i + 1, 4 * i + 2, 4 * i + 3, 4 * i + 4} \subseteq 1 .. Len(fromDev)
      BY <2>2, <3>1
    <3> QED
      BY <1>6, <3>2
  <2>5. ASSUME NEW p \in dlist, dout' = <<MAGIC, Status.OK, 1, p>>, dlist' = dlist \ {p}, dpc' = dpc
        PROVE  Packets(n + 1)'
    <3>1. Len(dout') = 4 /\ dout'[1] = MAGIC /\ dout'[2] = Status.OK /\ dout'[3] = 1 /\ dout'[4] = p
      BY <2>5
    <3>2. Len(fromDev) = 4 * n /\ Len(Unread') = 4 * (n + 1) /\ {1, 2, 3, 4} \subseteq 1 .. Len(dout')
      BY <1>5, <1>6, <2>2, <3>1
    <3>3. /\ Unread'[4 * n + 1] = MAGIC /\ Unread'[4 * n + 2] = Status.OK /\ Unread'[4 * n + 3] = 1
          /\ Unread'[4 * n + 4] = p
      BY <1>6, <3>1, <3>2
    <3>4. (n + 1) - 1 = n /\ 0 .. ((n + 1) - 1) = (0 .. (n - 1)) \cup {n}
      BY <2>2
    <3>5. \A i \in 0 .. ((n + 1) - 1) :
            /\ Unread'[4 * i + 1] = MAGIC /\ Unread'[4 * i + 2] = Status.OK /\ Unread'[4 * i + 3] = 1
            /\ Unread'[4 * i + 4] \in Entries(fs0)
      <4>1. p \in Entries(fs0)
        BY <2>2
      <4>2. ASSUME NEW i \in 0 .. (n - 1)
            PROVE  /\ Unread'[4 * i + 1] = MAGIC /\ Unread'[4 * i + 2] = Status.OK /\ Unread'[4 * i + 3] = 1
                   /\ Unread'[4 * i + 4] \in Entries(fs0)
        BY <2>2, <2>4
      <4> QED
        BY <3>3, <3>4, <4>1, <4>2
    <3>6. ASSUME NEW e \in Entries(fs0)
          PROVE  e \in listing \/ e \in dlist' \/ \E i \in 0 .. ((n + 1) - 1) : Unread'[4 * i + 4] = e
      <4>1. e = p => n \in 0 .. ((n + 1) - 1) /\ Unread'[4 * n + 4] = e
        BY <2>2, <3>3
      <4>2. e # p => e \in listing \/ e \in dlist' \/ \E i \in 0 .. (n - 1) : Unread'[4 * i + 4] = e
        BY <2>2, <2>4, <2>5
      <4> QED
        BY <3>4, <4>1, <4>2
    <3>7. listing' \subseteq Entries(fs0) /\ dlist' \subseteq Entries(fs0) /\ listing' = listing /\ dpc' = "list"
      BY <1>0, <1>1, <2>2, <2>5
    <3> QED
      BY <2>3, <3>2, <3>5, <3>6, <3>7 DEF Packets
  <2>6. ASSUME dlist = {}, dlist' = {}, dpc' = "request", dout' \in {<<>>, <<MAGIC, Status.OK, 0>>}
        PROVE  Packets(n)'
    <3>1. \A i \in 0 .. (n - 1) :
            /\ Unread'[4 * i + 1] = MAGIC /\ Unread'[4 * i + 2] = Status.OK /\ Unread'[4 * i + 3] = 1
            /\ Unread'[4 * i + 4] \in Entries(fs0)
      BY <2>2, <2>4
    <3>2. \A e \in Entries(fs0) : e \in listing \/ \E i \in 0 .. (n - 1) : Unread'[4 * i + 4] = e
      BY <2>2, <2>4, <2>6
    <3>3. Len(fromDev) = 4 * n
      BY <1>5, <2>2
    <3>4. CASE dout' = <<>>
      <4>1. Len(Unread') = 4 * n
        BY <1>5, <1>6, <3>3, <3>4, EmptyItems
      <4> QED
        BY <1>1, <2>2, <2>3, <2>6, <3>1, <3>2, <4>1 DEF Packets
    <3>5. CASE dout' = <<MAGIC, Status.OK, 0>>
      <4>1. Len(dout') = 3 /\ dout'[1] = MAGIC /\ dout'[2] = Status.OK /\ dout'[3] = 0
        BY <3>5
      <4>2. {1, 2, 3} \subseteq 1 .. Len(dout')
        BY <4>1
      <4>3. /\ Len(Unread') = 4 * n + 3
            /\ Unread'[4 * n + 1] = MAGIC /\ Unread'[4 * n + 2] = Status.OK /\ Unread'[4 * n + 3] = 0
        BY <1>6, <3>3, <4>1, <4>2
      <4> QED
        BY <1>1, <2>2, <2>3, <2>6, <3>1, <3>2, <4>3 DEF Packets
    <3> QED
      BY <2>6, <3>4, <3>5
  <2>7. Answering' /\ dpc' \in {"request", "list"}
    <3>1. CASE \E p \in dlist : dout' = <<MAGIC, Status.OK, 1, p>> /\ dlist' = dlist \ {p} /\ dpc' = dpc
      <4>1. Packets(n + 1)'
        BY <2>5, <3>1
      <4>2. Len(Unread') = Len(Unread) + 4 /\ n + 1 \in 0 .. (4 * n + 4)
        BY <1>5, <1>6, <2>2, <3>1
      <4>3. n + 1 \in 0 .. Len(Unread')
        BY <2>2, <4>2
      <4> QED
        BY <1>0, <1>1, <1>3, <1>4, <1>8, <3>1, <4>1, <4>3 DEF Answering
    <3>2. CASE dlist = {} /\ dlist' = {} /\ dpc' = "request" /\ dout' \in {<<>>, <<MAGIC, Status.OK, 0>>}
      <4>1. Packets(n)'
        BY <2>6, <3>2
      <4>2. n \in 0 .. Len(Unread')
        BY <1>5, <1>6, <2>2
      <4> QED
        BY <1>1, <1>3, <1>4, <1>8, <3>2, <4>1, <4>2 DEF Answering
    <3> QED
      BY <3>1, <3>2 DEF SendListing
  <2> QED
    BY <1>1, <1>2, <1>3, <1>4, <1>8, <2>7 DEF Track, Over
<1> QED
  BY <1>7, <1>8

(* What the console executes is the request that the host wrote. *)
LEMMA ExecutesRequest ==
  ASSUME Types, Track, fresh, Execute
  PROVE  /\ op # "raw" /\ op \in Ops /\ path \in Paths /\ path2 \in Paths
         /\ din[2] = Code[op] /\ din[3] = path /\ din[Len(din)] = path2
         /\ toDev = <<>> /\ fs = fs0 /\ Unread = <<>> /\ fromDev = <<>>
         /\ ~failed => hpc = "reply"
<1>0. TypeOK /\ Arguments /\ Complete /\ dpc = "request" /\ din[1] = MAGIC /\ op \in Ops
  BY DEF Types, TypeOK, Phases, Execute
<1>1. din \in Seq(Item) /\ Len(din) \in Nat /\ Len(din) >= 3
  BY <1>0, CompleteFacts
<1>2. Given # <<>>
  <2>1. din # <<>>
    BY <1>1, EmptyItems
  <2> QED
    BY <1>0, <2>1, LinkFacts
<1>3. Asking
  BY <1>0, <1>2 DEF Track, Uploading, Over
<1>4. Request \in Seq(Item) /\ (op = "raw" => Request[1] = Code.raw)
  BY <1>0, Written
<1>5. /\ Len(Request) \in Nat /\ Len(din) + Len(toDev) =< Len(Request) /\ Len(toDev) \in Nat
      /\ \A i \in 1 .. Len(din) : din[i] = Request[i]
      /\ Len(din) = Len(Request) => toDev = <<>> /\ din = Request
  BY <1>0, <1>2, <1>3, <1>4, PartGiven DEF Asking
<1>6. {1, 2, 3} \subseteq 1 .. Len(din)
  BY <1>1
<1>7. op # "raw"
  <2>1. Code.raw # MAGIC
    BY DEF Code, MAGIC
  <2>2. din[1] = Request[1]
    BY <1>5, <1>6
  <2> QED
    BY <1>0, <1>4, <2>1, <2>2
<1>8. /\ Len(Request) = (IF op = "rename" THEN 4 ELSE 3)
      /\ Request[1] = MAGIC /\ Request[2] = Code[op] /\ Request[3] = path
      /\ Request[Len(Request)] = path2
  BY <1>0, <1>7, Written
<1>9. din[2] = Code[op]
  BY <1>5, <1>6, <1>8
<1>10. Len(din) = Len(Request)
  <2>1. \/ Len(din) = 3 /\ din[2] # Code.rename
        \/ Len(din) = 4
    <3>1. MAGIC # Code.raw
      BY DEF Code, MAGIC
    <3> QED
      BY <1>0, <3>1 DEF Complete
  <2>2. op = "rename" => din[2] = Code.rename
    BY <1>9 DEF Code
  <2>3. Len(din) =< Len(Request)
    BY <1>1, <1>5
  <2>4. CASE Len(din) = 3 /\ din[2] # Code.rename
    BY <1>8, <2>2, <2>4
  <2>5. CASE Len(din) = 4
    <3>1. Len(Request) \in {3, 4}
      BY <1>8
    <3> QED
      BY <2>3, <2>5, <3>1
  <2> QED
    BY <2>1, <2>4, <2>5
<1>11. toDev = <<>> /\ din = Request
  BY <1>5, <1>10
<1>12. Unread = <<>> /\ fs = fs0 /\ (~failed => hpc = "reply")
  BY <1>2, <1>3, <1>7 DEF Asking
<1>13. fromDev = <<>>
  BY <1>0, <1>12, LinkFacts
<1> QED
  BY <1>0, <1>7, <1>8, <1>11, <1>12, <1>13 DEF Arguments

(* The console executes the request, or refuses it. *)
LEMMA ExecuteTrack ==
  ASSUME Types, Track, fresh, Execute
  PROVE  Track'
<1> USE DEF request, answer, history, link
<1>0. TypeOK /\ dpc = "request"
  BY DEF Types, Execute
<1>1. UNCHANGED <<hpc, op, path, path2, file, listing, failed, fs0, toDev, fromDev>> /\ din' = <<>>
  BY DEF Execute
<1>2. /\ op # "raw" /\ op \in Ops /\ path \in Paths /\ path2 \in Paths
      /\ din[2] = Code[op] /\ din[3] = path /\ din[Len(din)] = path2
      /\ toDev = <<>> /\ fs = fs0 /\ Unread = <<>> /\ fromDev = <<>>
      /\ ~failed => hpc = "reply"
  BY ExecutesRequest
<1>3. Can' = Can /\ After' = After /\ Data' = Data /\ Body' = Body
  BY <1>1, SameRequest
<1>4. Given' = <<>> /\ Unread' = dout'
  <2>1. TypeOK'
    BY ExecuteTypes DEF Types
  <2>2. dout' \in Seq(Item)
    BY <2>1 DEF TypeOK
  <2> QED
    BY <1>1, <1>2, <2>2 DEF Given, Unread
<1>5. CASE /\ \E s \in {Status.ERR, Status.UNSUPPORTED, Status.BAD_REQUEST} : dout' = <<MAGIC, s, 0>>
           /\ UNCHANGED <<dpc, dpath, dlist, fs>>
  <2>1. PICK s \in {Status.ERR, Status.UNSUPPORTED, Status.BAD_REQUEST} : dout' = <<MAGIC, s, 0>>
    BY <1>5
  <2>2. s # Status.OK
    BY DEF Status
  <2>3. Len(dout') = 3 /\ dout'[1] = MAGIC /\ dout'[2] = s /\ dout'[3] = 0
    BY <2>1
  <2>4. ~failed => Refusing'
    BY <1>1, <1>2, <1>4, <2>2, <2>3 DEF Refusing
  <2> QED
    BY <1>0, <1>1, <1>2, <1>4, <1>5, <2>4 DEF Track, Over
<1>6. CASE /\ Possible(Code[op], path, path2, fs0)
           /\ fs' = Apply(Code[op], path, path2, fs0)
           /\ dpc' = CASE Code[op] = Code.upload -> "upload"
                       [] Code[op] = Code.list /\ Entries(fs0) # {} -> "list"
                       [] OTHER -> "request"
           /\ dpath' = path
           /\ dlist' = IF Code[op] = Code.list THEN Entries(fs0) ELSE {}
           /\ dout' = IF dpc' = "list" THEN <<>> ELSE Payload(Code[op], path)
  <2>1. Can
    BY <1>6 DEF Can
  <2>2. /\ Code[op] = Code.upload <=> op = "upload"
        /\ Code[op] = Code.list <=> op = "list"
        /\ Code[op] = Code.download <=> op = "download"
        /\ Code[op] = Code.crc <=> op = "crc"
    BY <1>2 DEF Ops, Code
  <2>3. CASE op = "upload"
    <3>1. fs' = fs0 /\ dpc' = "upload" /\ dpath' = path'
      BY <1>1, <1>6, <2>3 DEF Apply, Code
    <3>2. dout' = <<MAGIC, Status.OK, 0>>
      BY <1>6, <2>3, <3>1 DEF Payload, Code
    <3>3. ~failed => hpc' = "reply"
      BY <1>1, <1>2
    <3> QED
      BY <1>1, <1>3, <1>4, <2>1, <2>3, <3>1, <3>2, <3>3 DEF Track, Uploading, IsPart
  <2>4. CASE op = "list"
    <3>1. fs' = fs0 /\ dlist' = Entries(fs0) /\ After = fs0 /\ dpath' = path'
      BY <1>1, <1>6, <2>2, <2>4 DEF Apply, Code, After
    <3>2. \/ dpc' = "list" /\ dout' = <<>>
          \/ dpc' = "request" /\ Entries(fs0) = {} /\ dout' = <<MAGIC, Status.OK, 0>>
      <4>1. dpc' = IF Entries(fs0) # {} THEN "list" ELSE "request"
        BY <1>6, <2>2, <2>4
      <4>2. dpc' = "request" => dout' = <<MAGIC, Status.OK, 0>>
        BY <1>6, <2>4 DEF Payload, Code
      <4>3. dpc' = "list" => dout' = <<>>
        BY <1>6
      <4> QED
        BY <4>1, <4>2, <4>3
    <3>3. Entries(fs0)' = Entries(fs0)
      BY <1>1 DEF Entries
    <3>4. ~failed => hpc' = "reply" /\ listing' = {}
      BY <1>1, <1>2 DEF Types, Phases
    <3>5. ~failed => Packets(0)'
      <4>1. \/ dpc' = "list" /\ Len(Unread') = 0
            \/ /\ dpc' = "request" /\ Entries(fs0) = {} /\ Len(Unread') = 3
               /\ Unread'[1] = MAGIC /\ Unread'[2] = Status.OK /\ Unread'[3] = 0
        BY <1>4, <3>2, EmptyItems
      <4>2. 0 .. (0 - 1) = {} /\ 4 * 0 = 0 /\ 4 * 0 + 1 = 1 /\ 4 * 0 + 2 = 2 /\ 4 * 0 + 3 = 3
        OBVIOUS
      <4> QED
        BY <3>1, <3>3, <3>4, <4>1, <4>2 DEF Packets
    <3>6. ~failed => Answering'
      <4>1. 0 \in 0 .. Len(Unread')
        BY <1>4, <3>2, EmptyItems
      <4> QED
        BY <1>1, <2>4, <3>4, <3>5, <4>1 DEF Answering
    <3> QED
      BY <1>1, <1>3, <1>4, <2>1, <2>4, <3>1, <3>2, <3>6 DEF Track, Over
  <2>5. CASE op \notin {"upload", "list"}
    <3>1. fs' = After /\ dpc' = "request" /\ dout' = Payload(Code[op], path)
      BY <1>6, <2>2, <2>5 DEF After
    <3>2. ~failed => Answering'
      <4>1. ~failed => hpc' = "reply" /\ op' = op
        BY <1>1, <1>2
      <4>2. CASE op = "download"
        <5>1. dout' = <<MAGIC, Status.OK, 1, Len(Data)>> \o Append(Data, Checksum(Data))
          <6>1. fs[path].data = Data
            BY <1>2 DEF Data
          <6>2. Code[op] = Code.download /\ Code.download # Code.crc
            BY <4>2 DEF Code
          <6>3. Payload(Code[op], path)
                  = <<MAGIC, Status.OK, 1, Len(fs[path].data)>> \o Append(fs[path].data, Checksum(fs[path].data))
            BY <6>2, Zenon DEF Payload
          <6> QED
            BY <3>1, <6>1, <6>3, Zenon
        <5> QED
          BY <1>3, <1>4, <4>1, <4>2, <5>1 DEF Answering
      <4>3. CASE op = "crc"
        <5>1. dout' = <<MAGIC, Status.OK, 1, Checksum(fs[path].data)>>
          BY <3>1, <4>3 DEF Payload, Code
        <5>2. Len(Unread') = 4 /\ Unread'[1] = MAGIC /\ Unread'[2] = Status.OK /\ Unread'[3] = 1
          BY <1>4, <5>1
        <5> QED
          BY <4>1, <4>3, <5>2 DEF Answering
      <4>4. CASE op \notin {"download", "crc"}
        <5>1. dout' = <<MAGIC, Status.OK, 0>>
          BY <2>2, <3>1, <4>4 DEF Payload
        <5>2. Len(Unread') = 3 /\ Unread'[1] = MAGIC /\ Unread'[2] = Status.OK /\ Unread'[3] = 0
          BY <1>4, <5>1
        <5> QED
          BY <1>2, <2>5, <4>1, <4>4, <5>2 DEF Answering
      <4> QED
        BY <4>2, <4>3, <4>4
    <3> QED
      BY <1>1, <1>3, <1>4, <2>1, <3>1, <3>2 DEF Track, Over
  <2> QED
    BY <2>3, <2>4, <2>5
<1>7. \/ /\ \E s \in {Status.ERR, Status.UNSUPPORTED, Status.BAD_REQUEST} : dout' = <<MAGIC, s, 0>>
         /\ UNCHANGED <<dpc, dpath, dlist, fs>>
      \/ /\ Possible(Code[op], path, path2, fs0)
         /\ fs' = Apply(Code[op], path, path2, fs0)
         /\ dpc' = CASE Code[op] = Code.upload -> "upload"
                     [] Code[op] = Code.list /\ Entries(fs0) # {} -> "list"
                     [] OTHER -> "request"
         /\ dpath' = path
         /\ dlist' = IF Code[op] = Code.list THEN Entries(fs0) ELSE {}
         /\ dout' = IF dpc' = "list" THEN <<>> ELSE Payload(Code[op], path)
  BY <1>2, Zenon DEF Execute
<1> QED
  BY <1>5, <1>6, <1>7

-----------------------------------------------------------------------------
(* The invariant *)

(* Nothing is asked at the start. *)
LEMMA InvInit == Init => Inv
<1> SUFFICES ASSUME Init PROVE Inv
  OBVIOUS
<1>1. fresh = FALSE
  BY DEF Init
<1> QED
  BY <1>1, TypesInit DEF Inv

(* Every step of host and console keeps the invariant. *)
LEMMA InvNext == Inv /\ [Next]_vars => Inv'
<1> SUFFICES ASSUME Inv, [Next]_vars PROVE Inv'
  OBVIOUS
<1>1. Types /\ Types'
  BY TypesNext DEF Inv
<1> SUFFICES ASSUME fresh' PROVE Track'
  BY <1>1 DEF Inv
<1>2. CASE \E purge \in BOOLEAN : Begin(purge)
  BY <1>1, <1>2, BeginTrack
<1>3. CASE HostStep
  <2>1. fresh
    BY <1>3 DEF HostStep, WriteAllToDevice, WriteFails, ReadReply, ReadData, ReadChecksum, ReadResult,
                ReadTimeout, ReadFails, ReadInterrupted, GiveUp, history
  <2>2. Track
    BY <2>1 DEF Inv
  <2>3. CASE ReadReply
    BY <1>1, <2>2, <2>3, ReplyTrackCommand, ReplyTrackUpload, ReplyTrackDownload, ReplyTrackList
  <2>4. CASE ReadTimeout \/ ReadFails
    BY <1>1, <2>2, <2>4, GivesUp, GiveUpTrack
  <2> QED
    BY <1>1, <1>3, <2>2, <2>3, <2>4, WriteTrack, DataTrack, ChecksumTrack, ResultTrack, InterruptTrack DEF HostStep
<1>4. CASE Signal
  <2>1. Track
    BY <1>4 DEF Signal, history, Inv
  <2> QED
    BY <1>1, <1>4, <2>1, InterruptTrack
<1>5. CASE ConsoleStep
  <2>1. fresh
    BY <1>5 DEF ConsoleStep, Receive, Execute, SendListing, StoreUpload, Send, history
  <2>2. Track
    BY <2>1 DEF Inv
  <2> QED
    BY <1>1, <1>5, <2>1, <2>2, ReceiveTrack, ExecuteTrack, SendListingTrack, StoreTrack, SendTrack DEF ConsoleStep
<1>6. CASE UNCHANGED vars
  <2>1. /\ UNCHANGED <<hpc, op, path, path2, file, listing, need, local, ret, failed, fresh>>
        /\ UNCHANGED <<dpc, dpath, dlist, fs, sd, fs0, din, toDev, fromDev, dout>>
    BY <1>6 DEF vars, request, answer, link, console, history
  <2>2. Given' = Given /\ Unread' = Unread /\ Track
    BY <2>1 DEF Given, Unread, Inv
  <2> QED
    BY <2>1, <2>2, SameTrack
<1> QED
  BY <1>2, <1>3, <1>4, <1>5, <1>6 DEF Next

(* How a request that ended without a failure leaves host, link and console. *)
EndedWell ==
    fresh /\ hpc = "ready" /\ ~failed =>
        /\ Given = <<>> /\ Unread = <<>> /\ dpc = "request"
        /\ (ret = 0 /\ fs = fs0) \/ (ret = 1 /\ Can /\ Effect)

(* The invariant says so. *)
LEMMA Ended == Inv => EndedWell
  BY DEF Inv, EndedWell, Track, Asking, Uploading, Over, Answering, Refusing

(* The invariant is strong enough. *)
LEMMA InvTrue == Inv => RequestTrue
<1> SUFFICES ASSUME Inv PROVE RequestTrue
  OBVIOUS
<1>1. Types /\ TypeOK /\ (fresh => Track)
  BY DEF Inv, Types
<1>2. ASSUME fresh, hpc = "ready", ~failed
      PROVE  /\ Given = <<>> /\ Unread = <<>> /\ dpc = "request"
             /\ (ret = 0 /\ fs = fs0) \/ (ret = 1 /\ Effect)
  BY <1>2, Ended DEF EndedWell
<1>3. ASSUME fresh, hpc = "ready", ret = 1, ~cut, ~(op = "raw" /\ interrupt)
      PROVE  ~failed
  BY <1>1, <1>3 DEF Types, Phases
<1>4. SuccessMeansDone
  BY <1>2, <1>3 DEF SuccessMeansDone, Returned, Reliable
<1>5. RefusalMeansUnchanged
  BY <1>2 DEF RefusalMeansUnchanged, Returned
<1>6. SuccessLeavesReady
  BY <1>1, <1>2, <1>3, LinkFacts DEF SuccessLeavesReady, Returned, Reliable
<1> QED
  BY <1>1, <1>4, <1>5, <1>6 DEF RequestTrue

(***************************************************************************)
(* For every card, file, checksum, buffer size and number of requests, and  *)
(* however the link fails, times out or is interrupted: a request that      *)
(* found the console ready and returns 1 was carried out and has left       *)
(* nothing on the link, and one that returns 0 without a failure has        *)
(* changed nothing on the card.                                             *)
(***************************************************************************)
THEOREM RequestsAreTrue == Spec => []RequestTrue
<1>1. Spec => []Inv
  BY InvInit, InvNext, PTL DEF Spec
<1> QED
  BY <1>1, InvTrue, PTL

-----------------------------------------------------------------------------
(* RemoteIo implements SdStore: the operators *)

(* A path of length one, its directory and its prefixes. *)
LEMMA ShortPaths ==
  /\ \A p : <<p>> # <<>> /\ <<p>>[1] = p /\ Store!Front(<<p>>) = <<>>
  /\ \A p, q : <<p>> = <<q>> <=> p = q
  /\ \A p, q : Store!IsPrefix(<<p>>, <<q>>) <=> p = q
<1>1. ASSUME NEW p PROVE <<p>> # <<>> /\ <<p>>[1] = p /\ Store!Front(<<p>>) = <<>> /\ SubSeq(<<p>>, 1, 1) = <<p>>
  <2>1. <<p>> \in Seq({p}) /\ Len(<<p>>) = 1 /\ <<p>>[1] = p
    OBVIOUS
  <2>2. SubSeq(<<p>>, 1, 0) = <<>>
    BY <2>1, SubSeqProperties, EmptySeq
  <2>3. SubSeq(<<p>>, 1, 1) = <<p>>
    <3>1. PICK s : s = <<p>>
      OBVIOUS
    <3>2. s \in Seq({p}) /\ Len(s) = 1 /\ \A i \in 1 .. 1 : s[i] \in {p}
      BY <3>1
    <3>3. /\ SubSeq(s, 1, 1) \in Seq({p}) /\ Len(SubSeq(s, 1, 1)) = 1
          /\ \A i \in 1 .. 1 : SubSeq(s, 1, 1)[i] = s[1 + i - 1]
      BY <3>2, SubSeqProperties
    <3>4. \A i \in 1 .. 1 : SubSeq(s, 1, 1)[i] = s[i]
      BY <3>3
    <3>5. SubSeq(s, 1, 1) = s
      BY <3>2, <3>3, <3>4, SeqEqual
    <3> QED
      BY <3>1, <3>5
  <2> QED
    BY <2>1, <2>2, <2>3 DEF Store!Front
<1>2. ASSUME NEW p, NEW q PROVE <<p>> = <<q>> <=> p = q
  OBVIOUS
<1>3. ASSUME NEW p, NEW q PROVE Store!IsPrefix(<<p>>, <<q>>) <=> p = q
  <2>1. Len(<<p>>) = 1 /\ Len(<<q>>) = 1 /\ SubSeq(<<p>>, 1, 1) = <<p>> /\ SubSeq(<<q>>, 1, 1) = <<q>>
    BY <1>1
  <2> QED
    BY <1>2, <2>1 DEF Store!IsPrefix
<1> QED
  BY <1>1, <1>2, <1>3

(* What the card of SdStore holds. *)
LEMMA TreeFacts ==
  ASSUME NEW f \in FsType
  PROVE  /\ DOMAIN Tree(f) = {<<p>> : p \in Paths}
         /\ \A p \in Paths : Tree(f)[<<p>>] = f[p] /\ Store!Kind(Tree(f), <<p>>) = f[p].kind
         /\ Store!Kind(Tree(f), <<>>) = "dir"
         /\ \A p : Store!Children(Tree(f), <<p>>) = {}
         /\ Store!Children(Tree(f), <<>>) = {<<p>> : p \in Entries(f)}
<1>1. DOMAIN Tree(f) = {<<p>> : p \in Paths}
  BY DEF Tree
<1>2. ASSUME NEW p \in Paths PROVE <<p>> \in DOMAIN Tree(f) /\ Tree(f)[<<p>>] = f[p]
  BY ShortPaths DEF Tree
<1> DEFINE T == Tree(f)
<1> HIDE DEF T
<1>3. \A p \in Paths : Store!Kind(T, <<p>>) = f[p].kind
  BY <1>2, ShortPaths DEF Store!Kind, T
<1>4. Store!Kind(T, <<>>) = "dir"
  BY DEF Store!Kind
<1>5. \A p : Store!Children(T, <<p>>) = {}
  BY <1>1, ShortPaths DEF Store!Children, T
<1>6. Store!Children(T, <<>>) = {<<p>> : p \in Entries(f)}
  BY <1>1, <1>2, ShortPaths DEF Store!Children, T, Entries
<1> QED
  BY <1>1, <1>2, <1>3, <1>4, <1>5, <1>6 DEF T

(* The items of SdStore are those of RemoteIo. *)
LEMMA SameItemKinds == Store!None = None /\ Store!Dir = Dir /\ \A d : Store!File(d) = File(d)
  BY DEF Store!None, None, Store!Dir, Dir, Store!File, File

(* Renaming a child of the root. *)
LEMMA RenamedTree ==
  ASSUME NEW f \in FsType, NEW p \in Paths, NEW q \in Paths, p # q
  PROVE  Store!Renamed(Tree(f), <<p>>, <<q>>) = Tree([f EXCEPT ![p] = None, ![q] = f[p]])
<1> DEFINE g == [f EXCEPT ![p] = None, ![q] = f[p]]
           D == {<<z>> : z \in Paths}
           old(x) == <<p>> \o SubSeq(x, Len(<<q>>) + 1, Len(x))
           r == [x \in D |-> IF Store!IsPrefix(<<q>>, x) THEN IF old(x) \in D THEN Tree(f)[old(x)] ELSE Store!None
                             ELSE IF Store!IsPrefix(<<p>>, x) THEN Store!None ELSE Tree(f)[x]]
<1>1. DOMAIN Tree(f) = D
  BY TreeFacts
<1>2. Store!Renamed(Tree(f), <<p>>, <<q>>) = r
  BY <1>1, Zenon DEF Store!Renamed
<1>3. ASSUME NEW z \in Paths PROVE r[<<z>>] = g[z]
  <2>1. <<z>> \in D
    OBVIOUS
  <2>2. CASE z = q
    <3>1. old(<<z>>) = <<p>>
      <4>1. Len(<<z>>) = 1 /\ Len(<<q>>) = 1 /\ <<z>> \in Seq({z})
        OBVIOUS
      <4>2. SubSeq(<<z>>, 2, 1) = <<>>
        BY <4>1, SubSeqProperties, EmptySeq
      <4>3. <<p>> \o <<>> = <<p>>
        <5>1. <<p>> \in Seq({p})
          OBVIOUS
        <5> QED
          BY <5>1, ConcatEmptySeq
      <4>4. SubSeq(<<z>>, Len(<<q>>) + 1, Len(<<z>>)) = <<>>
        BY <4>1, <4>2
      <4> QED
        BY <4>3, <4>4
    <3>2. <<p>> \in D /\ Tree(f)[<<p>>] = f[p]
      BY TreeFacts
    <3>3. Store!IsPrefix(<<q>>, <<z>>)
      BY <2>2, ShortPaths
    <3> HIDE DEF old, D
    <3>4. r[<<z>>] = f[p]
      BY <2>1, <3>1, <3>2, <3>3
    <3> QED
      BY <2>2, <3>4 DEF FsType
  <2>3. CASE z # q
    <3>1. ~Store!IsPrefix(<<q>>, <<z>>) /\ (Store!IsPrefix(<<p>>, <<z>>) <=> z = p) /\ Tree(f)[<<z>>] = f[z]
      <4>1. (Store!IsPrefix(<<q>>, <<z>>) <=> q = z) /\ (Store!IsPrefix(<<p>>, <<z>>) <=> p = z)
        BY ShortPaths
      <4>2. Tree(f)[<<z>>] = f[z]
        BY TreeFacts
      <4> QED
        BY <2>3, <4>1, <4>2, Zenon
    <3> HIDE DEF old, D
    <3>2. r[<<z>>] = IF z = p THEN None ELSE f[z]
      BY <2>1, <3>1, SameItemKinds
    <3> QED
      BY <2>3, <3>2 DEF FsType
  <2> QED
    BY <2>2, <2>3
<1>4. Tree(g) = [x \in D |-> g[x[1]]]
  BY DEF Tree
<1>5. r = [x \in D |-> g[x[1]]]
  <2>1. ASSUME NEW x \in D PROVE r[x] = g[x[1]]
    <3>1. PICK z \in Paths : x = <<z>>
      OBVIOUS
    <3> HIDE DEF r, g
    <3> QED
      BY <1>3, <3>1, ShortPaths
  <2> QED
    BY <2>1
<1> QED
  BY <1>2, <1>4, <1>5

(* Replacing a child of the root. *)
LEMMA ChangedTree ==
  ASSUME NEW f \in FsType, NEW p \in Paths, NEW x
  PROVE  [Tree(f) EXCEPT ![<<p>>] = x] = Tree([f EXCEPT ![p] = x])
<1> DEFINE D == {<<z>> : z \in Paths}
           g == [f EXCEPT ![p] = x]
           t == [Tree(f) EXCEPT ![<<p>>] = x]
<1>1. DOMAIN Tree(f) = D /\ Tree(f) = [y \in D |-> f[y[1]]] /\ Tree(g) = [y \in D |-> g[y[1]]]
  BY DEF Tree
<1>2. t = [y \in D |-> IF y = <<p>> THEN x ELSE Tree(f)[y]]
  BY <1>1
<1>3. ASSUME NEW y \in D PROVE (IF y = <<p>> THEN x ELSE Tree(f)[y]) = g[y[1]]
  <2>1. PICK z \in Paths : y = <<z>>
    OBVIOUS
  <2>2. y[1] = z /\ Tree(f)[y] = f[z] /\ (y = <<p>> <=> z = p)
    <3>1. Tree(f)[<<z>>] = f[z]
      BY TreeFacts
    <3>2. <<z>>[1] = z /\ (<<z>> = <<p>> <=> z = p)
      BY ShortPaths
    <3> QED
      BY <2>1, <3>1, <3>2
  <2>3. g[z] = IF z = p THEN x ELSE f[z]
    BY DEF FsType
  <2> HIDE DEF g
  <2> QED
    BY <2>2, <2>3
<1> HIDE DEF g, D, t
<1>4. [y \in D |-> IF y = <<p>> THEN x ELSE Tree(f)[y]] = [y \in D |-> g[y[1]]]
  BY <1>3
<1>5. t = Tree(g)
  BY <1>1, <1>2, <1>4
<1> QED
  BY <1>5 DEF g, t

(* What is asked of SdStore. *)
LEMMA AskedFacts ==
  /\ Asked.op = op /\ Asked.data = file /\ Asked.to = <<path2>>
  /\ op = "list" => Asked.path = <<>>
  /\ op # "list" => Asked.path = <<path>>
  BY DEF Asked

(* What the console can do, SdStore can do. *)
LEMMA StorePossible ==
  ASSUME fs0 \in FsType, op \in Ops, op # "raw" => path \in Paths /\ path2 \in Paths,
         (op = "rename") = (path # path2), Can
  PROVE  Store!Possible(Asked, Tree(fs0))
<1> DEFINE T == Tree(fs0)
           r == Asked
           room(p) == p \in DOMAIN T /\ Store!Kind(T, Store!Front(p)) = "dir"
<1>1. /\ r.op = op /\ r.data = file /\ r.to = <<path2>> /\ (op = "list" => r.path = <<>>)
      /\ (op # "list" => r.path = <<path>>)
  BY AskedFacts
<1>2. CASE op = "raw"
  BY <1>1, <1>2 DEF Store!Possible
<1>3. CASE op = "list"
  <2>1. Store!Kind(T, <<>>) = "dir"
    BY TreeFacts
  <2> QED
    BY <1>1, <1>3, <2>1 DEF Store!Possible
<1>4. CASE op \notin {"raw", "list"}
  <2>1. r.path = <<path>> /\ path \in Paths /\ path2 \in Paths
    BY <1>1, <1>4
  <2>2. /\ r.path # <<>> /\ Store!Kind(T, r.path) = fs0[path].kind /\ Store!Children(T, r.path) = {}
        /\ Store!Kind(T, r.to) = fs0[path2].kind
    <3>1. \A p \in Paths : Store!Kind(T, <<p>>) = fs0[p].kind /\ Store!Children(T, <<p>>) = {}
      BY TreeFacts
    <3>2. <<path>> # <<>>
      BY ShortPaths
    <3> HIDE DEF T, r
    <3> QED
      BY <1>1, <2>1, <3>1, <3>2
  <2>3. room(r.path) /\ room(r.to)
    <3>1. \A p \in Paths : <<p>> \in DOMAIN T /\ Store!Front(<<p>>) = <<>> /\ Store!Kind(T, <<>>) = "dir"
      <4>1. ASSUME NEW p \in Paths PROVE <<p>> \in DOMAIN T /\ Store!Kind(T, <<>>) = "dir"
        BY TreeFacts
      <4>2. \A p : Store!Front(<<p>>) = <<>>
        BY ShortPaths
      <4> QED
        BY <4>1, <4>2
    <3> HIDE DEF T, r
    <3> QED
      BY <1>1, <2>1, <3>1
  <2>4. op = "rename" => ~Store!IsPrefix(r.path, r.to)
    <3>1. Store!IsPrefix(<<path>>, <<path2>>) <=> path = path2
      BY ShortPaths
    <3>2. op = "rename" => path # path2
      OBVIOUS
    <3> HIDE DEF T, r
    <3> QED
      BY <1>1, <2>1, <3>1, <3>2
  <2>5. Possible(Code[op], path, path2, fs0)
    BY <1>4 DEF Can
  <2> HIDE DEF T, r, room
  <2>6. /\ op \in {"crc", "download"} => fs0[path].kind = "file"
        /\ op = "upload" => fs0[path].kind # "dir"
        /\ op = "mkdir" => fs0[path].kind = "none"
        /\ op = "remove" => fs0[path].kind # "none"
        /\ op = "rmdir" => fs0[path].kind = "dir"
        /\ op = "rename" => fs0[path].kind # "none" /\ fs0[path2].kind = "none"
    BY <2>5 DEF Possible, Code
  <2>7. op \in {"crc", "download", "upload", "mkdir", "remove", "rmdir", "rename"}
    BY <1>4 DEF Ops, Code
  <2>8. Store!Possible(r, T)
    BY <1>1, <1>4, <2>2, <2>3, <2>4, <2>6, <2>7 DEF Store!Possible, room
  <2> QED
    BY <2>8 DEF r, T
<1> QED
  BY <1>2, <1>3, <1>4

(* And does it with the same effect. *)
LEMMA StoreEffect ==
  ASSUME fs0 \in FsType, op \in Ops, op # "raw" => path \in Paths /\ path2 \in Paths,
         (op = "rename") = (path # path2)
  PROVE  Store!Effect(Asked, Tree(fs0)) = Tree(After)
<1>1. /\ Asked.op = op /\ Asked.data = file /\ Asked.to = <<path2>>
      /\ (op # "list" => Asked.path = <<path>>)
  BY AskedFacts
<1>2. CASE op \in {"remove", "rmdir"}
  <2>1. After = [fs0 EXCEPT ![path] = None]
    BY <1>2 DEF After, Apply, Code
  <2>2. Store!Effect(Asked, Tree(fs0)) = [Tree(fs0) EXCEPT ![<<path>>] = None]
    BY <1>1, <1>2, SameItemKinds DEF Store!Effect
  <2> QED
    BY <1>2, <2>1, <2>2, ChangedTree
<1>3. CASE op = "mkdir"
  <2>1. After = [fs0 EXCEPT ![path] = Dir]
    BY <1>3 DEF After, Apply, Code
  <2>2. Store!Effect(Asked, Tree(fs0)) = [Tree(fs0) EXCEPT ![<<path>>] = Dir]
    BY <1>1, <1>3, SameItemKinds DEF Store!Effect
  <2> QED
    BY <1>3, <2>1, <2>2, ChangedTree
<1>4. CASE op = "upload"
  <2>1. After = [fs0 EXCEPT ![path] = File(file)]
    BY <1>4 DEF After
  <2>2. Store!Effect(Asked, Tree(fs0)) = [Tree(fs0) EXCEPT ![<<path>>] = File(file)]
    BY <1>1, <1>4, SameItemKinds DEF Store!Effect
  <2> QED
    BY <1>4, <2>1, <2>2, ChangedTree
<1>5. CASE op = "rename"
  <2>1. After = [fs0 EXCEPT ![path] = None, ![path2] = fs0[path]]
    BY <1>5 DEF After, Apply, Code
  <2>2. Store!Effect(Asked, Tree(fs0)) = Store!Renamed(Tree(fs0), <<path>>, <<path2>>)
    BY <1>1, <1>5 DEF Store!Effect
  <2> QED
    BY <1>5, <2>1, <2>2, RenamedTree
<1>6. CASE op \in {"list", "crc", "download", "raw"}
  <2>1. After = fs0
    BY <1>6 DEF After, Apply, Code
  <2>2. Store!Effect(Asked, Tree(fs0)) = Tree(fs0)
    BY <1>1, <1>6 DEF Store!Effect
  <2> QED
    BY <2>1, <2>2
<1>7. op \in {"remove", "rmdir", "mkdir", "upload", "rename", "list", "crc", "download", "raw"}
  BY DEF Ops, Code
<1> QED
  BY <1>2, <1>3, <1>4, <1>5, <1>6, <1>7

(* And answers the same. *)
LEMMA StoreAnswer ==
  ASSUME fs0 \in FsType, op # "raw" => path \in Paths
  PROVE  Store!Answer(Asked, Tree(fs0))
           = CASE op = "list" -> {<<p>> : p \in Entries(fs0)}
               [] op = "download" -> fs0[path].data
               [] OTHER -> <<>>
<1>1. Asked.op = op /\ (op = "list" => Asked.path = <<>>) /\ (op # "list" => Asked.path = <<path>>)
  BY AskedFacts
<1>2. CASE op = "list"
  BY <1>1, <1>2, TreeFacts DEF Store!Answer
<1>3. CASE op = "download"
  <2>1. Tree(fs0)[<<path>>] = fs0[path]
    BY <1>3, TreeFacts
  <2> QED
    BY <1>1, <1>3, <2>1 DEF Store!Answer
<1>4. CASE op \notin {"list", "download"}
  BY <1>1, <1>4 DEF Store!Answer
<1> QED
  BY <1>2, <1>3, <1>4

-----------------------------------------------------------------------------
(* RemoteIo implements SdStore: the steps *)

(* What a fresh request is to SdStore. *)
LEMMA StoreRequest ==
  ASSUME Types, fresh
  PROVE  /\ Can => Store!Possible(Asked, Tree(fs0))
         /\ Store!Effect(Asked, Tree(fs0)) = Tree(After)
         /\ Store!Answer(Asked, Tree(fs0))
              = CASE op = "list" -> {<<p>> : p \in Entries(fs0)}
                  [] op = "download" -> fs0[path].data
                  [] OTHER -> <<>>
         /\ op \in {"list", "raw"} => After = fs0
<1>1. /\ fs0 \in FsType /\ op \in Ops /\ (op # "raw" => path \in Paths /\ path2 \in Paths)
      /\ (op = "rename") = (path # path2)
  BY DEF Types, TypeOK, FsSound, Phases, Arguments
<1>2. op \in {"list", "raw"} => After = fs0
  BY DEF After, Apply, Code
<1> QED
  BY <1>1, <1>2, StorePossible, StoreEffect, StoreAnswer

(* A success that nothing casts doubt on is one of SdStore. *)
DoneWell ==
    fresh /\ hpc = "ready" /\ ~failed /\ ret = 1 =>
        /\ Store!Possible(Asked, Tree(fs0)) /\ Tree(fs) = Store!Effect(Asked, Tree(fs0))
        /\ Answered = Store!Answer(Asked, Tree(fs0))

(* The invariant says so, by what the operators of the two modules have in common. *)
LEMMA Done == Inv => DoneWell
<1> SUFFICES ASSUME Inv, fresh, hpc = "ready", ~failed, ret = 1
             PROVE  /\ Store!Possible(Asked, Tree(fs0)) /\ Tree(fs) = Store!Effect(Asked, Tree(fs0))
                    /\ Answered = Store!Answer(Asked, Tree(fs0))
  BY DEF DoneWell
<1>1. Types /\ Can /\ Effect
  BY Ended DEF Inv, EndedWell
<1>2. fs = After
  BY <1>1 DEF Effect, After, Apply, Code
<1>3. CASE op = "list"
  BY <1>1, <1>2, <1>3, StoreRequest DEF Effect, Answered
<1>4. CASE op = "download"
  <2>1. fs0[path].data = local
    BY <1>1, <1>4 DEF Effect, File
  <2> QED
    BY <1>1, <1>2, <1>4, <2>1, StoreRequest DEF Answered
<1>5. CASE op \notin {"list", "download"}
  BY <1>1, <1>2, <1>5, StoreRequest DEF Answered
<1> QED
  BY <1>3, <1>4, <1>5

(* While a listing is read it holds only entries of the card. *)
LEMMA ListingSound ==
  ASSUME Inv, fresh, hpc # "ready", op = "list"
  PROVE  listing \subseteq Entries(fs0)
<1>1. Types /\ Track /\ ~failed
  BY DEF Inv, Types, Phases
<1>2. CASE hpc = "next"
  <2>1. \E n \in 0 .. Len(Unread) : Packets(n)
    BY <1>1, <1>2 DEF Track, Asking, Uploading, Over, Answering, Refusing
  <2> QED
    BY <2>1 DEF Packets
<1>3. CASE hpc # "next"
  <2>1. listing = {}
    BY <1>1, <1>3 DEF Types, TypeOK, Phases
  <2> QED
    BY <2>1
<1> QED
  BY <1>2, <1>3

(* The end of a request is a Succeed or a Fail. *)
LEMMA FinishStore ==
  ASSUME Inv, Inv', hpc # "ready", hpc' = "ready", UNCHANGED <<op, path, path2, file, fs, fs0, fresh>>,
         failed' => listing' = listing
  PROVE  Store!Succeed \/ Store!Fail
<1>1. /\ Tree(fs)' = Tree(fs) /\ Tree(fs0)' = Tree(fs0) /\ Asked' = Asked /\ fresh' = fresh
      /\ Can' = Can /\ After' = After
  BY SameRequest DEF Tree, Asked
<1>2. ret' \in {0, 1} /\ Types /\ Types' /\ (fresh => Track')
  BY DEF Inv, Types, TypeOK
<1>3. CASE ret' = 0
  <2>1. fresh /\ ~failed' => fs' = fs0'
    <3> SUFFICES ASSUME fresh, ~failed' PROVE fs' = fs0'
      OBVIOUS
    <3>1. (ret = 0 /\ fs = fs0)' \/ (ret = 1 /\ Can /\ Effect)'
      <4>1. EndedWell'
        BY Ended, PTL
      <4> QED
        BY <4>1 DEF EndedWell
    <3> QED
      BY <1>3, <3>1
  <2>2. fresh /\ ~failed' => Tree(fs) = Tree(fs0)
    BY <2>1
  <2> QED
    BY <1>1, <1>3, <2>2 DEF Store!Fail
<1>4. CASE ret' = 1
  <2>1. CASE ~fresh
    BY <1>1, <1>4, <2>1 DEF Store!Succeed
  <2>2. CASE fresh /\ ~failed'
    <3>1. /\ Store!Possible(Asked, Tree(fs0))' /\ Tree(fs)' = Store!Effect(Asked, Tree(fs0))'
          /\ Answered' = Store!Answer(Asked, Tree(fs0))'
      <4>1. DoneWell'
        BY Done, PTL
      <4> QED
        BY <1>4, <2>2, <4>1 DEF DoneWell
    <3>2. /\ Store!Possible(Asked, Tree(fs0)) /\ Tree(fs) = Store!Effect(Asked, Tree(fs0))
          /\ Answered' = Store!Answer(Asked, Tree(fs0))
      <4>1. Store!Possible(Asked', Tree(fs0)') <=> Store!Possible(Asked, Tree(fs0))
        BY <1>1
      <4>2. /\ Store!Effect(Asked', Tree(fs0)') = Store!Effect(Asked, Tree(fs0))
            /\ Store!Answer(Asked', Tree(fs0)') = Store!Answer(Asked, Tree(fs0))
        BY <1>1
      <4> QED
        BY <1>1, <3>1, <4>1, <4>2
    <3>3. ~cut'
      BY <1>2, <2>2 DEF Types, Phases
    <3> QED
      BY <1>1, <1>4, <2>2, <3>2, <3>3 DEF Store!Succeed
  <2>3. CASE fresh /\ failed'
    <3>1. op \in {"list", "raw"}
      BY <1>2, <1>4, <2>3 DEF Types, Phases
    <3>2. fs = fs0
      <4>1. After = fs0
        BY <1>2, <2>3, <3>1, StoreRequest
      <4> QED
        BY <1>1, <1>2, <2>3, <3>1, <4>1 DEF Track, Asking, Uploading, Over
    <3>3. Tree(fs) = Tree(fs0) /\ Store!Effect(Asked, Tree(fs0)) = Tree(fs0)
      BY <1>2, <2>3, <3>1, <3>2, StoreRequest
    <3>4. op = "list" => Answered' \subseteq Store!Answer(Asked, Tree(fs0))
      <4> SUFFICES ASSUME op = "list" PROVE Answered' \subseteq Store!Answer(Asked, Tree(fs0))
        OBVIOUS
      <4>1. Answered' = {<<p>> : p \in listing}
        BY <2>3 DEF Answered
      <4>2. listing \subseteq Entries(fs0)
        BY <2>3, ListingSound
      <4>3. Store!Answer(Asked, Tree(fs0)) = {<<p>> : p \in Entries(fs0)}
        BY <1>2, <2>3, StoreRequest
      <4> QED
        BY <4>1, <4>2, <4>3
    <3>5. Asked.op = op
      BY AskedFacts
    <3> QED
      BY <1>1, <1>4, <2>3, <3>1, <3>3, <3>4, <3>5 DEF Store!Succeed
  <2> QED
    BY <2>1, <2>2, <2>3
<1> QED
  BY <1>2, <1>3, <1>4

(* A request that goes on: nothing that SdStore sees has changed. *)
LEMMA WaitStore ==
  ASSUME hpc # "ready", hpc' # "ready", UNCHANGED <<op, path, path2, file, fs, fs0, fresh, ret>>
  PROVE  UNCHANGED Store!vars
<1>1. Tree(fs)' = Tree(fs) /\ Tree(fs0)' = Tree(fs0) /\ Asked' = Asked /\ Answered' = Answered
  BY DEF Tree, Asked, Answered
<1>2. (hpc # "ready")' = (hpc # "ready")
  OBVIOUS
<1>3. (hpc = "ready" /\ ~failed /\ ~cut)' = (hpc = "ready" /\ ~failed /\ ~cut)
  OBVIOUS
<1> QED
  BY <1>1, <1>2, <1>3 DEF Store!vars

(* A step of the console changes at most the card. *)
LEMMA ConsoleStore ==
  ASSUME UNCHANGED <<hpc, op, path, path2, file, listing, local, ret, failed, cut, fresh, fs0>>
  PROVE  /\ UNCHANGED <<Tree(fs0), Asked, hpc # "ready", fresh, hpc = "ready" /\ ~failed /\ ~cut, ret, Answered>>
         /\ fs' = fs => UNCHANGED Store!vars
<1>1. Tree(fs0)' = Tree(fs0) /\ Asked' = Asked /\ Answered' = Answered
  BY DEF Tree, Asked, Answered
<1>2. (hpc # "ready")' = (hpc # "ready")
  OBVIOUS
<1>3. (hpc = "ready" /\ ~failed /\ ~cut)' = (hpc = "ready" /\ ~failed /\ ~cut)
  OBVIOUS
<1>4. fs' = fs => Tree(fs)' = Tree(fs)
  BY DEF Tree
<1> QED
  BY <1>1, <1>2, <1>3, <1>4 DEF Store!vars

(* A request begins, in step if the one before it ended well. *)
LEMMA BeginStore ==
  ASSUME Inv, NEW purge \in BOOLEAN, Begin(purge)
  PROVE  Store!Begin
<1> USE DEF console, link
<1>1. hpc = "ready" /\ hpc' = "request" /\ fs' = fs /\ fs0' = fs /\ ret' = 0
  BY DEF Begin
<1>2. Tree(fs)' = Tree(fs) /\ Tree(fs0)' = Tree(fs)
  BY <1>1 DEF Tree
<1>3. fresh /\ ~failed => fresh'
  <2> SUFFICES ASSUME fresh, ~failed PROVE fresh'
    OBVIOUS
  <2>1. Given = <<>> /\ Unread = <<>> /\ dpc = "request"
    BY <1>1, Ended DEF EndedWell
  <2>2. din = <<>> /\ toDev = <<>> /\ fromDev = <<>> /\ dout = <<>>
    BY <2>1, LinkFacts DEF Inv, Types
  <2>3. toDev' = <<>> /\ fromDev' = <<>>
    BY <2>2 DEF Begin
  <2> QED
    BY <2>1, <2>2, <2>3 DEF Begin
<1> QED
  BY <1>1, <1>2, <1>3 DEF Store!Begin

(* What the host does is the end of the request, or is not seen. *)
LEMMA HostStore ==
  ASSUME Inv, Inv', HostStep
  PROVE  Store!Succeed \/ Store!Fail \/ UNCHANGED Store!vars
<1> USE DEF request, answer, console, history
<1>1. hpc # "ready"
  BY DEF HostStep, WriteAllToDevice, WriteFails, ReadReply, ReadData, ReadChecksum, ReadResult,
         ReadTimeout, ReadFails, ReadInterrupted, Waiting
<1>2. UNCHANGED <<op, path, path2, file, fs, fs0, fresh>>
  BY DEF HostStep, WriteAllToDevice, WriteFails, ReadReply, ReadData, ReadChecksum, ReadResult,
         ReadTimeout, ReadFails, ReadInterrupted, GiveUp
<1>3. failed' => listing' = listing
  <2>1. CASE ReadReply
    <3>1. failed' = failed /\ hpc \in {"reply", "next"}
      BY <2>1 DEF ReadReply
    <3>2. ~failed
      BY <3>1 DEF Inv, Types, Phases
    <3> QED
      BY <3>1, <3>2
  <2>2. CASE ~ReadReply
    BY <2>2 DEF HostStep, WriteAllToDevice, WriteFails, ReadData, ReadChecksum, ReadResult,
                ReadTimeout, ReadFails, ReadInterrupted, GiveUp
  <2> QED
    BY <2>1, <2>2
<1>4. CASE hpc' = "ready"
  BY <1>1, <1>2, <1>3, <1>4, FinishStore
<1>5. CASE hpc' # "ready"
  <2>1. ret' = ret
    <3>1. CASE ReadReply
      BY <1>5, <3>1 DEF ReadReply, Accepted, ListPacket, UploadAccepted, DownloadAccepted, CommandAccepted, Finish
    <3>2. CASE ~ReadReply
      BY <1>5, <3>2 DEF HostStep, WriteAllToDevice, WriteFails, ReadData, ReadChecksum, ReadResult,
                        ReadTimeout, ReadFails, ReadInterrupted, GiveUp, Finish
    <3> QED
      BY <3>1, <3>2
  <2> QED
    BY <1>1, <1>2, <1>5, <2>1, WaitStore
<1> QED
  BY <1>4, <1>5

(* The console carries a request out: Commit, or Stray when the link is out of step. *)
LEMMA CommitStore ==
  ASSUME Inv, UNCHANGED <<hpc, op, path, path2, file, listing, local, ret, failed, cut, fresh, fs0>>,
         fresh => fs' = fs \/ (fs = fs0 /\ Can /\ fs' = After /\ (~failed => hpc # "ready"))
  PROVE  Store!Commit \/ Store!Stray \/ UNCHANGED Store!vars
<1>1. /\ UNCHANGED <<Tree(fs0), Asked, hpc # "ready", fresh, hpc = "ready" /\ ~failed /\ ~cut, ret, Answered>>
      /\ fs' = fs => UNCHANGED Store!vars
  BY ConsoleStore
<1>2. CASE ~fresh
  BY <1>1, <1>2, Zenon DEF Store!Stray
<1>3. CASE fs' = fs
  BY <1>1, <1>3
<1>4. CASE fresh /\ fs = fs0 /\ Can /\ fs' = After /\ (~failed => hpc # "ready")
  <2>1. Store!Possible(Asked, Tree(fs0)) /\ Store!Effect(Asked, Tree(fs0)) = Tree(After)
    BY <1>4, StoreRequest DEF Inv
  <2>2. Tree(fs) = Tree(fs0) /\ Store!Possible(Asked, Tree(fs)) /\ Store!Effect(Asked, Tree(fs)) = Tree(After)
    BY <1>4, <2>1
  <2>3. Tree(fs)' = Tree(After)
    BY <1>4 DEF Tree
  <2>4. hpc # "ready" \/ ~(hpc = "ready" /\ ~failed /\ ~cut)
    BY <1>4
  <2>5. Tree(fs)' = Store!Effect(Asked, Tree(fs))
    BY <2>2, <2>3
  <2> QED
    BY <1>1, <1>4, <2>2, <2>4, <2>5, Zenon DEF Store!Commit
<1> QED
  BY <1>2, <1>3, <1>4

(* The console's steps. *)
LEMMA ConsoleSteps ==
  ASSUME Inv, ConsoleStep
  PROVE  Store!Commit \/ Store!Stray \/ UNCHANGED Store!vars
<1> USE DEF request, answer, history, link
<1>1. UNCHANGED <<hpc, op, path, path2, file, listing, local, ret, failed, cut, fresh, fs0>>
  BY DEF ConsoleStep, Receive, Execute, SendListing, StoreUpload, Send
<1>2. CASE Receive \/ SendListing \/ Send
  <2>1. fs' = fs
    BY <1>2 DEF Receive, SendListing, Send
  <2> QED
    BY <1>1, <2>1, ConsoleStore
<1>3. CASE Execute
  <2>1. ASSUME fresh PROVE fs' = fs \/ (fs = fs0 /\ Can /\ fs' = After /\ (~failed => hpc # "ready"))
    <3>1. /\ op # "raw" /\ din[2] = Code[op] /\ din[3] = path /\ din[Len(din)] = path2
          /\ fs = fs0 /\ (~failed => hpc = "reply")
      BY <1>3, <2>1, ExecutesRequest DEF Inv
    <3>2. \/ fs' = fs
          \/ Possible(Code[op], path, path2, fs0) /\ fs' = Apply(Code[op], path, path2, fs0)
      BY <1>3, <3>1, Zenon DEF Execute
    <3>3. op = "upload" => Apply(Code[op], path, path2, fs0) = fs0
      BY DEF Apply, Code
    <3> QED
      BY <3>1, <3>2, <3>3 DEF Can, After
  <2> QED
    BY <1>1, <2>1, CommitStore
<1>4. CASE StoreUpload
  <2>1. ASSUME fresh PROVE fs' = fs \/ (fs = fs0 /\ Can /\ fs' = After /\ (~failed => hpc # "ready"))
    BY <1>4, <2>1, StoreTrack DEF Inv
  <2> QED
    BY <1>1, <2>1, CommitStore
<1> QED
  BY <1>2, <1>3, <1>4 DEF ConsoleStep

(***************************************************************************)
(* The byte protocol of xfer.cpp implements SdStore, for every card and     *)
(* every behaviour of link and host: a request takes effect at most once,   *)
(* as a whole, before its success is reported and also after its caller     *)
(* gave up; a request that ended well leaves the link in step for the       *)
(* next.                                                                    *)
(***************************************************************************)
THEOREM RemoteIoImplementsStore == Spec => ImplementsStore
<1>1. Init => Store!StoreInit
  <2> SUFFICES ASSUME Init PROVE Store!StoreInit
    OBVIOUS
  <2>1. hpc = "ready" /\ fs = fs0 /\ ~failed /\ ~cut
    BY DEF Init
  <2> QED
    BY <2>1 DEF Store!StoreInit
<1>2. Inv /\ Inv' /\ [Next]_vars =>
        [Store!Begin \/ Store!Commit \/ Store!Succeed \/ Store!Fail \/ Store!Stray]_(Store!vars)
  <2> SUFFICES ASSUME Inv, Inv', [Next]_vars
               PROVE  \/ Store!Begin \/ Store!Commit \/ Store!Succeed \/ Store!Fail \/ Store!Stray
                      \/ UNCHANGED Store!vars
    OBVIOUS
  <2>1. CASE \E purge \in BOOLEAN : Begin(purge)
    BY <2>1, BeginStore
  <2>2. CASE HostStep
    BY <2>2, HostStore
  <2>3. CASE Signal
    <3>1. UNCHANGED <<hpc, op, path, path2, file, listing, local, ret, failed, cut, fresh, fs, fs0>>
      BY <2>3 DEF Signal, request, answer, console, history
    <3> QED
      BY <3>1, ConsoleStore
  <2>4. CASE ConsoleStep
    BY <2>4, ConsoleSteps
  <2>5. CASE UNCHANGED vars
    <3>1. UNCHANGED <<hpc, op, path, path2, file, listing, local, ret, failed, cut, fresh, fs, fs0>>
      BY <2>5 DEF vars, request, answer, console, history
    <3> QED
      BY <3>1, ConsoleStore
  <2> QED
    BY <2>1, <2>2, <2>3, <2>4, <2>5 DEF Next
<1>3. Spec => []Inv
  BY InvInit, InvNext, PTL DEF Spec
<1> QED
  BY <1>1, <1>2, <1>3, PTL DEF Spec, ImplementsStore, Store!StoreSpec

=============================================================================
