------------------------------ MODULE RemoteIo ------------------------------
(***************************************************************************)
(* The SD-card commands of xfer.cpp: the Remote I/O requests (list,        *)
(* remove, rename, mkdir, rmdir, crc, upload to and download from the FAT  *)
(* file system) and the raw-sector upload of DoSdUpload.                   *)
(*                                                                         *)
(* A host process may send one request after the other over the same link: *)
(* InitComms purges the link once, when the process starts, and nothing    *)
(* purges it between the requests of the WebDAV server or of DoSdSync.     *)
(* Requests carry no number, so an answer belongs to whoever reads it.     *)
(*                                                                         *)
(* Abstractions.  A link item is one value of 0 .. Width-1; it stands for  *)
(* a byte, for the 4-byte magic, for a 16- or 32-bit length, for a path or *)
(* for a listing line.  A header is magic, code, length.  A write loop     *)
(* either puts its whole buffer on the link or fails after a prefix, which *)
(* is all that the console can see of its retries.  Local files do not     *)
(* change while they are sent.  The console's side is not part of the      *)
(* repository: it is modelled from what the host sends and expects.        *)
(***************************************************************************)
EXTENDS Integers, Sequences

CONSTANTS
    Width,        \* number of values of a link item
    Paths,        \* paths on the SD card
    Sectors,      \* start sectors of raw uploads
    Contents,     \* contents of the files that users upload
    InitialFs,    \* contents of the SD card at the start
    Crc(_),       \* CRC of a sequence of items, from the initial value 0
    Chunk,        \* size of the buffer of DoSdDownload
    MaxRequests   \* bound: number of requests in a behaviour

Item == 0 .. (Width - 1)

(* REMOTE_IO_MAGIC, RemoteIoCommand, RemoteIoStatus, cmd of the raw upload. *)
MAGIC == 83
Code == [list |-> 1, remove |-> 2, crc |-> 3, upload |-> 4, mkdir |-> 5,
         rmdir |-> 6, rename |-> 7, download |-> 8, raw |-> 16]
Status == [OK |-> 0, ERR |-> 1, UNSUPPORTED |-> 2, BAD_REQUEST |-> 3]

(* What a path of the SD card holds. *)
None == [kind |-> "none", data |-> << >>]
Dir  == [kind |-> "dir",  data |-> << >>]
File(d) == [kind |-> "file", data |-> d]

ASSUME ItemAssumption ==
    /\ Width \in Nat /\ Width > MAGIC
    /\ Paths \subseteq Item /\ Sectors \subseteq Item
    /\ \A d \in Contents : d \in Seq(Item) /\ Len(d) < Width

ASSUME FsAssumption ==
    InitialFs \in [Paths -> {None, Dir} \cup {File(d) : d \in Contents}]

ASSUME BoundAssumption == Chunk \in Nat \ {0} /\ MaxRequests \in Nat

(* crc_t is an unsigned char, and starts as 0. *)
Checksum(s) == IF Crc(s) \in Item THEN Crc(s) ELSE 0

ASSUME ChecksumAssumption == Checksum(<< >>) = 0

VARIABLES
    (* the host process *)
    hpc,        \* where it is
    op,         \* the request
    path,       \* its path, or sector
    path2,      \* new path of a rename
    file,       \* contents of the local file that is uploaded
    listing,    \* out_listing
    need,       \* file_size announced by the console
    local,      \* contents of the local file that is downloaded
    ret,        \* value returned by the last request
    interrupt,  \* ftdi::g_interrupt_flag
    requests,   \* number of requests so far
    (* the FTDI chip *)
    toDev,
    fromDev,
    (* the console *)
    dpc,        \* what it expects or does
    din,        \* items of the request received so far
    dpath,      \* path of the upload in progress
    dlist,      \* entries of the listing still to be sent
    dout,       \* items of the answer still to be sent
    fs,         \* the FAT file system
    sd,         \* data written to raw sectors
    (* history *)
    fresh,      \* the console was ready and the link empty when the request began
    failed,     \* a call failed, timed out or was interrupted during the request
    cut,        \* a listing was taken for complete while the console was sending it
    fs0         \* fs when the request began

request == <<op, path, path2, file, requests>>
answer == <<listing, need, local>>
link == <<toDev, fromDev>>
console == <<dpc, din, dpath, dlist, dout, fs, sd>>
history == <<fresh, failed, cut, fs0>>
vars == <<hpc, request, answer, ret, interrupt, link, console, history>>

Ops == DOMAIN Code

-----------------------------------------------------------------------------
(* The host. *)

SendRemoteIoCommand == <<MAGIC, Code[op], path>>

SendRemoteIoRenameCommand == <<MAGIC, Code.rename, path, path2>>

(* The raw upload; the display name that it also sends is left out. *)
RawUpload == <<Code.raw, path, Len(file)>> \o Append(file, Checksum(file))

Request ==
    CASE op = "rename" -> SendRemoteIoRenameCommand
      [] op = "raw"    -> RawUpload
      [] OTHER         -> SendRemoteIoCommand

(* DoSdUpload, after the console accepted: size, data, checksum. *)
Body == <<Len(file)>> \o Append(file, Checksum(file))

(***************************************************************************)
(* A request begins, in the same process (WebDAV, sync) or in a new one,   *)
(* whose InitComms purges the link.  --crc and the raw upload are only     *)
(* commands of the command line.                                           *)
(***************************************************************************)
Begin(purge) ==
    /\ hpc = "ready"
    /\ requests < MaxRequests
    /\ requests' = requests + 1
    /\ op' \in (IF purge THEN Ops ELSE Ops \ {"crc", "raw"})
    /\ path' \in (IF op' = "raw" THEN Sectors ELSE Paths)
    /\ path2' \in (IF op' = "rename" THEN Paths \ {path'} ELSE {path'})
    /\ file' \in (IF op' \in {"upload", "raw"} THEN Contents ELSE {<< >>})
    /\ hpc' = "request"
    /\ listing' = {} /\ need' = 0 /\ local' = << >> /\ ret' = 0
    /\ IF purge
       THEN toDev' = << >> /\ fromDev' = << >> /\ interrupt' = FALSE
       ELSE UNCHANGED <<link, interrupt>>
    /\ fresh' = (/\ dpc = "request" /\ din = << >> /\ dout = << >>
                 /\ toDev' = << >> /\ fromDev' = << >>)
    /\ failed' = FALSE
    /\ cut' = FALSE
    /\ fs0' = fs
    /\ UNCHANGED console

Finish(r) ==
    /\ hpc' = "ready"
    /\ ret' = r

(* What the host is writing, if it is writing. *)
Outgoing == IF hpc = "request" THEN Request ELSE Body

AfterWrite == IF hpc = "request" /\ op # "raw" THEN "reply" ELSE "result"

(* WriteAllToDevice, or write_all of the raw upload. *)
WriteAllToDevice ==
    /\ hpc \in {"request", "body"}
    /\ ~interrupt
    /\ toDev' = toDev \o Outgoing
    /\ hpc' = AfterWrite
    /\ UNCHANGED <<request, answer, ret, interrupt, fromDev, console, history>>

(***************************************************************************)
(* A write error, a local file that cannot be opened or read, or Ctrl+C,   *)
(* after some prefix.  The raw upload's write_all returns true when it is  *)
(* interrupted and the upload goes on to read the result.                  *)
(***************************************************************************)
WriteFails ==
    /\ hpc \in {"request", "body"}
    /\ \E k \in 0 .. Len(Outgoing) : toDev' = toDev \o SubSeq(Outgoing, 1, k)
    /\ \/ Finish(0)
       \/ op = "raw" /\ interrupt /\ hpc' = "result" /\ UNCHANGED ret
    /\ failed' = TRUE
    /\ UNCHANGED <<request, answer, interrupt, fromDev, console, fresh, cut, fs0>>

(* ReadExactFromDevice succeeds: n items are there. *)
Read(n) ==
    /\ ~interrupt
    /\ Len(fromDev) >= n
    /\ fromDev' = SubSeq(fromDev, n + 1, Len(fromDev))

(* Mutant of Wanted: the last chunk of a download is read as a full one. *)
WantedFullChunk ==
    CASE hpc \in {"reply", "next"} ->
           3 + (IF Len(fromDev) >= 3 /\ fromDev[1] = MAGIC THEN fromDev[3] ELSE 0)
      [] hpc = "data" /\ Len(local) < need -> Chunk
      [] OTHER -> 1

(* The items that the read in progress waits for. *)
Wanted ==
    CASE hpc \in {"reply", "next"} ->
           3 + (IF Len(fromDev) >= 3 /\ fromDev[1] = MAGIC THEN fromDev[3] ELSE 0)
      [] hpc = "data" /\ Len(local) < need ->
           IF need - Len(local) < Chunk THEN need - Len(local) ELSE Chunk
      [] OTHER -> 1

(* A packet of DoList or DoListStr; an empty one is the end of the listing. *)
ListPacket(payload) ==
    /\ listing' = listing \cup {payload[i] : i \in 1 .. Len(payload)}
    /\ IF payload = << >> THEN Finish(1) ELSE hpc' = "next" /\ UNCHANGED ret
    /\ UNCHANGED <<need, local>>

(* DoSdDownload: the payload is the size of the file. *)
DownloadAccepted(payload) ==
    /\ IF payload = << >>
       THEN Finish(0) /\ UNCHANGED need
       ELSE hpc' = "data" /\ need' = payload[1] /\ UNCHANGED ret
    /\ UNCHANGED <<listing, local>>

UploadAccepted ==
    /\ hpc' = "body"
    /\ UNCHANGED <<answer, ret>>

(* ExecuteRemoteIoCommand, ExecuteRemoteIoRenameCommand. *)
CommandAccepted ==
    /\ Finish(1)
    /\ UNCHANGED answer

(* What follows a reply with status OK and this payload. *)
Accepted(payload) ==
    CASE op = "list"     -> ListPacket(payload)
      [] op = "upload"   -> UploadAccepted
      [] op = "download" -> DownloadAccepted(payload)
      [] OTHER           -> CommandAccepted

(* Mutant of ReadReply: the status of the reply is not looked at. *)
ReadReplyAnyStatus ==
    /\ hpc \in {"reply", "next"}
    /\ Len(fromDev) >= 3
    /\ Read(Wanted)
    /\ IF fromDev[1] = MAGIC
       THEN Accepted(SubSeq(fromDev, 4, 3 + fromDev[3]))
       ELSE Finish(0) /\ UNCHANGED answer
    /\ UNCHANGED <<request, interrupt, toDev, console, history>>

(* TryReadRemoteIoReply, and what its callers do with the reply. *)
ReadReply ==
    /\ hpc \in {"reply", "next"}
    /\ Len(fromDev) >= 3
    /\ Read(Wanted)
    /\ IF fromDev[1] = MAGIC /\ fromDev[2] = Status.OK
       THEN Accepted(SubSeq(fromDev, 4, 3 + fromDev[3]))
       ELSE Finish(0) /\ UNCHANGED answer
    /\ UNCHANGED <<request, interrupt, toDev, console, history>>

(* One chunk of DoSdDownload. *)
ReadData ==
    /\ hpc = "data"
    /\ Len(local) < need
    /\ Read(Wanted)
    /\ local' = local \o SubSeq(fromDev, 1, Wanted)
    /\ UNCHANGED <<hpc, request, listing, need, ret, interrupt, toDev, console, history>>

(* Mutant of ReadChecksum: the console's checksum is not read. *)
ReadChecksumSkipped ==
    /\ hpc = "data"
    /\ Len(local) = need
    /\ Finish(1)
    /\ UNCHANGED <<request, answer, interrupt, link, console, history>>

ReadChecksum ==
    /\ hpc = "data"
    /\ Len(local) = need
    /\ Read(1)
    /\ Finish(IF fromDev[1] = Checksum(local) THEN 1 ELSE 0)
    /\ UNCHANGED <<request, answer, interrupt, toDev, console, history>>

(* Mutant of ReadResult: the test of the result byte is inverted. *)
ReadResultInverted ==
    /\ hpc = "result"
    /\ Read(1)
    /\ Finish(IF fromDev[1] = 0 THEN 0 ELSE 1)
    /\ UNCHANGED <<request, answer, interrupt, toDev, console, history>>

(***************************************************************************)
(* The result byte of an upload.  read_one of the raw upload reads once    *)
(* more after Ctrl+C, which may find the byte.                             *)
(***************************************************************************)
ReadResult ==
    /\ hpc = "result"
    /\ \/ Read(1)
       \/ op = "raw" /\ fromDev # << >> /\ fromDev' = Tail(fromDev)
    /\ Finish(IF fromDev[1] = 0 THEN 1 ELSE 0)
    /\ UNCHANGED <<request, answer, interrupt, toDev, console, history>>

(* The console has nothing to send and nothing to do. *)
Quiet == dout = << >> /\ dpc # "list" /\ toDev = << >>

(***************************************************************************)
(* A read ends before it has what it wants, with the items that were there *)
(* consumed.  Between the packets of a listing an incomplete header counts *)
(* as the end of the listing.                                              *)
(***************************************************************************)
GiveUp(k) ==
    /\ fromDev' = SubSeq(fromDev, k + 1, Len(fromDev))
    /\ Finish(IF hpc = "next" /\ k < 3 THEN 1 ELSE 0)
    /\ failed' = (failed \/ ~(hpc = "next" /\ k = 0 /\ fromDev = << >> /\ Quiet))
    /\ cut' = (hpc = "next" /\ k < 3 /\ ~(fromDev = << >> /\ Quiet))
    /\ UNCHANGED <<request, answer, interrupt, toDev, console, fresh, fs0>>

Waiting == hpc \in {"reply", "next", "data", "result"}

(* Mutant of ReadTimeout: only the header of a reply has a time limit. *)
ReadTimeoutHeader ==
    /\ hpc \in {"reply", "next"}
    /\ Len(fromDev) < 3
    /\ GiveUp(Len(fromDev))

(* max_idle_cycles reads in a row found nothing; read_one has no limit. *)
ReadTimeout ==
    /\ Waiting
    /\ op # "raw"
    /\ Len(fromDev) < Wanted
    /\ GiveUp(Len(fromDev))

(* A read error, Ctrl+C, or the local file of a download fails. *)
ReadFails ==
    /\ Waiting
    /\ op # "raw" \/ ~interrupt
    /\ \E k \in 0 .. Len(fromDev) :
         /\ k < Wanted \/ (k = Wanted /\ hpc = "data" /\ Len(local) < need)
         /\ GiveUp(k)

(***************************************************************************)
(* read_one of the raw upload returns true after Ctrl+C although nothing   *)
(* was read: result is uninitialised and may or may not be 0.              *)
(***************************************************************************)
ReadInterrupted ==
    /\ hpc = "result"
    /\ op = "raw"
    /\ interrupt
    /\ \E r \in {0, 1} : Finish(r)
    /\ failed' = TRUE
    /\ UNCHANGED <<request, answer, interrupt, link, console, fresh, cut, fs0>>

Signal ==
    /\ ~interrupt
    /\ hpc # "ready"
    /\ interrupt' = TRUE
    /\ UNCHANGED <<hpc, request, answer, ret, link, console, history>>

-----------------------------------------------------------------------------
(* The console's firmware (external). *)

(* Items of the request in din are complete. *)
Complete ==
    IF dpc = "upload"
    THEN Len(din) > 0 /\ Len(din) = din[1] + 2
    ELSE \/ Len(din) = 3 /\ din[1] = MAGIC /\ din[2] # Code.rename
         \/ Len(din) = 4 /\ din[1] = MAGIC
         \/ Len(din) > 2 /\ din[1] = Code.raw /\ Len(din) = din[3] + 4

(* Items that cannot begin a request are skipped. *)
Receive ==
    /\ dpc \in {"request", "upload"} /\ dout = << >> /\ ~Complete
    /\ toDev # << >>
    /\ toDev' = Tail(toDev)
    /\ din' = IF dpc = "request" /\ din = << >> /\ Head(toDev) \notin {MAGIC, Code.raw}
              THEN din ELSE Append(din, Head(toDev))
    /\ UNCHANGED <<hpc, request, answer, ret, interrupt, fromDev,
                   dpc, dpath, dlist, dout, fs, sd, history>>

Entries(f) == {p \in Paths : f[p].kind # "none"}

(* The file system after a request that changes it, if it is possible. *)
Possible(c, p, q, f) ==
    CASE c = Code.remove -> f[p].kind # "none"
      [] c = Code.rmdir  -> f[p].kind = "dir"
      [] c = Code.mkdir  -> f[p].kind = "none"
      [] c = Code.rename -> f[p].kind # "none" /\ f[q].kind = "none"
      [] c \in {Code.crc, Code.download} -> f[p].kind = "file"
      [] c = Code.upload -> f[p].kind # "dir"
      [] OTHER           -> c = Code.list

Apply(c, p, q, f) ==
    CASE c \in {Code.remove, Code.rmdir} -> [f EXCEPT ![p] = None]
      [] c = Code.mkdir  -> [f EXCEPT ![p] = Dir]
      [] c = Code.rename -> [f EXCEPT ![p] = None, ![q] = f[p]]
      [] OTHER           -> f

Payload(c, p) ==
    CASE c = Code.crc      -> <<MAGIC, Status.OK, 1, Checksum(fs[p].data)>>
      [] c = Code.download -> <<MAGIC, Status.OK, 1, Len(fs[p].data)>>
                                \o Append(fs[p].data, Checksum(fs[p].data))
      [] OTHER             -> <<MAGIC, Status.OK, 0>>

(* A Remote I/O request is executed, or refused for a reason of its own. *)
Execute ==
    /\ dpc = "request" /\ Complete /\ din[1] = MAGIC
    /\ LET c == din[2]
           p == din[3]
           q == din[Len(din)]
       IN \/ /\ {p, q} \subseteq Paths
             /\ Possible(c, p, q, fs)
             /\ fs' = Apply(c, p, q, fs)
             /\ dpc' = CASE c = Code.upload -> "upload"
                         [] c = Code.list /\ Entries(fs) # {} -> "list"
                         [] OTHER -> "request"
             /\ dpath' = p
             /\ dlist' = IF c = Code.list THEN Entries(fs) ELSE {}
             /\ dout' = IF dpc' = "list" THEN << >> ELSE Payload(c, p)
          \/ /\ \E s \in {Status.ERR, Status.UNSUPPORTED, Status.BAD_REQUEST} :
                   dout' = <<MAGIC, s, 0>>
             /\ UNCHANGED <<dpc, dpath, dlist, fs>>
    /\ din' = << >>
    /\ UNCHANGED <<hpc, request, answer, ret, interrupt, link, sd, history>>

(* The next packet of a listing, or its end, with or without a sentinel. *)
SendListing ==
    /\ dpc = "list" /\ dout = << >>
    /\ \/ \E p \in dlist :
            /\ dout' = <<MAGIC, Status.OK, 1, p>>
            /\ dlist' = dlist \ {p}
            /\ UNCHANGED dpc
       \/ /\ dlist = {}
          /\ dpc' = "request"
          /\ dout' \in {<< >>, <<MAGIC, Status.OK, 0>>}
          /\ UNCHANGED dlist
    /\ UNCHANGED <<hpc, request, answer, ret, interrupt, link, din, dpath, fs, sd, history>>

(* The data of an upload is complete: it is stored and verified. *)
StoreUpload ==
    /\ Complete
    /\ dpc = "upload" \/ din[1] = Code.raw
    /\ LET head == IF dpc = "upload" THEN 1 ELSE 3
           data == SubSeq(din, head + 1, Len(din) - 1)
       IN /\ dout' = IF din[Len(din)] = Checksum(data) THEN <<0>> ELSE <<1>>
          /\ IF dpc = "upload"
             THEN fs' = [fs EXCEPT ![dpath] = File(data)] /\ UNCHANGED sd
             ELSE /\ sd' = IF din[2] \in Sectors THEN [sd EXCEPT ![din[2]] = data] ELSE sd
                  /\ UNCHANGED fs
    /\ dpc' = "request"
    /\ din' = << >>
    /\ UNCHANGED <<hpc, request, answer, ret, interrupt, link, dpath, dlist, history>>

Send ==
    /\ dout # << >>
    /\ fromDev' = Append(fromDev, Head(dout))
    /\ dout' = Tail(dout)
    /\ UNCHANGED <<hpc, request, answer, ret, interrupt, toDev,
                   dpc, din, dpath, dlist, fs, sd, history>>

-----------------------------------------------------------------------------
Init ==
    /\ hpc = "ready"
    /\ op = "list" /\ path = 0 /\ path2 = 0 /\ file = << >>
    /\ listing = {} /\ need = 0 /\ local = << >> /\ ret = 0
    /\ interrupt = FALSE
    /\ requests = 0
    /\ toDev = << >> /\ fromDev = << >>
    /\ dpc = "request" /\ din = << >> /\ dpath = 0 /\ dlist = {} /\ dout = << >>
    /\ fs = InitialFs
    /\ sd = [s \in Sectors |-> << >>]
    /\ fresh = FALSE /\ failed = FALSE /\ cut = FALSE
    /\ fs0 = InitialFs

HostStep ==
    \/ WriteAllToDevice \/ WriteFails
    \/ ReadReply \/ ReadData \/ ReadChecksum \/ ReadResult
    \/ ReadTimeout \/ ReadFails \/ ReadInterrupted

ConsoleStep == Receive \/ Execute \/ SendListing \/ StoreUpload \/ Send

Next ==
    \/ \E purge \in BOOLEAN : Begin(purge)
    \/ HostStep
    \/ Signal
    \/ ConsoleStep

Spec == Init /\ [][Next]_vars

(***************************************************************************)
(* The host process runs and its reads time out; nothing is assumed of the *)
(* console, and no call has to fail.                                       *)
(***************************************************************************)
HostProgress ==
    \/ WriteAllToDevice
    \/ ReadReply \/ ReadData \/ ReadChecksum \/ ReadResult
    \/ ReadTimeout
    \/ interrupt /\ (WriteFails \/ ReadFails \/ ReadInterrupted)

FairSpec == Spec /\ WF_vars(HostProgress)

-----------------------------------------------------------------------------
(* Every variable has its type; a download never writes more than announced. *)
TypeOK ==
    /\ hpc \in {"ready", "request", "reply", "next", "body", "data", "result"}
    /\ op \in Ops
    /\ path \in Item /\ path2 \in Item
    /\ file \in Seq(Item) /\ local \in Seq(Item)
    /\ listing \subseteq Item
    /\ need \in Item /\ Len(local) =< need
    /\ ret \in {0, 1}
    /\ interrupt \in BOOLEAN
    /\ requests \in 0 .. MaxRequests
    /\ toDev \in Seq(Item) /\ fromDev \in Seq(Item)
    /\ dpc \in {"request", "upload", "list"}
    /\ din \in Seq(Item) /\ dout \in Seq(Item)
    /\ dpath \in Item
    /\ dlist \subseteq Paths
    /\ fs \in [Paths -> [kind : {"none", "dir", "file"}, data : Seq(Item)]]
    /\ sd \in [Sectors -> Seq(Item)]
    /\ fresh \in BOOLEAN /\ failed \in BOOLEAN /\ cut \in BOOLEAN

(* The request in progress has returned r. *)
Returned(r) == hpc = "ready" /\ requests > 0 /\ ret = r

(* What the request promises. *)
Effect ==
    CASE op = "list"     -> listing = Entries(fs0) /\ fs = fs0
      [] op = "download" -> fs0[path] = File(local) /\ fs = fs0
      [] op = "upload"   -> fs = [fs0 EXCEPT ![path] = File(file)]
      [] op = "raw"      -> sd[path] = file /\ fs = fs0
      [] OTHER           -> fs = Apply(Code[op], path, path2, fs0)

(* Successes that the three divergences below do not cast doubt on. *)
Reliable == fresh /\ ~cut /\ ~(op = "raw" /\ interrupt)

(***************************************************************************)
(* A request that found the console ready and returns 1 has done what it   *)
(* promises, whatever failed, timed out or was interrupted on the way: no  *)
(* error path of xfer.cpp ends in a success.                               *)
(***************************************************************************)
SuccessMeansDone == Returned(1) /\ Reliable => Effect

(***************************************************************************)
(* A refusal is a refusal: when no call failed and the request returns 0,  *)
(* the SD card is as it was.                                               *)
(***************************************************************************)
RefusalMeansUnchanged == Returned(0) /\ fresh /\ ~failed => fs = fs0

(***************************************************************************)
(* A successful request leaves nothing on the link and the console ready,  *)
(* so the next request of the same process, which purges nothing, reads    *)
(* its own answer: every path reads exactly what the console sends.        *)
(***************************************************************************)
SuccessLeavesReady ==
    Returned(1) /\ Reliable =>
        /\ dpc = "request" /\ din = << >> /\ dout = << >>
        /\ toDev = << >> /\ fromDev = << >>

(***************************************************************************)
(* What the functions of xfer.cpp return is true and leaves the link usable: *)
(* a success was done and consumed all of its answer, a refusal changed    *)
(* nothing, and a download holds no more than was announced.               *)
(***************************************************************************)
RequestTrue ==
    TypeOK /\ SuccessMeansDone /\ RefusalMeansUnchanged /\ SuccessLeavesReady

(***************************************************************************)
(* Every Remote I/O request ends, also when the console stops answering or *)
(* answers something else, and Ctrl+C ends the raw upload, which has no    *)
(* time limit.                                                             *)
(***************************************************************************)
RequestEnds == (hpc # "ready" /\ (op # "raw" \/ interrupt)) ~> hpc = "ready"

=============================================================================
