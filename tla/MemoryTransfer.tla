--------------------------- MODULE MemoryTransfer ---------------------------
(***************************************************************************)
(* Memory upload, download, run and upload-and-execute: the host commands  *)
(* of xfer.cpp (DoUpload, DoDownload, DoRun, DoExecute), the FTDI link and *)
(* the command loop of the console (sc_check_usbdc and its handlers in     *)
(* satcom_lib/sc_saturn.c).                                                *)
(*                                                                         *)
(* One host process is one session: InitComms, one command, CloseComms.    *)
(* The console outlives the sessions, so a session may find it in the      *)
(* middle of a transfer that an earlier session gave up.                   *)
(*                                                                         *)
(* Abstractions.  The alphabet of the link is 0 .. Width-1 and a 32-bit    *)
(* big-endian word (address, length, flags) is ONE link item, so that      *)
(* bytes, addresses and lengths share one alphabet, as they do on the      *)
(* wire: an item that one side means as data can be read as a command, an  *)
(* address or a length by the other.  Addresses wrap at Width, as they     *)
(* wrap at 2^32 in the code.  The 8-bit CRC is the parameter Crc.          *)
(***************************************************************************)
EXTENDS Integers, Sequences

CONSTANTS
    Width,        \* size of the link alphabet and of the address space
    Rom,          \* addresses whose writes have no effect
    LowRam,       \* the area cleared by SC_SOFTRES_LRAM
    HighRam,      \* the area cleared by SC_SOFTRES_HRAM
    Area(_),      \* address & 0x0F000000
    ExecBuffer,   \* sc->exec_buffer
    VersionAddr,  \* the address that stands for the firmware version
    VersionData,  \* _usbdc_version_dat
    PowerUpMem,   \* memory after power-up
    Crc(_),       \* CRC of a sequence of bytes, from the initial value 0
    Files,        \* contents of the files that users upload
    Addresses,    \* addresses that users give
    Sizes,        \* sizes that users give to a download
    FifoCap,      \* capacity of the FTDI chip's FIFO, in each direction
    MaxSessions   \* bound: number of host processes in a behaviour

Byte == 0 .. (Width - 1)

(* Command codes, enum USBDC_FUNC_* of sc_common.h. *)
DOWNLOAD      == 1
UPLOAD        == 2
EXEC          == 3
GET_BUFF_ADDR == 4
COPYEXEC      == 5
EXEC_EXT      == 6

ASSUME WidthAssumption ==
    Width \in Nat /\ Width > EXEC_EXT /\ Width % 4 = 0

ASSUME MemoryAssumption ==
    /\ Rom \subseteq Byte
    /\ ExecBuffer \in Byte
    /\ VersionAddr \in Byte
    /\ VersionData \in Seq(Byte)
    /\ PowerUpMem \in [Byte -> Byte]

ASSUME InputAssumption ==
    /\ \A f \in Files : f \in Seq(Byte)
    /\ Addresses \subseteq Byte
    /\ Sizes \subseteq Byte

ASSUME BoundAssumption ==
    FifoCap \in Nat /\ MaxSessions \in Nat

(***************************************************************************)
(* crc_t is an unsigned char: whatever Crc is, the value sent and compared *)
(* is a byte.  Both sides start from 0, so the CRC of nothing is 0.        *)
(***************************************************************************)
Checksum(s) == IF Crc(s) \in Byte THEN Crc(s) ELSE 0

ASSUME ChecksumAssumption == Checksum(<< >>) = 0

VARIABLES
    (* the host process *)
    hpc,        \* where it is
    op,         \* the command it runs
    file,       \* contents of the file it uploads
    addr,       \* address argument
    size,       \* size argument (download), file size (upload, execute)
    sent,       \* bytes of file that ftdi_write_data has accepted
    local,      \* contents of the downloaded file
    result,     \* value returned by the command, 1 success, 0 error
    interrupt,  \* ftdi::g_interrupt_flag
    session,    \* number of host processes so far
    (* the FTDI chip *)
    toDev,      \* bytes accepted from the host, not yet read by the console
    fromDev,    \* bytes written by the console, not yet read by the host
    (* the console *)
    dpc,        \* where the command loop is
    dcmd,       \* command being handled
    daddr,      \* first word received: pData, pExec or tmp_address
    dlen,       \* second word received
    dflags,     \* third word received: soft reset flags
    di,         \* loop index ii
    dbuf,       \* sc->rw4_buffer
    dreply,     \* byte about to be sent as the result
    mem,        \* memory
    (* history *)
    synced,     \* the console was waiting for a command when the session began
    started     \* programs started during the session

host == <<hpc, op, file, addr, size, sent, local, result, interrupt, session>>
link == <<toDev, fromDev>>
work == <<dcmd, daddr, dlen, dflags, di, dbuf, dreply>>
device == <<dpc, work, mem, started>>
vars == <<host, link, device, synced>>

HostOps == {"upload", "exec", "download", "run"}
HostPcs == {"command", "data", "result", "receive", "exit", "closed"}
DevPcs  == {"idle", "addr", "len", "flags", "data", "send", "reply", "running"}

-----------------------------------------------------------------------------
(* Memory. *)

Wrap(a) == a % Width

(* Single writes; ROM and unmapped addresses ignore them. *)
Store(m, a, b) == IF a \in Rom THEN m ELSE [m EXCEPT ![a] = b]

Slice(m, a, n) == [i \in 1 .. n |-> m[Wrap(a + i - 1)]]

(* Is cell c one of the n cells that start at a? *)
InRange(c, a, n) == Wrap(c - a) < n

(***************************************************************************)
(* Transfers of 2 and 4 bytes are single 16-bit and 32-bit accesses, so    *)
(* the address loses its low bits.                                         *)
(***************************************************************************)
Rw4(n) == n \in {2, 4}
Align(a, n) == IF Rw4(n) THEN a - (a % n) ELSE a

(* *ptr_out = *ptr_in: one wide write of a whole sequence. *)
StoreWord(m, a, s) ==
    [c \in Byte |-> IF c \notin Rom /\ InRange(c, a, Len(s))
                    THEN s[Wrap(c - a) + 1] ELSE m[c]]

(* The bytes that a download of n bytes at a sends. *)
Source(m, a, n) ==
    IF a = VersionAddr /\ n = Len(VersionData) /\ ~Rw4(n)
    THEN VersionData
    ELSE Slice(m, Align(a, n), n)

(* Where EXEC_EXT receives a program that has to run at a. *)
LoadAddress(a) == IF Area(a) # Area(ExecBuffer) THEN ExecBuffer ELSE a

(***************************************************************************)
(* copystub: move n bytes from src to dst, then clear the RAM areas that   *)
(* the flags select, except the program.                                   *)
(***************************************************************************)
Cleared(flags) ==
    (IF flags % 2 = 1 THEN HighRam ELSE {})
        \cup (IF (flags \div 2) % 2 = 1 THEN LowRam ELSE {})

Copystub(m, src, n, dst, flags) ==
    [c \in Byte |->
        IF c \in Rom THEN m[c]
        ELSE IF InRange(c, dst, n) THEN m[Wrap(src + (c - dst))]
        ELSE IF c \in Cleared(flags) THEN 0
        ELSE m[c]]

-----------------------------------------------------------------------------
(* The host.  One step is one libftdi call and the code up to the next. *)

(* Mutant of Command: EXEC_EXT without its trailing flags word. *)
CommandNoFlags ==
    CASE op = "download" -> <<DOWNLOAD, addr, size>>
      [] op = "upload"   -> <<UPLOAD, addr, size>>
      [] op = "exec"     -> <<EXEC_EXT, addr, size>>
      [] OTHER           -> <<EXEC, addr>>

(* The bytes of SendCommandWithAddressAndLength, or of DoRun. *)
Command ==
    CASE op = "download" -> <<DOWNLOAD, addr, size>>
      [] op = "upload"   -> <<UPLOAD, addr, size>>
      [] op = "exec"     -> <<EXEC_EXT, addr, size, 0>>
      [] OTHER           -> <<EXEC, addr>>

AfterCommand ==
    CASE op = "download" -> "receive"
      [] op = "run"      -> "exit"
      [] OTHER           -> "data"

(* DoUpload refuses empty files and files of 2^32 bytes or more. *)
Uploadable(f) == Len(f) > 0 /\ Len(f) < Width

(* fopen(filename, "wb") of DoDownload empties the local file. *)
Begin(o, f, a, n) ==
    /\ op' = o
    /\ file' = f
    /\ addr' = a
    /\ size' = n
    /\ sent' = 0
    /\ local' = << >>
    /\ result' = 0
    /\ interrupt' = FALSE
    /\ session' = session + 1
    /\ hpc' = IF o \in {"upload", "exec"} /\ ~Uploadable(f) THEN "exit" ELSE "command"

(* What parse_args lets a user ask for. *)
Request(o, f, a, n) ==
    /\ a \in Addresses
    /\ \/ o \in {"upload", "exec"} /\ f \in Files /\ n = Len(f)
       \/ o = "download" /\ f = << >> /\ n \in Sizes
       \/ o = "run" /\ f = << >> /\ n = 0

(* Mutant of InitComms: the receive FIFO is not purged. *)
InitCommsNoPurge ==
    /\ hpc = "closed"
    /\ session < MaxSessions
    /\ \E o \in HostOps, f \in Files \cup {<< >>}, a \in Addresses :
         \E n \in Sizes \cup {0, Len(f)} :
           Request(o, f, a, n) /\ Begin(o, f, a, n)
    /\ toDev' = << >>
    /\ synced' = (dpc \in {"idle", "running"})
    /\ started' = {}
    /\ UNCHANGED <<fromDev, dpc, work, mem>>

(* main: InitComms purges both FIFOs before the command starts. *)
InitComms ==
    /\ hpc = "closed"
    /\ session < MaxSessions
    /\ \E o \in HostOps, f \in Files \cup {<< >>}, a \in Addresses :
         \E n \in Sizes \cup {0, Len(f)} :
           Request(o, f, a, n) /\ Begin(o, f, a, n)
    /\ toDev' = << >>
    /\ fromDev' = << >>
    /\ synced' = (dpc \in {"idle", "running"})
    /\ started' = {}
    /\ UNCHANGED <<dpc, work, mem>>

(* ftdi_write_data accepts the bytes s, as far as the FIFO has room. *)
Accept(s) ==
    /\ Len(toDev) + Len(s) =< FifoCap
    /\ toDev' = toDev \o s

Finish(r) ==
    /\ hpc' = "exit"
    /\ result' = r

(* A command fits in one USB packet: it is written whole or fails.  DoRun *)
(* expects no answer.                                                     *)
SendCommandWithAddressAndLength ==
    /\ hpc = "command"
    /\ Accept(Command)
    /\ hpc' = AfterCommand
    /\ result' = IF op = "run" THEN 1 ELSE result
    /\ UNCHANGED <<op, file, addr, size, sent, local, interrupt, session,
                   fromDev, device, synced>>

(* The loop of DoUpload's lambda: any part of what is left is accepted. *)
WriteData ==
    /\ hpc = "data"
    /\ sent < Len(file)
    /\ ~interrupt
    /\ \E n \in 1 .. (Len(file) - sent) :
         /\ Accept(SubSeq(file, sent + 1, sent + n))
         /\ sent' = sent + n
    /\ UNCHANGED <<hpc, op, file, addr, size, local, result, interrupt, session,
                   fromDev, device, synced>>

(***************************************************************************)
(* The checksum covers the whole file: an interrupted lambda returns true, *)
(* StreamAndCrc reads the rest of the file and the checksum is sent.       *)
(***************************************************************************)
WriteChecksum ==
    /\ hpc = "data"
    /\ sent = Len(file) \/ interrupt
    /\ Accept(<<Checksum(file)>>)
    /\ hpc' = "result"
    /\ UNCHANGED <<op, file, addr, size, sent, local, result, interrupt, session,
                   fromDev, device, synced>>

(* Mutant of ReadResult: the loop does not look at the interrupt flag. *)
ReadResultForever ==
    /\ hpc = "result"
    /\ fromDev # << >>
    /\ Finish(IF Head(fromDev) = 0 THEN 1 ELSE 0)
    /\ fromDev' = Tail(fromDev)
    /\ UNCHANGED <<op, file, addr, size, sent, local, interrupt, session,
                   toDev, device, synced>>

(***************************************************************************)
(* do ... while (status == 0 && !interrupt): a byte arrives, or nothing    *)
(* has arrived and the flag is set, and then RecvBuf[0] still holds the 0  *)
(* it was initialised with.  Any nonzero byte is an error.                 *)
(***************************************************************************)
ReadResult ==
    /\ hpc = "result"
    /\ \/ /\ fromDev # << >>
          /\ Finish(IF Head(fromDev) = 0 THEN 1 ELSE 0)
          /\ fromDev' = Tail(fromDev)
       \/ /\ interrupt
          /\ Finish(1)
          /\ UNCHANGED fromDev
    /\ UNCHANGED <<op, file, addr, size, sent, local, interrupt, session,
                   toDev, device, synced>>

(* The data loop of DoDownload: ftdi_read_data returns what is there. *)
ReadData ==
    /\ hpc = "receive"
    /\ Len(local) < size
    /\ ~interrupt
    /\ \E n \in 1 .. Len(fromDev) :
         /\ n =< size - Len(local)
         /\ local' = local \o SubSeq(fromDev, 1, n)
         /\ fromDev' = SubSeq(fromDev, n + 1, Len(fromDev))
    /\ UNCHANGED <<hpc, op, file, addr, size, sent, result, interrupt, session,
                   toDev, device, synced>>

(* Mutant of ReadChecksum: the data loop may end at a short read. *)
ReadChecksumEarly ==
    /\ hpc = "receive"
    /\ fromDev # << >>
    /\ Finish(IF Head(fromDev) = Checksum(local) THEN 1 ELSE 0)
    /\ fromDev' = Tail(fromDev)
    /\ UNCHANGED <<op, file, addr, size, sent, local, interrupt, session,
                   toDev, device, synced>>

(* The checksum loop of DoDownload; readChecksum starts as 0. *)
ReadChecksum ==
    /\ hpc = "receive"
    /\ Len(local) = size \/ interrupt
    /\ \/ /\ fromDev # << >>
          /\ Finish(IF Head(fromDev) = Checksum(local) THEN 1 ELSE 0)
          /\ fromDev' = Tail(fromDev)
       \/ /\ interrupt
          /\ Finish(IF 0 = Checksum(local) THEN 1 ELSE 0)
          /\ UNCHANGED fromDev
    /\ UNCHANGED <<op, file, addr, size, sent, local, interrupt, session,
                   toDev, device, synced>>

(* The buffer the host is writing, if it is writing. *)
Outgoing ==
    CASE hpc = "command" -> Command
      [] hpc = "data" /\ sent < Len(file) /\ ~interrupt
             -> SubSeq(file, sent + 1, Len(file))
      [] OTHER -> <<Checksum(file)>>

(* ftdi_write_data < 0, after the chip took some prefix of the buffer. *)
WriteError ==
    /\ hpc \in {"command", "data"}
    /\ \E k \in 0 .. Len(Outgoing) : Accept(SubSeq(Outgoing, 1, k))
    /\ Finish(0)
    /\ UNCHANGED <<op, file, addr, size, sent, local, interrupt, session,
                   fromDev, device, synced>>

(***************************************************************************)
(* ftdi_read_data < 0, or the local file fails: fopen, fread or fwrite.    *)
(***************************************************************************)
ReadError ==
    /\ \/ hpc \in {"result", "receive"}
       \/ hpc \in {"command", "data"} /\ op # "run"
    /\ Finish(0)
    /\ UNCHANGED <<op, file, addr, size, sent, local, interrupt, session,
                   link, device, synced>>

(* atexit: purge (a failing purge is only logged), close. *)
CloseComms ==
    /\ hpc = "exit"
    /\ hpc' = "closed"
    /\ \/ toDev' = << >> /\ fromDev' = << >>
       \/ UNCHANGED link
    /\ UNCHANGED <<op, file, addr, size, sent, local, result, interrupt, session,
                   device, synced>>

(* SIGINT, SIGTERM or SIGQUIT. *)
Signal ==
    /\ hpc \notin {"exit", "closed"}
    /\ ~interrupt
    /\ interrupt' = TRUE
    /\ UNCHANGED <<hpc, op, file, addr, size, sent, local, result, session,
                   link, device, synced>>

HostStep ==
    \/ SendCommandWithAddressAndLength
    \/ WriteData
    \/ WriteChecksum
    \/ ReadResult
    \/ ReadData
    \/ ReadChecksum
    \/ CloseComms

-----------------------------------------------------------------------------
(* The console.  One step is one byte or word received or sent. *)

RecvByte ==
    /\ toDev # << >>
    /\ toDev' = Tail(toDev)
    /\ UNCHANGED fromDev

(* Mutant of SendByte: the FIFO's full flag is not polled. *)
SendByteNoWait(b) ==
    /\ fromDev' = Append(fromDev, b)
    /\ UNCHANGED toDev

SendByte(b) ==
    /\ Len(fromDev) < FifoCap
    /\ fromDev' = Append(fromDev, b)
    /\ UNCHANGED toDev

(* The call of pFun, or the jump at the end of copystub. *)
Start(how, a) ==
    /\ dpc' = "running"
    /\ started' = started \cup {<<how, a>>}

(* The command switch; unknown bytes are dropped. *)
CheckUsbdc ==
    /\ dpc = "idle"
    /\ RecvByte
    /\ dcmd' = Head(toDev)
    /\ dpc' = CASE Head(toDev) \in {DOWNLOAD, UPLOAD, EXEC, COPYEXEC, EXEC_EXT} -> "addr"
                [] Head(toDev) = GET_BUFF_ADDR -> "reply"
                [] OTHER -> "idle"
    /\ dreply' = ExecBuffer
    /\ di' = 0
    /\ dbuf' = << >>
    /\ UNCHANGED <<daddr, dlen, dflags, mem, started, host, synced>>

(* First word; DoExecute jumps at once. *)
RecvAddress ==
    /\ dpc = "addr"
    /\ RecvByte
    /\ daddr' = Head(toDev)
    /\ IF dcmd = EXEC
       THEN Start("EXEC", Head(toDev))
       ELSE dpc' = "len" /\ UNCHANGED started
    /\ UNCHANGED <<dcmd, dlen, dflags, di, dbuf, dreply, mem, host, synced>>

RecvLength ==
    /\ dpc = "len"
    /\ RecvByte
    /\ dlen' = Head(toDev)
    /\ dpc' = CASE dcmd = DOWNLOAD -> "send"
                [] dcmd = UPLOAD   -> "data"
                [] OTHER           -> "flags"
    /\ UNCHANGED <<dcmd, daddr, dflags, di, dbuf, dreply, mem, started, host, synced>>

(* Third word: flags of DoExecExt, exec_address of DoCopyExec. *)
RecvFlags ==
    /\ dpc = "flags"
    /\ RecvByte
    /\ dflags' = Head(toDev)
    /\ IF dcmd = COPYEXEC
       THEN /\ Start("COPYEXEC", Head(toDev))
            /\ mem' = Copystub(mem, daddr, dlen, Head(toDev), 3)
       ELSE dpc' = "data" /\ UNCHANGED <<started, mem>>
    /\ UNCHANGED <<dcmd, daddr, dlen, di, dbuf, dreply, host, synced>>

(* Where the bytes of the transfer in progress go. *)
Target == IF dcmd = EXEC_EXT THEN LoadAddress(daddr) ELSE daddr

Buffered == dcmd = UPLOAD /\ Rw4(dlen)

(* Mutant of RecvData: the byte loop runs one byte too far. *)
RecvDataPastEnd ==
    /\ dpc = "data"
    /\ di =< dlen
    /\ RecvByte
    /\ di' = di + 1
    /\ mem' = Store(mem, Wrap(Target + di), Head(toDev))
    /\ UNCHANGED <<dpc, dcmd, daddr, dlen, dflags, dbuf, dreply, started, host, synced>>

(***************************************************************************)
(* The receive loop.  With 2 or 4 bytes they go to rw4_buffer, and the     *)
(* wide write follows the last one.                                        *)
(***************************************************************************)
RecvData ==
    /\ dpc = "data"
    /\ di < dlen
    /\ RecvByte
    /\ di' = di + 1
    /\ IF Buffered
       THEN /\ dbuf' = Append(dbuf, Head(toDev))
            /\ mem' = IF di + 1 = dlen
                      THEN StoreWord(mem, Align(daddr, dlen), Append(dbuf, Head(toDev)))
                      ELSE mem
       ELSE /\ mem' = Store(mem, Wrap(Target + di), Head(toDev))
            /\ UNCHANGED dbuf
    /\ UNCHANGED <<dpc, dcmd, daddr, dlen, dflags, dreply, started, host, synced>>

(* The bytes the console computes its checksum over. *)
Received == IF Buffered THEN dbuf ELSE Slice(mem, Target, dlen)

(* Mutant of RecvChecksum: the checksum is received but not compared. *)
RecvChecksumUnchecked ==
    /\ dpc = "data"
    /\ di = dlen
    /\ RecvByte
    /\ dreply' = 0
    /\ dpc' = "reply"
    /\ UNCHANGED <<dcmd, daddr, dlen, dflags, di, dbuf, mem, started, host, synced>>

RecvChecksum ==
    /\ dpc = "data"
    /\ di = dlen
    /\ RecvByte
    /\ dreply' = IF Head(toDev) = Checksum(Received) THEN 0 ELSE 1
    /\ dpc' = "reply"
    /\ UNCHANGED <<dcmd, daddr, dlen, dflags, di, dbuf, mem, started, host, synced>>

(* Mutant of SendReply: the program runs whatever the checksum said. *)
SendReplyAndRun ==
    /\ dpc = "reply"
    /\ SendByte(dreply)
    /\ IF dcmd = EXEC_EXT
       THEN /\ Start("EXEC_EXT", daddr)
            /\ mem' = Copystub(mem, Target, dlen, daddr, dflags)
       ELSE dpc' = "idle" /\ UNCHANGED <<started, mem>>
    /\ UNCHANGED <<work, host, synced>>

(***************************************************************************)
(* The reply; DoExecExt then moves the program to its address and runs it. *)
(***************************************************************************)
SendReply ==
    /\ dpc = "reply"
    /\ SendByte(dreply)
    /\ IF dcmd = EXEC_EXT /\ dreply = 0
       THEN /\ Start("EXEC_EXT", daddr)
            /\ mem' = Copystub(mem, Target, dlen, daddr, dflags)
       ELSE dpc' = "idle" /\ UNCHANGED <<started, mem>>
    /\ UNCHANGED <<work, host, synced>>

SendData ==
    /\ dpc = "send"
    /\ di < dlen
    /\ SendByte(Source(mem, daddr, dlen)[di + 1])
    /\ di' = di + 1
    /\ UNCHANGED <<dpc, dcmd, daddr, dlen, dflags, dbuf, dreply, mem, started, host, synced>>

SendChecksum ==
    /\ dpc = "send"
    /\ di = dlen
    /\ SendByte(Checksum(Source(mem, daddr, dlen)))
    /\ dpc' = "idle"
    /\ UNCHANGED <<work, mem, started, host, synced>>

(* The program that runs polls the link, as a program linked with SatCom does. *)
Poll ==
    /\ dpc = "running"
    /\ dpc' = "idle"
    /\ UNCHANGED <<work, mem, started, host, link, synced>>

DeviceStep ==
    \/ CheckUsbdc \/ RecvAddress \/ RecvLength \/ RecvFlags
    \/ RecvData \/ RecvChecksum \/ SendReply
    \/ SendData \/ SendChecksum
    \/ Poll

(* The user switches the console off and on. *)
PowerCycle ==
    /\ dpc # "idle"
    /\ dpc' = "idle"
    /\ mem' = PowerUpMem
    /\ dcmd' = 0 /\ daddr' = 0 /\ dlen' = 0 /\ dflags' = 0
    /\ di' = 0 /\ dbuf' = << >> /\ dreply' = 0
    /\ synced' = FALSE
    /\ UNCHANGED <<host, link, started>>

-----------------------------------------------------------------------------
Init ==
    /\ hpc = "closed"
    /\ op = "run" /\ file = << >> /\ addr = 0 /\ size = 0
    /\ sent = 0 /\ local = << >> /\ result = 0
    /\ interrupt = FALSE
    /\ session = 0
    /\ toDev = << >> /\ fromDev = << >>
    /\ dpc = "idle" /\ dcmd = 0 /\ daddr = 0 /\ dlen = 0 /\ dflags = 0
    /\ di = 0 /\ dbuf = << >> /\ dreply = 0
    /\ mem = PowerUpMem
    /\ synced = TRUE
    /\ started = {}

Next ==
    \/ InitComms
    \/ HostStep
    \/ WriteError
    \/ ReadError
    \/ Signal
    \/ DeviceStep
    \/ PowerCycle

Spec == Init /\ [][Next]_vars

(***************************************************************************)
(* A write that the full FIFO does not take ends with the 500 ms timeout   *)
(* that InitComms sets, and libftdi reports it as an error.                *)
(***************************************************************************)
WriteTimeout ==
    /\ Len(toDev) + 1 > FifoCap
    /\ WriteError

(* The host process runs; a write cannot block it for ever. *)
HostFairness == WF_vars(HostStep) /\ WF_vars(WriteTimeout)

(* The console is on and its program keeps polling the link. *)
DeviceFairness == WF_vars(DeviceStep)

FairSpec == Spec /\ HostFairness /\ DeviceFairness

-----------------------------------------------------------------------------
(* Every variable has its type and its bounds. *)
TypeOK ==
    /\ hpc \in HostPcs
    /\ op \in HostOps
    /\ file \in Seq(Byte)
    /\ addr \in Byte
    /\ size \in Nat
    /\ hpc \notin {"exit", "closed"} => size \in Byte
    /\ op \in {"upload", "exec"} => size = Len(file)
    /\ sent \in 0 .. Len(file)
    /\ local \in Seq(Byte) /\ Len(local) =< size
    /\ result \in {0, 1}
    /\ interrupt \in BOOLEAN
    /\ session \in 0 .. MaxSessions
    /\ toDev \in Seq(Byte) /\ Len(toDev) =< FifoCap
    /\ fromDev \in Seq(Byte) /\ Len(fromDev) =< FifoCap
    /\ dpc \in DevPcs
    /\ dcmd \in Byte /\ daddr \in Byte /\ dlen \in Byte /\ dflags \in Byte
    /\ di \in Byte
    /\ dpc \in {"addr", "len", "flags"} => di = 0
    /\ dpc \in {"data", "send"} => di =< dlen
    /\ dbuf \in Seq(Byte)
    /\ dreply \in Byte
    /\ mem \in [Byte -> Byte]
    /\ synced \in BOOLEAN
    /\ started \subseteq ({"EXEC", "COPYEXEC", "EXEC_EXT"} \X Byte)

Done == hpc \in {"exit", "closed"}

(* The command o reported success in a session that found the console ready. *)
Success(o) == Done /\ op = o /\ result = 1 /\ synced

Writable(a, n) == \A c \in Byte : InRange(c, a, n) => c \notin Rom

(***************************************************************************)
(* An upload that reports success and was not interrupted has stored the   *)
(* file: the device accepts the checksum only after it stored every byte,  *)
(* at the address, or at the aligned address for 2 and 4 bytes.            *)
(***************************************************************************)
UploadStored ==
    Success("upload") /\ ~interrupt /\ Writable(Align(addr, size), size)
        => Slice(mem, Align(addr, size), size) = file

(***************************************************************************)
(* Also where memory does not take the bytes (ROM, unmapped), a reported   *)
(* success means that memory reads back with the file's checksum: the      *)
(* console's checksum covers memory, not what it received (DoUpload,       *)
(* sc_saturn.c), except for the 2- and 4-byte accesses.                    *)
(***************************************************************************)
UploadVerified ==
    Success("upload") /\ ~interrupt /\ ~Rw4(size)
        => Checksum(Slice(mem, addr, size)) = Checksum(file)

(***************************************************************************)
(* What DoUpload reports is true: the file is stored, and where memory does *)
(* not take it, memory at least has its checksum.                          *)
(***************************************************************************)
UploadTrue == UploadStored /\ UploadVerified

(***************************************************************************)
(* A download that reports success and was not interrupted has written     *)
(* exactly the requested bytes to the local file.                          *)
(***************************************************************************)
DownloadFaithful ==
    Success("download") /\ ~interrupt => local = Source(mem, addr, size)

(***************************************************************************)
(* In a session that found the console ready the console starts no program *)
(* but the one the command names, and starts an uploaded one only when the *)
(* memory it was loaded to has the file's checksum and, where memory takes *)
(* the bytes, all of it is in place -- however the transfer was            *)
(* interrupted or failed.                                                  *)
(***************************************************************************)
StartedAsAsked ==
    [][synced => \A p \in started' \ started :
        \/ op = "run" /\ p = <<"EXEC", addr>>
        \/ /\ op = "exec" /\ p = <<"EXEC_EXT", addr>>
           /\ Checksum(Slice(mem, LoadAddress(addr), size)) = Checksum(file)
           /\ Writable(addr, size) /\ Writable(LoadAddress(addr), size)
                => Slice(mem', addr, size) = file]_vars

(* The cells that the session's command may write. *)
MayWrite(c) ==
    \/ op = "upload" /\ InRange(c, Align(addr, size), size)
    \/ op = "exec" /\ (InRange(c, LoadAddress(addr), size) \/ InRange(c, addr, size))

(***************************************************************************)
(* In a session that found the console ready, no step writes memory that   *)
(* the command does not name, also when Ctrl+C makes the host send the     *)
(* checksum where the console still expects data.                          *)
(***************************************************************************)
WritesInRange ==
    [][synced /\ synced' => \A c \in Byte : mem'[c] # mem[c] => MayWrite(c)]_vars

(***************************************************************************)
(* Ctrl+C ends every command: no transfer loop waits for the console       *)
(* without looking at g_interrupt_flag, whatever state the console is in.  *)
(***************************************************************************)
InterruptStops == interrupt ~> hpc = "closed"

(***************************************************************************)
(* With a console that keeps polling, a session that found it ready ends   *)
(* by itself: host and console agree on every length of the exchange, and  *)
(* neither waits for the other with both FIFOs full.                       *)
(***************************************************************************)
SessionEnds == (hpc = "command" /\ synced) ~> (hpc = "closed" \/ ~synced)

-----------------------------------------------------------------------------
(***************************************************************************)
(* The inductive invariant behind UploadStored and UploadVerified.  In an  *)
(* uninterrupted upload the console has received the first g items of the  *)
(* stream the host sends, the FIFO holds the items between g and what the  *)
(* host has put in, and the console is where g items bring it.             *)
(***************************************************************************)
Stream == <<UPLOAD, addr, size>> \o Append(file, Checksum(file))

Put == CASE hpc = "command" -> 0
         [] hpc = "data"    -> 3 + sent
         [] OTHER           -> size + 4

Stored ==
    Writable(Align(addr, size), size) => Slice(mem, Align(addr, size), size) = file

Verified == ~Rw4(size) => Checksum(Slice(mem, addr, size)) = Checksum(file)

(* k data bytes have been received and stored. *)
Progress(k) ==
    IF Rw4(size)
    THEN dbuf = SubSeq(file, 1, k) /\ (k = size => Stored)
    ELSE Writable(addr, size) => \A i \in 1 .. k : mem[Wrap(addr + i - 1)] = file[i]

(* Where g items of the stream bring the console. *)
At(g) ==
    \/ g = 0 /\ dpc \in {"idle", "running"} /\ fromDev = << >>
    \/ /\ g \in 1 .. (size + 3)
       /\ dcmd = UPLOAD
       /\ fromDev = << >>
       /\ \/ g = 1 /\ dpc = "addr" /\ dbuf = << >>
          \/ g = 2 /\ dpc = "len" /\ dbuf = << >> /\ daddr = addr
          \/ /\ g >= 3 /\ dpc = "data" /\ daddr = addr /\ dlen = size
             /\ di = g - 3 /\ Progress(di)
    \/ /\ g = size + 4
       /\ Stored
       /\ \/ dpc = "reply" /\ dcmd = UPLOAD /\ fromDev = << >> /\ (dreply = 0 => Verified)
          \/ dpc = "idle" /\ \E r \in Byte : fromDev = <<r>> /\ (r = 0 => Verified)

UploadInv ==
    synced /\ op = "upload" /\ ~interrupt =>
        /\ hpc # "receive"
        /\ hpc = "command" => sent = 0
        /\ ~Done => \E g \in 0 .. Put : toDev = SubSeq(Stream, g + 1, Put) /\ At(g)
        /\ Done /\ result = 1 => Stored /\ Verified /\ dpc = "idle" /\ toDev = << >>

=============================================================================
