------------------------------ MODULE TcpProxy ------------------------------
(***************************************************************************)
(* ftx -g: a run of ftx (Session) whose mode is the TCP proxy of           *)
(* ftdi_gdb.cpp between one GDB client at a time and the device.  A step   *)
(* is one blocking call.  The clients, the device and the FTDI chip run    *)
(* beside it.                                                              *)
(*                                                                         *)
(* What a client sends are tokens of the remote protocol (a checksum digit *)
(* is any token).  From there on a byte is its place in all that the proxy *)
(* has received from clients, and in all that the device has sent.         *)
(***************************************************************************)
EXTENDS Session

CONSTANTS
    Messages,     \* sequences of tokens that a client sends
    Answers,      \* tokens that the device sends
    InitialChunk, \* kInitialUsbChunkSize, a power of two
    Retries,      \* kMaxWriteRetries
    MaxClients,   \* number of clients
    MaxFails,     \* number of writes to the device that fail
    MaxAnswers    \* number of bytes that the device sends

ASSUME ProxyAssumption ==
    /\ {InitialChunk, Retries, MaxFails} \subseteq Nat \ {0} /\ {MaxClients, MaxAnswers} \subseteq Nat
    /\ Messages \subseteq Seq(STRING) /\ Answers \subseteq STRING

VARIABLES
    (* the client *)
    client,     \* "none", "here" or "gone"
    clients,    \* how many there were
    toProxy,    \* bytes on their way from the client
    lastClient, \* the last byte that a client has got
    (* the proxy *)
    block,      \* socket_rx, the bytes being forwarded
    written,    \* written_total
    chunk,      \* max_chunk_size
    attempt,    \* attempt
    alive,      \* client_alive
    back,       \* ftdi_rx, bytes of the device that are sent to the client
    gdbCarry, gdbTrace,         \* gdb_trace_buffer, and what was printed
    targetCarry, targetTrace,   \* target_trace_buffer
    (* the chip and the device *)
    toDev, fromDev,
    lastDev,    \* the last byte that the device has got
    answers,    \* tokens that the device has sent
    fails,      \* how many writes have failed
    (* history *)
    recvd,      \* tokens that the proxy has received from clients, and from the device
    reads,
    flushed     \* ftdi_tcioflush was called

clientVars == <<client, clients, toProxy, lastClient>>
traces == <<gdbCarry, gdbTrace, targetCarry, targetTrace, recvd, reads>>
chip == <<toDev, fromDev, lastDev, answers>>
writing == <<block, written, chunk, attempt>>
proxy == <<clientVars, traces, chip, writing, alive, back, fails, flushed>>
vars == <<session, proxy>>

Goto(label) == /\ pc' = label
               /\ UNCHANGED <<opts, ctx, dev, recover, error, opened, closing, exit, interrupt,
                              purged, missed>>

(* As Goto, for a call of libftdi. *)
Call(label) == /\ pc' = label
               /\ Touch
               /\ UNCHANGED <<opts, ctx, dev, recover, error, opened, closing, exit, interrupt,
                              purged>>

-----------------------------------------------------------------------------
(* trace_rsp_stream: packets and acknowledgements, and what is left. *)

(* The places of "#" behind i, and the end of a packet that starts at i. *)
Hashes(s, i) == {k \in (i + 1) .. Len(s) : s[k] = "#"}
PacketEnd(s, i) == 2 + CHOOSE k \in Hashes(s, i) : \A j \in Hashes(s, i) : k =< j

(* At i there is nothing more, or an incomplete packet. *)
Stops(s, i) == \/ i > Len(s)
               \/ s[i] = "$" /\ (Hashes(s, i) = {} \/ PacketEnd(s, i) > Len(s))

(* What is printed of what starts at i, and where the scan goes on. *)
Printed(s, i) == IF s[i] = "$" THEN <<SubSeq(s, i, PacketEnd(s, i))>>
                 ELSE IF s[i] \in {"+", "-"} THEN <<<<s[i]>>>> ELSE <<>>
After(s, i) == IF s[i] = "$" THEN PacketEnd(s, i) + 1 ELSE i + 1

(* All that is printed, and where the scan stops. *)
Scan(s) ==
    LET from[i \in 1 .. (Len(s) + 1)] ==
          IF Stops(s, i) THEN [out |-> <<>>, pos |-> i]
          ELSE [out |-> Printed(s, i) \o from[After(s, i)].out, pos |-> from[After(s, i)].pos]
    IN  from[1]

Packets(s) == Scan(s).out
Rest(s) == SubSeq(s, Scan(s).pos, Len(s))

(* Mutant of trace_rsp_stream: an incomplete packet is dropped. *)
TraceUnbuffered(carry, trace, data) ==
    /\ trace' = trace \o Packets(data)
    /\ carry' = <<>>

trace_rsp_stream(carry, trace, data) ==
    /\ trace' = trace \o Packets(carry \o data)
    /\ carry' = Rest(carry \o data)

-----------------------------------------------------------------------------
(* DoTcpProxy. *)

(* socket, setsockopt, bind and listen. *)
Listen ==
    /\ pc = "proxy"
    /\ \/ Goto("accept")
       \/ /\ ExitWith(1)
          /\ UNCHANGED <<opts, ctx, dev, recover, error, opened, closing, interrupt, purged, missed>>
    /\ UNCHANGED proxy

(* The loop ends: by the flag, or because poll fails. *)
StopListening ==
    /\ pc = "accept"
    /\ ExitWith(0)
    /\ UNCHANGED <<opts, ctx, dev, recover, error, opened, closing, interrupt, purged, missed, proxy>>

Accept ==
    /\ pc = "accept" /\ ~interrupt /\ client = "here"
    /\ Goto("client")
    /\ alive' = TRUE
    /\ UNCHANGED <<clientVars, traces, chip, writing, back, fails, flushed>>

(* The inner loop: the client has said nothing, something, or has gone. *)
Poll ==
    /\ pc = "client"
    /\ IF interrupt \/ ~alive
       THEN Goto("disconnect") /\ UNCHANGED <<clientVars, traces, writing, alive>>
       ELSE \/ toProxy = <<>> /\ client = "here" /\ Goto("read")
               /\ UNCHANGED <<clientVars, traces, writing, alive>>
            \/ client = "gone" /\ alive' = FALSE /\ Goto("read")
               /\ UNCHANGED <<clientVars, traces, writing>>
            \/ \E n \in 1 .. Len(toProxy) :
                 LET data == SubSeq(toProxy, 1, n)
                 IN  /\ toProxy' = SubSeq(toProxy, n + 1, Len(toProxy))
                     /\ trace_rsp_stream(gdbCarry, gdbTrace, data)
                     /\ recvd' = recvd \o data
                     /\ block' = [i \in 1 .. n |-> Len(recvd) + i]
                     /\ written' = 0 /\ chunk' = InitialChunk /\ attempt' = 0
                     /\ Goto("write")
                     /\ UNCHANGED <<client, clients, lastClient, targetCarry, targetTrace,
                                    reads, alive>>
    /\ UNCHANGED <<chip, back, fails, flushed>>

Least(a, b) == IF a < b THEN a ELSE b

(* write_all_ftdi returns, and its variables go. *)
Written == /\ block' = <<>> /\ written' = 0 /\ chunk' = InitialChunk /\ attempt' = 0
           /\ Call("read")

(* Mutant of WriteSome: the count that ftdi_write_data returns is not used. *)
WriteWhole ==
    /\ pc = "write"
    /\ \E n \in 1 .. Least(chunk, Len(block) - written) :
         /\ toDev' = toDev \o SubSeq(block, written + 1, written + n)
         /\ IF Least(written + chunk, Len(block)) = Len(block)
            THEN Written
            ELSE /\ written' = Least(written + chunk, Len(block)) /\ chunk' = Least(InitialChunk, 2 * chunk)
                 /\ attempt' = 0
                 /\ Call("write")
                 /\ UNCHANGED block
    /\ UNCHANGED <<clientVars, traces, fromDev, lastDev, answers, alive, back, fails, flushed>>

(* ftdi_write_data takes a part of the chunk or all of it. *)
WriteSome ==
    /\ pc = "write"
    /\ \E n \in 1 .. Least(chunk, Len(block) - written) :
         /\ toDev' = toDev \o SubSeq(block, written + 1, written + n)
         /\ IF written + n = Len(block)
            THEN Written
            ELSE /\ written' = written + n /\ chunk' = Least(InitialChunk, 2 * chunk)
                 /\ attempt' = 0
                 /\ Call("write")
                 /\ UNCHANGED block
    /\ UNCHANGED <<clientVars, traces, fromDev, lastDev, answers, alive, back, fails, flushed>>

(* Mutant of NextAttempt: the smallest chunk is tried for ever. *)
NextAttemptForever ==
    /\ IF attempt + 1 < Retries
       THEN attempt' = attempt + 1 /\ UNCHANGED chunk
       ELSE attempt' = 0 /\ chunk' = IF chunk > 1 THEN chunk \div 2 ELSE 1
    /\ Call("write")
    /\ UNCHANGED <<block, written, alive>>

(* Mutant of NextAttempt: the smallest chunk is halved, too. *)
NextAttemptZero ==
    /\ IF attempt + 1 < Retries
       THEN attempt' = attempt + 1 /\ UNCHANGED chunk
       ELSE attempt' = 0 /\ chunk' = chunk \div 2
    /\ Call("write")
    /\ UNCHANGED <<block, written, alive>>

(* After Retries attempts the chunk is halved; at 1 the client is given up. *)
NextAttempt ==
    IF attempt + 1 = Retries /\ chunk = 1
    THEN Written /\ alive' = FALSE
    ELSE /\ IF attempt + 1 < Retries
            THEN attempt' = attempt + 1 /\ UNCHANGED chunk
            ELSE attempt' = 0 /\ chunk' = chunk \div 2
         /\ Call("write")
         /\ UNCHANGED <<block, written, alive>>

(* A write that fails purges both buffers of the chip; one that takes nothing does not. *)
WriteNone ==
    /\ pc = "write" /\ (fails < MaxFails \/ interrupt)
    /\ fails' = IF fails < MaxFails THEN fails + 1 ELSE fails
    /\ \/ toDev' = <<>> /\ fromDev' = <<>> /\ flushed' = TRUE
       \/ UNCHANGED <<toDev, fromDev, flushed>>
    /\ NextAttempt
    /\ UNCHANGED <<clientVars, traces, lastDev, answers, back>>

(* ftdi_read_data. *)
ReadDevice ==
    /\ pc = "read"
    /\ \/ /\ Call("client")
          /\ UNCHANGED <<fromDev, back, targetCarry, targetTrace, reads, alive>>
       \/ /\ Call("disconnect") /\ alive' = FALSE
          /\ UNCHANGED <<fromDev, back, targetCarry, targetTrace, reads>>
       \/ \E n \in 1 .. Len(fromDev) :
            /\ back' = SubSeq(fromDev, 1, n)
            /\ fromDev' = SubSeq(fromDev, n + 1, Len(fromDev))
            /\ LET data == [i \in 1 .. n |-> answers[back'[i]]]
               IN  trace_rsp_stream(targetCarry, targetTrace, data) /\ reads' = reads \o data
            /\ Call("send")
            /\ UNCHANGED alive
    /\ UNCHANGED <<clientVars, gdbCarry, gdbTrace, recvd, toDev, lastDev, answers, writing, fails,
                   flushed>>

(* Mutant of Send: what a part of was sent is sent again. *)
SendAgain ==
    /\ pc = "send"
    /\ \E n \in 1 .. Len(back) :
         /\ client = "here"
         /\ lastClient' = back[n]
         /\ back' = IF n = Len(back) THEN <<>> ELSE back
         /\ Goto(IF back' = <<>> THEN "client" ELSE "send")
    /\ UNCHANGED <<client, clients, toProxy, traces, chip, writing, alive, fails, flushed>>

(* write_all_socket: send blocks while the client reads nothing. *)
Send ==
    /\ pc = "send"
    /\ \/ /\ client = "here"
          /\ \E n \in 1 .. Len(back) :
               /\ lastClient' = back[n]
               /\ back' = SubSeq(back, n + 1, Len(back))
          /\ Goto(IF back' = <<>> THEN "client" ELSE "send")
          /\ UNCHANGED alive
       \/ /\ client = "gone"
          /\ alive' = FALSE /\ back' = <<>>
          /\ Goto("client")
          /\ UNCHANGED lastClient
    /\ UNCHANGED <<client, clients, toProxy, traces, chip, writing, fails, flushed>>

(* The socket is closed with what it holds; the chip keeps what it holds. *)
Disconnect ==
    /\ pc = "disconnect"
    /\ Goto("accept")
    /\ client' = "none" /\ toProxy' = <<>>
    /\ UNCHANGED <<clients, lastClient, traces, chip, writing, alive, back, fails, flushed>>

-----------------------------------------------------------------------------
(* The clients and the device (external). *)

Connect ==
    /\ pc \notin {"start", "end"} /\ closing /\ "g" \in opts
    /\ client = "none" /\ clients < MaxClients
    /\ clients' = clients + 1
    /\ toProxy' \in Messages
    /\ client' = "here"
    /\ UNCHANGED <<session, lastClient, traces, chip, writing, alive, back, fails, flushed>>

HangUp ==
    /\ client = "here"
    /\ client' = "gone"
    /\ UNCHANGED <<session, clients, toProxy, lastClient, traces, chip, writing, alive, back,
                   fails, flushed>>

DeviceReads ==
    /\ toDev # <<>>
    /\ lastDev' = Head(toDev)
    /\ toDev' = Tail(toDev)
    /\ UNCHANGED <<session, clientVars, traces, fromDev, answers, writing, alive, back, fails,
                   flushed>>

DeviceAnswers ==
    /\ lastDev > 0 /\ Len(answers) < MaxAnswers
    /\ \E t \in Answers : answers' = Append(answers, t)
    /\ fromDev' = Append(fromDev, Len(answers'))
    /\ UNCHANGED <<session, clientVars, traces, toDev, lastDev, writing, alive, back, fails, flushed>>

Init ==
    /\ SessionInit
    /\ client = "none" /\ clients = 0 /\ toProxy = <<>> /\ lastClient = 0
    /\ gdbCarry = <<>> /\ gdbTrace = <<>> /\ targetCarry = <<>> /\ targetTrace = <<>>
    /\ recvd = <<>> /\ reads = <<>>
    /\ toDev = <<>> /\ fromDev = <<>> /\ lastDev = 0 /\ answers = <<>>
    /\ block = <<>> /\ written = 0 /\ chunk = InitialChunk /\ attempt = 0
    /\ alive = FALSE /\ back = <<>> /\ fails = 0 /\ flushed = FALSE

DoTcpProxy ==
    \/ Listen \/ StopListening \/ Accept \/ Poll \/ WriteSome \/ WriteNone
    \/ ReadDevice \/ Send \/ Disconnect

Next ==
    \/ SessionNext /\ UNCHANGED proxy
    \/ SignalHandler /\ UNCHANGED proxy
    \/ DoTcpProxy
    \/ Connect \/ HangUp \/ DeviceReads \/ DeviceAnswers

Spec == Init /\ [][Next]_vars

(***************************************************************************)
(* ftx runs on: every call but send has a time limit, and main ends.       *)
(* Nothing is assumed of clients, of the device or of the success of       *)
(* writes.                                                                 *)
(***************************************************************************)
Running == (SessionNext /\ UNCHANGED proxy) \/ (DoTcpProxy /\ pc # "send")
FairSpec == Spec /\ WF_vars(Running)

-----------------------------------------------------------------------------
(* Types; main has an exit status exactly when it is over, and a chunk is never empty. *)
TypeOK ==
    /\ ctx \in {"raw", "init"} /\ dev \in {"closed", "open"}
    /\ exit \in {-1, 0, 1} /\ (exit = -1) = (pc \notin {"flush", "end"})
    /\ written =< Len(block) /\ attempt \in 0 .. (Retries - 1)
    /\ chunk \in 1 .. InitialChunk

(***************************************************************************)
(* However ftx ends, the libftdi context and the device were given back,   *)
(* once: no path of InitComms, of its recovery, of ListDevices or of main  *)
(* leaks them, uses a device that is not open, or initialises a context    *)
(* twice.                                                                  *)
(***************************************************************************)
ContextBalanced == ~missed /\ (pc = "end" => ctx = "raw" /\ dev = "closed")

(***************************************************************************)
(* Commands and modes only ever run on a device that was opened, purged    *)
(* and configured without an error, directly or after one recovery.        *)
(***************************************************************************)
RunsConfigured ==
    pc \in {"command", "mode", "proxy", "accept", "client", "write", "read", "send"} =>
        ctx = "init" /\ dev = "open" /\ purged /\ ~error /\ closing

(***************************************************************************)
(* One run of ftx handles the device soundly on every path through main,   *)
(* InitComms and CloseComms.                                               *)
(***************************************************************************)
SessionSound == TypeOK /\ ContextBalanced /\ RunsConfigured

(***************************************************************************)
(* What is traced does not depend on how TCP and USB cut the streams: it   *)
(* is what one scan of all bytes would print, and the buffer holds the     *)
(* rest.  (All bytes: of all clients; the buffers outlive a client.)       *)
(***************************************************************************)
TraceChunkFree ==
    /\ gdbTrace = Packets(recvd) /\ gdbCarry = Rest(recvd)
    /\ targetTrace = Packets(reads) /\ targetCarry = Rest(reads)

InOrder(s) == \A i, j \in DOMAIN s : i < j => s[i] < s[j]

(***************************************************************************)
(* The device gets the bytes of the clients in order and none twice,       *)
(* whatever chunks, partial writes and retries there were.  Bytes can only *)
(* be missing if a write failed and purged the chip, or at the end of a    *)
(* block whose client was given up.                                        *)
(***************************************************************************)
DeviceInOrder ==
    /\ InOrder(<<lastDev>> \o toDev)
    /\ ~flushed /\ fails = 0 =>
         <<lastDev>> \o toDev \o (IF pc = "write" THEN SubSeq(block, written + 1, Len(block)) ELSE <<>>)
           = [i \in 1 .. (Len(recvd) - lastDev + 1) |-> lastDev + i - 1]

(* The clients get bytes of the device in order, and none twice. *)
ClientInOrder == InOrder(<<lastClient>> \o back \o fromDev)

(***************************************************************************)
(* DoTcpProxy forwards bytes in order and at most once, both ways.         *)
(***************************************************************************)
BytesInOrder == DeviceInOrder /\ ClientInOrder

(***************************************************************************)
(* Ctrl+C ends the proxy, also while writes to the device keep failing;    *)
(* only a client that does not read can hold it, in send.                  *)
(***************************************************************************)
StopsOrBlocked == interrupt ~> pc \in {"end", "send"}

=============================================================================
