----------------------------- MODULE DebugLink ------------------------------
(***************************************************************************)
(* The debugger of satcom_lib (sc_saturn.c, scd_circbuffer.inc.c): a       *)
(* program on the console logs, prompts and uses files of the PC through a *)
(* ring buffer in its memory, which SatLink on the PC reads, and waits for *)
(* flags that SatLink writes.  SatLink reaches the memory only while the   *)
(* program is in sc_check, one command at a time, so the program's own     *)
(* code between two sc_check is one step.  The settings of the library,    *)
(* which choose the link and the log file on the SD card, are here, too.   *)
(*                                                                         *)
(* A byte of the ring is <<number of the message, place in the message>>.  *)
(***************************************************************************)
EXTENDS Integers, Sequences, FiniteSets

CONSTANTS
    Size,       \* d->buffer_size
    LogLens,    \* lengths of log messages, with their header
    RequestLen, \* length of a file request
    MaxMsgs,    \* number of messages that the program writes
    MaxEvents   \* operations on the SD card that fail, changes of the settings, ends of
                \* SatLink and starts of other programs, together

(* A message of a log fits into what is free below three quarters of use. *)
ASSUME RingAssumption ==
    /\ Size \in Nat \ {0} /\ {RequestLen, MaxMsgs, MaxEvents} \subseteq Nat
    /\ LogLens \subseteq Nat \ {0} /\ \A n \in LogLens : 128 * (n + 1) =< 33 * Size
    /\ RequestLen + 2 =< Size

VARIABLES
    (* the program *)
    init,       \* sc_init was called
    todo,       \* what is left of the call being made
    set,        \* sc->set: [link, log]
    address,    \* the link whose registers sc_initlink has chosen
    logged,     \* sc->already_log_sd
    mine,       \* the global data points to this program's debugger data
    (* scd_data_t *)
    rbuffer, readptr, writeptr, dbg_on, dbg_disable, dbg_logflush, wh_on_log,
    proc_complete,  \* 0, or the number of the message for which SatLink has set it
    (* the SD card *)
    file,       \* the settings file: a value of set, or NoFile
    sdlog,      \* the log file, as message numbers
    (* SatLink *)
    link,       \* its next command
    polled,     \* the write pointer that it has read
    inbox,      \* prompts and requests that it has to serve
    stream,     \* bytes that it has received
    (* history *)
    msgs,       \* messages of the program: [kind, len]
    kept,       \* numbers of those that scd_cbwrite has not dropped
    guarded,    \* the last message was written while dbg_on was set
    lost,       \* a request was dropped, or a message although guarded
    answer,     \* the message last waited for, and the one that was answered
    fails, quits, sets

program == <<init, todo, set, address, logged, mine>>
ring == <<rbuffer, readptr, writeptr>>
flags == <<dbg_on, dbg_disable, dbg_logflush, wh_on_log>>
sdcard == <<file, sdlog, fails, sets>>
satlink == <<link, polled, inbox, stream, quits>>
history == <<msgs, kept, guarded, lost, answer>>
debugVars == <<program, ring, flags, proc_complete, sdcard, satlink, history>>

NoFile == [link |-> "no file", log |-> FALSE]
Default == [link |-> "usb", log |-> FALSE]  \* on a console with a USB dev cart
Settings == {Default, [link |-> "usb", log |-> TRUE], [link |-> "none", log |-> FALSE]}

-----------------------------------------------------------------------------
(* The ring. *)

(* The code asks for one byte more than what is free in the ring. *)
Free == IF writeptr >= readptr THEN Size - writeptr + readptr - 1 ELSE readptr - writeptr - 1

Fits(n) == n + 1 =< Free

Cells(id, n) == [i \in 1 .. n |-> <<id, i>>]

(* Mutant of scd_cbwrite: the copy is not cut at the end of the buffer. *)
CbWriteStraight(id, n) ==
    /\ rbuffer' = [a \in DOMAIN rbuffer |->
                     IF a \in writeptr .. (writeptr + n - 1) THEN <<id, a - writeptr + 1>> ELSE rbuffer[a]]
    /\ writeptr' = (writeptr + n) % Size
    /\ UNCHANGED readptr

(* Mutant of scd_cbwrite: the write pointer is not taken back. *)
CbWriteOn(id, n) ==
    /\ rbuffer' = [a \in DOMAIN rbuffer |->
                     LET i == (a - writeptr + Size) % Size
                     IN  IF i < n THEN <<id, i + 1>> ELSE rbuffer[a]]
    /\ writeptr' = writeptr + n
    /\ UNCHANGED readptr

(* The copy of a message that fits; one that does not is dropped (see Append1). *)
scd_cbwrite(id, n) ==
    /\ rbuffer' = [a \in DOMAIN rbuffer |->
                     LET i == (a - writeptr + Size) % Size
                     IN  IF i < n THEN <<id, i + 1>> ELSE rbuffer[a]]
    /\ writeptr' = (writeptr + n) % Size
    /\ UNCHANGED readptr

(* The use of a ring with the pointers r and w, of 128. *)
scd_cbmemuse(r, w) ==
    IF w = r THEN 128
    ELSE LET free == IF w >= r THEN Size - w + r - 1 ELSE r - w - 1
         IN  128 - ((free * 128) \div Size)

(* What is between two pointers, as scd_cbread takes it. *)
scd_cbread(r, w) ==
    IF w >= r THEN [i \in 1 .. (w - r) |-> rbuffer[r + i - 1]]
    ELSE [i \in 1 .. (Size - r) |-> rbuffer[r + i - 1]] \o [i \in 1 .. w |-> rbuffer[i - 1]]

-----------------------------------------------------------------------------
(* The SD card (module SdFiles), as the library uses it: an operation may fail. *)

Event == fails + quits + sets + (IF init /\ ~mine THEN 1 ELSE 0) < MaxEvents

SdFails == Event /\ fails' = fails + 1

Change == Event /\ sets' = sets + 1

(* sc_initlink *)
sc_initlink(s) == address' = s.link

(* sc_settings_read: a file that cannot be read is removed, and defaults are used. *)
sc_settings_read ==
    \/ /\ file # NoFile
       /\ set' = file /\ sc_initlink(file)
       /\ UNCHANGED <<file, fails>>
    \/ /\ IF file = NoFile THEN UNCHANGED fails ELSE SdFails
       /\ file' \in {file, NoFile}
       /\ set' = Default /\ sc_initlink(Default)

(* sc_init_cfg: the library starts with an empty ring. *)
sc_init ==
    /\ ~init
    /\ init' = TRUE /\ mine' = TRUE
    /\ logged' \in BOOLEAN      \* SC_INITFLAG_KEEPLOG
    /\ sc_settings_read
    /\ UNCHANGED <<todo, ring, flags, proc_complete, sdlog, sets, satlink, history>>

(* Mutant of sc_settings_write: the link is not chosen anew. *)
SettingsWriteNoLink ==
    /\ init /\ todo = <<>> /\ Change
    /\ set' \in Settings
    /\ UNCHANGED address
    /\ \/ file' = set' /\ UNCHANGED fails
       \/ SdFails /\ file' \in {file, NoFile}
    /\ UNCHANGED <<init, todo, logged, mine, ring, flags, proc_complete, sdlog, satlink, history>>

(* The result of scf_write is not used; a write that fails may leave no valid file. *)
sc_settings_write ==
    /\ init /\ todo = <<>> /\ Change
    /\ set' \in Settings
    /\ sc_initlink(set')
    /\ \/ file' = set' /\ UNCHANGED fails
       \/ SdFails /\ file' \in {file, NoFile}
    /\ UNCHANGED <<init, todo, logged, mine, ring, flags, proc_complete, sdlog, satlink, history>>

(* sc_settings_clear: the file is removed and the settings are read again. *)
sc_settings_clear ==
    /\ init /\ todo = <<>> /\ Change
    /\ \/ /\ file' = NoFile /\ set' = Default /\ sc_initlink(Default)
          /\ UNCHANGED fails
       \/ /\ SdFails /\ UNCHANGED file
          /\ set' = (IF file = NoFile THEN Default ELSE file) /\ sc_initlink(set')
    /\ UNCHANGED <<init, todo, logged, mine, ring, flags, proc_complete, sdlog, satlink, history>>

-----------------------------------------------------------------------------
(* The calls of the program, as what they do one after the other. *)

Log(kind, n) == [op |-> "log", kind |-> kind, len |-> n]
Post == [op |-> "post", kind |-> "request", len |-> RequestLen]
Flush == [op |-> "flush", kind |-> "none", len |-> 0]
Reset == [op |-> "reset", kind |-> "none", len |-> 0]
Wait == [op |-> "wait", kind |-> "none", len |-> 0]
At(op) == todo # <<>> /\ Head(todo).op = op

Room(n) == Len(msgs) + n =< MaxMsgs

Call(ops) ==
    /\ init /\ todo = <<>>
    /\ todo' = ops
    /\ UNCHANGED <<init, set, address, logged, mine, ring, flags, proc_complete, sdcard, satlink, history>>

(* _scd_internal_logout and _scd_internal_msgout; with wh_on_log the place comes first. *)
scd_logout ==
    /\ ~dbg_disable /\ Room(2)
    /\ \E n \in LogLens : Call((IF wh_on_log THEN <<Log("msg", n)>> ELSE <<>>) \o <<Log("msg", n)>>)

(* scd_prompt *)
scd_prompt ==
    /\ ~dbg_disable /\ Room(1)
    /\ \E n \in LogLens : Call(<<Log("prompt", n), Reset, Wait>>)

scd_logflush == ~dbg_disable /\ Call(<<Flush>>)

(* Mutant of FileRequest: the ring is not emptied first. *)
FileRequestUnflushed == <<Post, Wait>>

(* _scd_file_request: the ring is emptied, the request written, and SatLink waited for. *)
FileRequest == <<Flush, Post, Wait>>

(***************************************************************************)
(* scf_size, scf_write, scf_append, scf_mkdir, scf_delete and scf_filelist *)
(* on the PC are one request; scf_read asks for the size first, and for    *)
(* nothing more when there is nothing to read.                             *)
(***************************************************************************)
scf_call ==
    /\ ~dbg_disable
    /\ \/ Room(1) /\ Call(FileRequest)
       \/ Room(2) /\ Call(FileRequest \o FileRequest)

-----------------------------------------------------------------------------
(* The steps of a call. *)

Id == Len(msgs) + 1

(* A message goes into the ring, or is dropped when it does not fit. *)
Append1(m) ==
    /\ msgs' = Append(msgs, [kind |-> m.kind, len |-> m.len])
    /\ IF Fits(m.len)
       THEN scd_cbwrite(Id, m.len) /\ kept' = Append(kept, Id) /\ UNCHANGED lost
       ELSE /\ lost' = (lost \/ m.op = "post" \/ guarded)
            /\ UNCHANGED <<ring, kept>>

(* The message is appended to the log file; the old log is removed once. *)
SdLog(m) ==
    IF set.log /\ m.kind = "msg"
    THEN /\ logged' = TRUE
         /\ \/ sdlog' = Append(IF logged THEN sdlog ELSE <<>>, Id) /\ UNCHANGED fails
            \/ SdFails /\ sdlog' \in {sdlog, IF logged THEN sdlog ELSE <<>>}
    ELSE UNCHANGED <<sdlog, logged, fails>>

(* Mutant of MustFlush: the ring is emptied when it is full. *)
MustFlushLate == dbg_on /\ (dbg_logflush \/ scd_cbmemuse(readptr', writeptr') >= 128)

MustFlush == dbg_on /\ (dbg_logflush \/ scd_cbmemuse(readptr', writeptr') >= 96)

(* _scd_log_append *)
DoLog ==
    /\ At("log")
    /\ Append1(Head(todo))
    /\ SdLog(Head(todo))
    /\ todo' = (IF MustFlush THEN <<Flush>> ELSE <<>>) \o Tail(todo)
    /\ guarded' = dbg_on
    /\ UNCHANGED <<init, set, address, mine, flags, proc_complete, file, sets, satlink, answer>>

(* Mutant of DoPost: an old answer is not taken back. *)
DoPostKeep ==
    /\ At("post")
    /\ Append1(Head(todo))
    /\ todo' = Tail(todo)
    /\ UNCHANGED <<proc_complete, init, set, address, logged, mine, flags, sdcard, satlink, guarded, answer>>

DoPost ==
    /\ At("post")
    /\ Append1(Head(todo))
    /\ proc_complete' = 0
    /\ todo' = Tail(todo)
    /\ UNCHANGED <<init, set, address, logged, mine, flags, sdcard, satlink, guarded, answer>>

(* scd_logflush: it does not wait for what SatLink cannot see. *)
DoFlush ==
    /\ At("flush")
    /\ writeptr = readptr \/ ~mine
    /\ todo' = Tail(todo)
    /\ UNCHANGED <<init, set, address, logged, mine, ring, flags, proc_complete, sdcard, satlink, history>>

(* scd_prompt takes an old answer back after it has written the prompt. *)
DoReset ==
    /\ At("reset")
    /\ proc_complete' = 0
    /\ todo' = Tail(todo)
    /\ UNCHANGED <<init, set, address, logged, mine, ring, flags, sdcard, satlink, history>>

(* The wait ends.  A size of zero ends scf_read. *)
DoWait ==
    /\ At("wait")
    /\ proc_complete # 0
    /\ answer' = <<Len(msgs), proc_complete>>
    /\ todo' \in {Tail(todo), <<>>}
    /\ UNCHANGED <<init, set, address, logged, mine, ring, flags, proc_complete, sdcard, satlink,
                   msgs, kept, guarded, lost>>

Program == sc_init \/ sc_settings_write \/ sc_settings_clear \/ scd_logout \/ scd_prompt
           \/ scd_logflush \/ scf_call
Step == DoLog \/ DoPost \/ DoFlush \/ DoReset \/ DoWait

(* Another program with its own debugger data starts (external). *)
Hide ==
    /\ init /\ mine /\ todo = <<>> /\ Event
    /\ mine' = FALSE
    /\ UNCHANGED <<init, todo, set, address, logged, ring, flags, proc_complete, sdcard, satlink, history>>

-----------------------------------------------------------------------------
(* SatLink (external): each command is served by one sc_check. *)

sc_check ==
    /\ init /\ mine /\ address # "none"
    /\ \/ todo = <<>>
       \/ At("flush") /\ readptr # writeptr
       \/ At("wait") /\ proc_complete = 0

Connect ==
    /\ sc_check /\ link = "off"
    /\ link' = "poll"
    /\ dbg_on' = TRUE
    /\ \E choice \in {"none", "flush", "where", "disable"} :
         /\ dbg_logflush' = (choice = "flush") /\ wh_on_log' = (choice = "where")
         /\ dbg_disable' = (choice = "disable")
    /\ UNCHANGED <<program, ring, proc_complete, sdcard, polled, inbox, stream, quits, history>>

PollRing ==
    /\ sc_check /\ link = "poll"
    /\ readptr # writeptr
    /\ polled' = writeptr
    /\ link' = "data"
    /\ UNCHANGED <<program, ring, flags, proc_complete, sdcard, inbox, stream, quits, history>>

IsAsk(c) == c[2] = 1 /\ c[1] # 0 /\ msgs[c[1]].kind \in {"prompt", "request"}

(* What there is to serve in the data, by where it starts. *)
Serves(data) ==
    LET upto[i \in 0 .. Len(data)] ==
          IF i = 0 THEN <<>>
          ELSE IF IsAsk(data[i]) THEN Append(upto[i - 1], data[i][1]) ELSE upto[i - 1]
    IN  upto[Len(data)]

ReadRing ==
    /\ sc_check /\ link = "data"
    /\ LET data == scd_cbread(readptr, polled)
       IN  stream' = stream \o data /\ inbox' = inbox \o Serves(data)
    /\ link' = "ack"
    /\ UNCHANGED <<program, ring, flags, proc_complete, sdcard, polled, quits, history>>

(* The read pointer is written before anything is served. *)
WriteReadPtr ==
    /\ sc_check /\ link = "ack"
    /\ readptr' = polled
    /\ link' = IF inbox = <<>> THEN "poll" ELSE "serve"
    /\ UNCHANGED <<program, rbuffer, writeptr, flags, proc_complete, sdcard, polled, inbox, stream, quits,
                   history>>

(* The request is served, then proc_complete is written. *)
Serve ==
    /\ sc_check /\ link = "serve"
    /\ proc_complete' = Head(inbox)
    /\ inbox' = Tail(inbox)
    /\ link' = IF inbox' = <<>> THEN "poll" ELSE "serve"
    /\ UNCHANGED <<program, ring, flags, sdcard, polled, stream, quits, history>>

(* SatLink stops: dbg_on stays as it is. *)
Quit ==
    /\ link # "off" /\ Event
    /\ quits' = quits + 1
    /\ link' = "off" /\ inbox' = <<>>
    /\ stream' = IF link = "ack" THEN SubSeq(stream, 1, Len(stream) - Len(scd_cbread(readptr, polled)))
                 ELSE stream
    /\ UNCHANGED <<program, ring, flags, proc_complete, sdcard, polled, history>>

SatLink == Connect \/ PollRing \/ ReadRing \/ WriteReadPtr \/ Serve

-----------------------------------------------------------------------------
DebugInit ==
    /\ init = FALSE /\ todo = <<>> /\ set = Default /\ address = "none" /\ logged = FALSE
    /\ mine = FALSE
    /\ rbuffer = [a \in 0 .. (Size - 1) |-> <<0, 0>>] /\ readptr = 0 /\ writeptr = 0
    /\ dbg_on = FALSE /\ dbg_disable = FALSE /\ dbg_logflush = FALSE /\ wh_on_log = FALSE
    /\ proc_complete = 0
    /\ file \in {NoFile, [link |-> "usb", log |-> TRUE]}
    /\ sdlog = <<0>>        \* a message of an earlier program
    /\ link = "off" /\ polled = 0 /\ inbox = <<>> /\ stream = <<>>
    /\ msgs = <<>> /\ kept = <<>> /\ guarded = FALSE /\ lost = FALSE /\ answer = <<0, 0>>
    /\ fails = 0 /\ quits = 0 /\ sets = 0

DebugNext == Program \/ Step \/ Hide \/ SatLink \/ Quit

DebugSpec == DebugInit /\ [][DebugNext]_debugVars

(***************************************************************************)
(* The program's steps are taken, and SatLink, while it runs, goes on (it  *)
(* polls in a loop and is started again).                                  *)
(***************************************************************************)
FairDebugSpec == DebugSpec /\ WF_debugVars(Step) /\ WF_debugVars(SatLink)

-----------------------------------------------------------------------------
(* Pointers stay in the ring, the settings are ones that exist, and no answer is ahead of its request. *)
DebugTypeOK ==
    /\ {readptr, writeptr, polled} \subseteq 0 .. (Size - 1)
    /\ DOMAIN rbuffer = 0 .. (Size - 1)
    /\ set \in Settings /\ file \in Settings \union {NoFile}
    /\ Len(todo) =< 7 /\ proc_complete \in 0 .. Len(msgs)

Bytes(ids) ==
    LET upto[k \in 0 .. Len(ids)] ==
          IF k = 0 THEN <<>> ELSE upto[k - 1] \o Cells(ids[k], msgs[ids[k]].len)
    IN  upto[Len(ids)]

(***************************************************************************)
(* What SatLink has received and what the ring still holds are all         *)
(* messages that were not dropped, whole, in order and once: no write      *)
(* touches what is unread, the wrap included.                              *)
(***************************************************************************)
StreamWhole ==
    (IF link = "ack" THEN SubSeq(stream, 1, Len(stream) - Len(scd_cbread(readptr, polled))) ELSE stream)
      \o scd_cbread(readptr, writeptr) = Bytes(kept)

(***************************************************************************)
(* No file request is ever dropped, nor a message once one was written     *)
(* with the debugger on: the flush at three quarters keeps room for the    *)
(* next, while the global data is this program's.                          *)
(***************************************************************************)
NothingLost == lost => ~mine

(* What a call returns is the answer to what it asked, never to an earlier request. *)
AnswerFresh == answer[1] = answer[2]

(* The settings in memory, those on the card and the link in use agree, unless the card failed. *)
SettingsAgree ==
    init => /\ address = set.link
            /\ fails = 0 => set = (IF file = NoFile THEN Default ELSE file)

(***************************************************************************)
(* The debugger's ring, link and settings are sound: pointers stay in the  *)
(* ring, messages arrive whole and are not dropped, settings agree.        *)
(***************************************************************************)
LinkSound == DebugTypeOK /\ StreamWhole /\ NothingLost /\ SettingsAgree

(***************************************************************************)
(* Every call returns while SatLink runs, serves this program and has a    *)
(* link to it, except for a prompt that was dropped because the ring was   *)
(* full.                                                                   *)
(***************************************************************************)
CallEnds ==
    (todo # <<>>) ~> \/ todo = <<>> \/ ~mine \/ address = "none" \/ quits > 0
                     \/ (At("wait") /\ msgs[Len(msgs)].kind = "prompt"
                           /\ Len(msgs) \notin {kept[i] : i \in DOMAIN kept})

=============================================================================
