------------------------------ MODULE SdPacket ------------------------------
(***************************************************************************)
(* The SD card driver of the console (sdcard_packet.c): identification of  *)
(* the card in sdc_init, and the single-block commands by which            *)
(* fat_media_read and fat_media_write reach it, against a card that may be *)
(* of any kind, not answer, refuse data or be exchanged at any moment.     *)
(*                                                                         *)
(* One step is one command packet, and a block command is two or three:    *)
(* its header, its data, and the wait for the end of the programming.      *)
(* The bits on the lines, the CRCs and the timing counters are left out;   *)
(* of stat_reg_buffer three bytes are kept, the ones that are looked at.   *)
(* READ_MULTIPLE and WRITE_MULTIPLE are sent by nobody and left out.       *)
(***************************************************************************)
EXTENDS Integers, Sequences

CONSTANTS
    Kinds,      \* the cards: a subset of {"v1", "v2", "hc", "mmc"}
    LastBlock,  \* the last block of a card
    BlockSize,  \* SDC_BLOCK_SIZE
    New,        \* the value that is written
    MaxTries,   \* turns of the ACMD41 loop: 5000
    MaxCount,   \* blocks in one access
    MaxFaults,  \* bound on the packets that go wrong
    MaxSwaps    \* bound on the exchanges of the card

ASSUME PacketAssumption ==
    /\ Kinds \subseteq {"v1", "v2", "hc", "mmc"}
    /\ {LastBlock, MaxFaults, MaxSwaps} \subseteq Nat /\ {BlockSize, MaxTries, MaxCount} \subseteq Nat \ {0}
    /\ New \notin 0 .. LastBlock

VARIABLES
    pc,         \* where the driver is
    call,       \* the access: kind, first block, number of blocks, blocks done
    ver2,       \* sd->sd_ver2
    mmc,        \* sd->mmc
    ccs,        \* sd->ccs
    tries,      \* i of the ACMD41 loop
    timeout,    \* sd->packet_timeout
    stat,       \* sd->stat_reg_buffer: R1, bit 30 of the OCR, top bits of byte 3
    initOk,     \* sd->init_ok
    io,         \* the CS line (low?) and the LEDs
    data,       \* the caller's buffer
    cart,       \* is the cartridge there (sc_extdev_getid)?
    card,       \* the card in the slot
    reinsert,   \* REG_SD_REINSERT
    faults, swaps,
    may,        \* what each block may hold, as the calls so far have it
    blind,      \* an identification of this card went on without an OCR
    token,      \* the card answered a read of this call by an error token
    erred       \* a call has failed since the last identification

driver == <<pc, call, ver2, mmc, ccs, tries, timeout, stat, initOk, io, data>>
known == <<ver2, mmc, ccs, tries>>
ghosts == <<may, blind, token, erred>>
world == <<cart, reinsert, swaps>>
vars == <<driver, world, card, faults, ghosts>>

Blocks == 0 .. LastBlock

-----------------------------------------------------------------------------
(* The card.  It is native until CMD0, then idle, then ready; only a ready  *)
(* one carries out block commands.  DOUT is high when nothing drives it.    *)

NoCard == [kind |-> "none", mode |-> "native", wake |-> 0, app |-> FALSE, at |-> -1, cells |-> [b \in Blocks |-> 0]]
Fresh(k, w) == [NoCard EXCEPT !.kind = k, !.wake = w, !.cells = [b \in Blocks |-> b]]

(* A block command is meant for block Target, or for none. *)
Target(arg) ==
    IF card.kind = "hc" THEN IF arg \in Blocks THEN arg ELSE -1
    ELSE IF arg % BlockSize = 0 /\ arg \div BlockSize \in Blocks THEN arg \div BlockSize ELSE -1

Answered(r1, b1, b3, c) == [ans |-> TRUE, r1 |-> r1, b1 |-> b1, b3 |-> b3, card |-> c]
Silent == [ans |-> FALSE, r1 |-> "ready", b1 |-> 0, b3 |-> 0, card |-> card]

State == IF card.mode = "ready" THEN "ready" ELSE "idle"
Never == MaxTries      \* a card that does not leave the idle state
Opened == CASE card.wake = 0 -> [card EXCEPT !.mode = "ready", !.app = FALSE]
            [] card.wake = Never -> [card EXCEPT !.app = FALSE]
            [] OTHER -> [card EXCEPT !.wake = @ - 1, !.app = FALSE]

(* What the card answers to a command when nothing goes wrong: R1, and the  *)
(* bytes 1 and 3 of longer answers, which are ones when there are none.     *)
Answer(cmd, arg) ==
    LET plain == [card EXCEPT !.app = FALSE]
        none == Answered("error", 1, 3, plain)
    IN  IF card.kind = "none" \/ (card.mode = "native" /\ cmd # "CMD0") THEN {Silent} ELSE
        CASE cmd = "CMD0" -> {Answered("idle", 0, 0, [plain EXCEPT !.mode = "idle", !.at = -1])}
          [] cmd = "CMD8" -> IF card.kind \in {"v2", "hc"} THEN {Answered("idle", 0, 0, plain)} ELSE {none}
          [] cmd = "CMD55" -> {Answered(State, 0, 0, [card EXCEPT !.app = TRUE])}
          [] cmd = "CMD41" -> IF card.app /\ card.kind # "mmc"
                              THEN {Answered(IF card.wake = 0 THEN "ready" ELSE "idle", 0, 0, Opened)}
                              ELSE {none}
          [] cmd = "CMD1" -> {Answered(IF card.wake = 0 THEN "ready" ELSE "idle", 0, 0, Opened)}
          [] cmd = "CMD58" -> {Answered(State, IF card.kind = "hc" THEN 1 ELSE 0, 2, plain)}
          [] cmd \in {"CMD9", "CMD10"} /\ card.mode # "ready" -> {none}
          [] cmd = "CMD10" /\ card.mode = "ready" -> {Answered("ready", 0, b3, plain) : b3 \in {0, 1}}
          [] cmd = "CMD9" /\ card.mode = "ready" -> {Answered("ready", 0, b3, plain) :
                                 b3 \in CASE card.kind = "hc" -> {1} [] card.kind = "mmc" -> {1, 2} [] OTHER -> {0}}
          [] cmd = "CMD16" -> {Answered(State, 0, 0, plain)}
          [] OTHER -> {LET t == IF card.mode = "ready" THEN Target(arg) ELSE -1
                       IN  Answered(IF t = -1 THEN "error" ELSE "ready", 0, 0, [plain EXCEPT !.at = t])}

(* A packet may go wrong: no answer, or another one. *)
Damaged(cmd) == {Silent} \union
    (IF card.kind # "none" /\ cmd \in {"CMD0", "CMD8", "CMD55", "CMD41", "CMD1"}
     THEN {Answered("error", 1, 3, card), Answered("idle", 1, 3, card)} ELSE {})

-----------------------------------------------------------------------------
(* sdc_sendpacket *)

Long == {"CMD8", "CMD58", "CMD9", "CMD10"}

(* A broken variant: every card gets block numbers. *)
AddressByBlock(block) == block

(* Cards that are addressed by bytes get block numbers times 512. *)
Address(block) == IF ccs = 0 THEN block * BlockSize ELSE block

(* A broken variant: the card stays selected. *)
PacketFailsSelected == [low |-> TRUE, green |-> TRUE, red |-> TRUE]

(* What is left after an error inside a packet: the green LED stays on. *)
PacketFails == [low |-> FALSE, green |-> TRUE, red |-> TRUE]

(* The packet is sent and its header waited for: the driver's state after    *)
(* it.  A command without data ends with its header, CS still low.           *)
Sent(cmd, arg) ==
    {[timeout |-> ~x[1].ans, card |-> x[1].card, faults |-> faults + x[2],
      stat |-> IF ~x[1].ans THEN [stat EXCEPT !.r1 = "ready"]
               ELSE IF cmd \in Long THEN [r1 |-> x[1].r1, b1 |-> x[1].b1, b3 |-> x[1].b3]
               ELSE [stat EXCEPT !.r1 = x[1].r1],
      io |-> IF ~x[1].ans THEN PacketFails ELSE [io EXCEPT !.low = TRUE, !.green = FALSE]] :
        x \in (Answer(cmd, arg) \X {0}) \union (IF faults < MaxFaults THEN Damaged(cmd) \X {1} ELSE {})}

Take(r) == timeout' = r.timeout /\ stat' = r.stat /\ card' = r.card /\ faults' = r.faults

-----------------------------------------------------------------------------
(* The callers in sdcard_fat.c: identify the card when needed, then do what  *)
(* the file system asks for.                                                 *)

Begin(kind, first, count) ==
    /\ pc = "idle"
    /\ first + count - 1 \in Blocks
    /\ call' = [kind |-> kind, first |-> first, count |-> count]
    /\ pc' = IF ~initOk \/ (cart /\ reinsert) THEN "init" ELSE "access"
    /\ token' = FALSE
    /\ data' = <<>>
    /\ UNCHANGED <<known, timeout, stat, initOk, io, world, card, faults, may, blind, erred>>

(* sdc_init up to CMD0: memset, then the tests for cartridge and card. *)
sdc_init ==
    /\ pc = "init"
    /\ ver2' = FALSE /\ mmc' = FALSE /\ ccs' = 0 /\ tries' = 0 /\ timeout' = FALSE
    /\ stat' = [r1 |-> "ready", b1 |-> 0, b3 |-> 0]
    /\ initOk' = FALSE
    /\ IF ~cart \/ card.kind = "none"
       THEN /\ pc' = "idle"
            /\ UNCHANGED <<io, reinsert>>
       ELSE /\ pc' = "CMD0"
            /\ reinsert' = FALSE
            /\ io' = [low |-> TRUE, green |-> TRUE, red |-> TRUE]
    /\ UNCHANGED <<call, data, cart, swaps, card, faults, may, blind, token, erred>>

(* The way out of sdc_init after an error: the red LED only. *)
InitFails ==
    /\ pc' = "idle"
    /\ erred' = TRUE
    /\ io' = [low |-> FALSE, green |-> FALSE, red |-> TRUE]

Goes(r, next) == pc' = next /\ io' = r.io /\ UNCHANGED erred

Unanswered(r) == r.timeout \/ r.stat.r1 # "idle"

GoIdle ==
    /\ pc = "CMD0"
    /\ \E r \in Sent("CMD0", 0) :
         /\ Take(r)
         /\ IF Unanswered(r) THEN InitFails ELSE Goes(r, "CMD8")
    /\ UNCHANGED <<call, known, initOk, data, world, may, blind, token>>

(* R7 without the check pattern of CMD8 is the end; i is still 74, not 0. *)
SendIfCond ==
    /\ pc = "CMD8"
    /\ \E r \in Sent("CMD8", 0) :
         /\ Take(r)
         /\ ver2' = (~Unanswered(r) /\ r.stat.b1 = 0)
         /\ IF ~Unanswered(r) /\ r.stat.b1 # 0 THEN InitFails ELSE Goes(r, "CMD55")
    /\ UNCHANGED <<call, mmc, ccs, tries, initOk, data, world, may, blind, token>>

(* One turn of the loop: CMD1, or CMD55 whose answer nobody looks at. *)
AppCmd ==
    /\ pc = "CMD55"
    /\ \E r \in Sent("CMD55", 0) : Take(r) /\ Goes(r, "CMD41")
    /\ UNCHANGED <<call, known, initOk, data, world, may, blind, token>>

(* A broken variant: the loop counter is not advanced. *)
NextTryStuck == tries

NextTry == tries + 1

(* A broken variant: one turn too many. *)
TryOnceMore(next) == IF tries < MaxTries THEN next ELSE "CMD58"

TryAgain(next) == IF NextTry < MaxTries THEN next ELSE "CMD58"

SendOpCond ==
    /\ pc \in {"CMD41", "CMD1"}
    /\ tries' = NextTry
    /\ \E r \in Sent(pc, 0) :
         /\ Take(r)
         /\ \/ /\ ~r.timeout /\ r.stat.r1 = "ready"
               /\ Goes(r, "CMD58")
               /\ UNCHANGED mmc
            \/ /\ r.timeout \/ r.stat.r1 # "ready"
               /\ tries = 0 /\ ~ver2
               /\ mmc' = TRUE
               /\ Goes(r, TryAgain("CMD1"))
            \/ /\ r.timeout \/ r.stat.r1 # "ready"
               /\ tries # 0 \/ ver2
               /\ IF Unanswered(r) THEN InitFails ELSE Goes(r, TryAgain(IF mmc THEN "CMD1" ELSE "CMD55"))
               /\ UNCHANGED mmc
    /\ UNCHANGED <<call, ver2, ccs, initOk, data, world, may, blind, token>>

(* CMD58: its result is not checked. *)
ReadOcr ==
    /\ pc = "CMD58"
    /\ \E r \in Sent("CMD58", 0) : Take(r) /\ ccs' = r.stat.b1 /\ blind' = (blind \/ r.timeout) /\ Goes(r, "CMD10")
    /\ UNCHANGED <<call, ver2, mmc, tries, initOk, data, world, may, token>>

SendCid ==
    /\ pc = "CMD10"
    /\ \E r \in Sent("CMD10", 0) : Take(r) /\ Goes(r, "CMD55b")
    /\ UNCHANGED <<call, known, initOk, data, world, may, blind, token>>

AppCmdAgain ==
    /\ pc = "CMD55b"
    /\ \E r \in Sent("CMD55", 0) : Take(r) /\ Goes(r, "CMD9")
    /\ UNCHANGED <<call, known, initOk, data, world, may, blind, token>>

(* CMD9: the two top bits of what is in the buffer are the version. *)
Ready == [low |-> FALSE, green |-> FALSE, red |-> FALSE]

SendCsd ==
    /\ pc = "CMD9"
    /\ \E r \in Sent("CMD9", 0) :
         /\ Take(r)
         /\ IF r.stat.b3 \notin {0, 1} THEN InitFails
            ELSE IF ver2 THEN Goes(r, "CMD16")
            ELSE pc' = "attach" /\ io' = Ready /\ erred' = FALSE
    /\ UNCHANGED <<call, known, initOk, data, world, may, blind, token>>

SetBlockLen ==
    /\ pc = "CMD16"
    /\ \E r \in Sent("CMD16", 0) : Take(r)
    /\ pc' = "attach" /\ io' = Ready /\ erred' = FALSE
    /\ UNCHANGED <<call, known, initOk, data, world, may, blind, token>>

-----------------------------------------------------------------------------
(* Block commands: sdc_read_multiple_blocks and sdc_write_multiple_blocks    *)
(* send one for each block and stop at the first error.  fl_attach_media     *)
(* reads block 0 before anything else.                                       *)

(* A broken variant: the block number does not advance with the buffer. *)
BlockFirst == call.first

Block == call.first + Len(data)

(* An error inside a block command: the access fails. *)
AccessFails ==
    /\ timeout' = TRUE
    /\ io' = PacketFails
    /\ pc' = "idle"
    /\ erred' = TRUE

(* CMD17 or CMD24 is sent; the value of R1 is not looked at. *)
Send(cmd, block, next) ==
    \E r \in Sent(cmd, Address(block)) :
      /\ stat' = r.stat /\ card' = r.card /\ faults' = r.faults
      /\ IF r.timeout THEN AccessFails
         ELSE pc' = next /\ timeout' = FALSE /\ io' = [r.io EXCEPT !.green = TRUE] /\ UNCHANGED erred

Attach ==
    /\ pc = "attach"
    /\ Send("CMD17", 0, "attached")
    /\ UNCHANGED <<call, known, initOk, data, world, may, blind, token>>

ReadSingleBlock ==
    /\ pc = "access" /\ call.kind = "read"
    /\ Send("CMD17", Block, "data")
    /\ UNCHANGED <<call, known, initOk, data, world, may, blind, token>>

WriteSingleBlock ==
    /\ pc = "access" /\ call.kind = "write"
    /\ Send("CMD24", Block, "reply")
    /\ may' = [may EXCEPT ![Block] = @ \union {New}]
    /\ UNCHANGED <<call, known, initOk, data, world, blind, token>>

(* The data of a block, or, when something goes wrong, nothing or an error   *)
(* token, whose zero bits are a start bit too.                               *)
Garbage == -1
Incoming ==
    (IF card.kind # "none" /\ card.mode = "ready" /\ card.at # -1
     THEN {<<card.cells[card.at], 0>>} \union (IF faults < MaxFaults THEN {<<Garbage, 1>>} ELSE {})
     ELSE {}) 
Nothing == Incoming = {} \/ faults < MaxFaults

More == IF Len(data) + 1 = call.count THEN "idle" ELSE "access"
Done == [low |-> FALSE, green |-> FALSE, red |-> io.red]

ReadData ==
    /\ pc \in {"data", "attached"}
    /\ \/ \E x \in Incoming :
            /\ timeout' = FALSE /\ io' = Done
            /\ faults' = faults + x[2]
            /\ token' = (token \/ x[2] = 1)
            /\ IF pc = "data" THEN pc' = More /\ data' = Append(data, x[1]) /\ UNCHANGED initOk
               ELSE /\ pc' = IF x[1] = Garbage THEN "idle" ELSE "access"
                    /\ initOk' = (x[1] # Garbage)
                    /\ UNCHANGED data
            /\ UNCHANGED erred
       \/ /\ Nothing
          /\ faults' = faults + (IF Incoming = {} THEN 0 ELSE 1)
          /\ AccessFails
          /\ UNCHANGED <<data, initOk, token>>
    /\ UNCHANGED <<call, known, stat, world, card, may, blind>>

(* The block went out: the card takes it and is busy, or does not. *)
DataResponse ==
    /\ pc = "reply"
    /\ \/ /\ card.kind # "none" /\ card.mode = "ready" /\ card.at # -1
          /\ pc' = "busy"
          /\ UNCHANGED <<timeout, io, erred, faults>>
       \/ /\ card.mode # "ready" \/ card.at = -1 \/ faults < MaxFaults
          /\ faults' = faults + (IF card.mode = "ready" /\ card.at # -1 THEN 1 ELSE 0)
          /\ AccessFails
    /\ UNCHANGED <<call, known, stat, initOk, data, world, card, may, blind, token>>

(* The wait for the card, twice, ends when DOUT is high, or after            *)
(* SDC_POLL_COUNTMAX bytes; the card may finish its work all the same.       *)
Written == IF card.at = -1 THEN card ELSE [card EXCEPT !.cells[card.at] = New, !.at = -1]

WaitBusy ==
    /\ pc = "busy"
    /\ card' = Written
    /\ \/ /\ timeout' = FALSE /\ io' = Done
          /\ data' = Append(data, New)
          /\ pc' = More
          /\ may' = IF card.at = -1 THEN may ELSE [may EXCEPT ![Block] = {New}]
          /\ UNCHANGED <<erred, faults>>
       \/ /\ faults < MaxFaults /\ faults' = faults + 1
          /\ AccessFails
          /\ UNCHANGED <<data, may>>
    /\ UNCHANGED <<call, known, stat, initOk, world, blind, token>>

-----------------------------------------------------------------------------
(* The user takes the card out, and puts one in. *)

Eject ==
    /\ cart /\ card.kind # "none" /\ swaps < MaxSwaps
    /\ card' = NoCard
    /\ swaps' = swaps + 1
    /\ UNCHANGED <<driver, cart, reinsert, faults, ghosts>>

Insert(k, w) ==
    /\ cart /\ card.kind = "none"
    /\ card' = Fresh(k, w)
    /\ reinsert' = TRUE
    /\ may' = [b \in Blocks |-> {b}]
    /\ blind' = FALSE
    /\ UNCHANGED <<driver, cart, swaps, faults, token, erred>>

Init ==
    /\ pc = "idle" /\ call = [kind |-> "none", first |-> 0, count |-> 1]
    /\ ver2 = FALSE /\ mmc = FALSE /\ ccs = 0 /\ tries = 0 /\ timeout = FALSE
    /\ stat = [r1 |-> "ready", b1 |-> 0, b3 |-> 0]
    /\ initOk = FALSE /\ io = Ready /\ data = <<>>
    /\ cart \in BOOLEAN
    /\ card = NoCard /\ reinsert = FALSE /\ faults = 0 /\ swaps = 0
    /\ may = [b \in Blocks |-> {0}]
    /\ blind = FALSE /\ token = FALSE /\ erred = FALSE

Driver ==
    \/ sdc_init \/ GoIdle \/ SendIfCond \/ AppCmd \/ SendOpCond \/ ReadOcr \/ SendCid
    \/ AppCmdAgain \/ SendCsd \/ SetBlockLen \/ Attach \/ ReadSingleBlock \/ WriteSingleBlock
    \/ ReadData \/ DataResponse \/ WaitBusy

Next ==
    \/ Driver
    \/ \E kind \in {"read", "write"}, first \in Blocks, count \in 1 .. MaxCount : Begin(kind, first, count)
    \/ Eject
    \/ \E k \in Kinds, w \in 0 .. MaxTries : Insert(k, w)

Spec == Init /\ [][Next]_vars

(* The driver runs; the users of the card and of the driver may rest. *)
FairSpec == Spec /\ WF_vars(Driver)

-----------------------------------------------------------------------------
(* Properties *)

(* The variables keep their types, the identification loop keeps its bound,  *)
(* and no more blocks are moved than were asked for.                         *)
TypeOK ==
    /\ pc \in {"idle", "init", "access", "data", "reply", "busy", "attach", "attached", "CMD0", "CMD8",
               "CMD55", "CMD41", "CMD1", "CMD58", "CMD10", "CMD55b", "CMD9", "CMD16"}
    /\ {ver2, mmc, timeout, initOk, cart, reinsert, blind, token, erred} \subseteq BOOLEAN
    /\ ccs \in {0, 1} /\ tries \in 0 .. MaxTries
    /\ stat \in [r1 : {"ready", "idle", "error"}, b1 : {0, 1}, b3 : 0 .. 3]
    /\ io \in [low : BOOLEAN, green : BOOLEAN, red : BOOLEAN]
    /\ Len(data) <= call.count
    /\ card.kind \in Kinds \union {"none"} /\ card.at \in {-1} \union Blocks
    /\ may \in [Blocks -> SUBSET ({New} \union Blocks)]
    /\ faults \in 0 .. MaxFaults /\ swaps \in 0 .. MaxSwaps

(* A write changes the block it was asked to change and no other: whatever    *)
(* kind of card it is, whatever was said before about its addresses, and      *)
(* however often cards were exchanged, each block of the card in the slot     *)
(* holds what the calls since its insertion put there.  A write that failed   *)
(* may or may not have been done, and so may one whose card was taken out     *)
(* while it was busy: an empty slot looks like a card that has finished.  The *)
(* exception is sdc_init going on without an answer to CMD58, after which it  *)
(* takes the addressing from the bytes of an older answer.                    *)
RightBlock ==
    card.kind # "none" /\ ~blind => \A b \in Blocks : card.cells[b] \in may[b]

(* A read that reports no error gives the blocks that were asked for, all of  *)
(* them of the card that is in the slot: a card that was exchanged in the     *)
(* middle does not answer.  The exceptions are an unanswered CMD58, and an    *)
(* error token, which sdc_sendpacket takes for the start of the data.         *)
ReadTrue ==
    [][pc = "data" /\ pc' = "idle" /\ ~timeout' /\ ~blind /\ ~token'
         => \A i \in 1 .. call.count : data'[i] = card.cells[call.first + i - 1]]_vars

(* Between two calls the card is deselected, the green LED is on only after   *)
(* an error, and the red one tells whether a call has failed since the card   *)
(* was last identified: no way out of sdc_init or sdc_sendpacket forgets them.*)
LinesAtRest ==
    pc = "idle" => ~io.low /\ io.red = erred /\ (io.green => io.red)

(* The driver's state is sound: its loops keep their bounds, and every way    *)
(* out of a call leaves lines and LEDs as the next one expects them.          *)
DriverSound == TypeOK /\ LinesAtRest

(* Every call returns: a card that answers nothing, stays busy, never leaves  *)
(* its idle state or is taken out cannot hold the console.                    *)
CallReturns == (pc # "idle") ~> (pc = "idle")
=============================================================================
