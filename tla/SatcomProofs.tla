---------------------------- MODULE SatcomProofs ----------------------------
(***************************************************************************)
(* Proofs about satcom_lib, the library of the console.                    *)
(*                                                                         *)
(* The SD card driver (SdPacket): its state is sound in every reachable    *)
(* state (DriverSound), a write changes the block it was asked to change   *)
(* and no other (RightBlock), and a read that reports no error gives the   *)
(* blocks that were asked for (ReadTrue).  All three rest on one inductive *)
(* invariant.  Its heart is Addressing: a card that has heard CMD0 is      *)
(* addressed by its own kind, because the only way to a block command      *)
(* leads through CMD58 since the CMD0 that woke the card.  From it follows *)
(* Aimed, that a card with a pending block command means the block the     *)
(* driver means.                                                           *)
(*                                                                         *)
(* The compression (Lzf, ScFile): unpacking restores what was packed       *)
(* (RoundTrip), for every block and all widths of the format.  What the    *)
(* compressor has written so far decodes to what it has read so far, up to *)
(* the run of literals it holds back (Packing): a run and a reference are  *)
(* each decoded in one round (IsToken), and a round that decodes one is    *)
(* not disturbed by what follows (StepSame).  Both loops are recursive     *)
(* functions; that they have a solution, and what it is, is shown by       *)
(* induction over sets of numbers (NatBySet, Iterates).                    *)
(***************************************************************************)
EXTENDS SdPacket, ScFile, SequenceTheorems, WellFoundedInduction, TLAPS

(* The steps of sdc_init up to the loop, those after CMD58, and the access. *)
Opening == {"CMD0", "CMD8", "CMD55", "CMD41", "CMD1"}
Located == {"CMD10", "CMD55b", "CMD9", "CMD16", "attach", "attached"}
Identifying == Opening \union {"CMD58"} \union Located
Moving == {"access", "data", "reply", "busy"}

CardType ==
    [kind : Kinds \union {"none"}, mode : {"native", "idle", "ready"}, wake : 0 .. MaxTries, app : BOOLEAN,
     at : {-1} \union Blocks, cells : [Blocks -> Blocks \union {New}]]
StatType == [r1 : {"ready", "idle", "error"}, b1 : {0, 1}, b3 : 0 .. 3]
IoType == [low : BOOLEAN, green : BOOLEAN, red : BOOLEAN]

(* A card that has not heard CMD0 means no block. *)
CardSound(c) ==
    /\ c \in CardType
    /\ c.kind = "none" => c.mode = "native"
    /\ c.mode = "native" => c.at = -1

Flags ==
    /\ ver2 \in BOOLEAN /\ mmc \in BOOLEAN /\ timeout \in BOOLEAN /\ initOk \in BOOLEAN /\ cart \in BOOLEAN
    /\ reinsert \in BOOLEAN /\ blind \in BOOLEAN /\ token \in BOOLEAN /\ erred \in BOOLEAN

CallSound ==
    /\ call \in [kind : {"none", "read", "write"}, first : Blocks, count : Nat \ {0}]
    /\ call.first + call.count - 1 \in Blocks
    /\ data \in Seq({Garbage, New} \union Blocks)

Types ==
    /\ pc \in {"idle", "init"} \union Identifying \union Moving
    /\ CallSound
    /\ Flags
    /\ ccs \in {0, 1} /\ tries \in 0 .. MaxTries
    /\ stat \in StatType /\ io \in IoType
    /\ CardSound(card)
    /\ may \in [Blocks -> SUBSET ({New} \union Blocks)]
    /\ faults \in 0 .. MaxFaults /\ swaps \in 0 .. MaxSwaps

(* Where the driver is, and how far the access and the loop have come. *)
Progress ==
    /\ Len(data) =< call.count
    /\ pc # "idle" => Len(data) < call.count
    /\ pc \in {"init"} \union Identifying => data = <<>>
    /\ pc \in Opening => tries < MaxTries
    /\ pc \in Identifying => ~initOk
    /\ pc \in Moving => initOk
    /\ pc = "data" => call.kind = "read"
    /\ pc \in {"reply", "busy"} => call.kind = "write"

Lines ==
    /\ pc \in {"idle", "init", "attach", "attached"} \union Moving => io.red = erred
    /\ pc \in {"idle", "init", "attach", "access"} => ~io.low /\ (io.green => io.red)

(* The card has heard CMD0, and was not identified without its OCR. *)
Heard == card.mode # "native" /\ ~blind

(* The driver addresses such a card by the card's own kind. *)
Addressing ==
    Heard /\ (initOk \/ pc \in Located) => ccs = IF card.kind = "hc" THEN 1 ELSE 0

(* A pending block command means the driver's block. *)
Aimed ==
    /\ Heard /\ pc \in {"data", "reply", "busy"} => card.at \in {-1, Block}
    /\ Heard /\ pc \in {"reply", "busy"} => New \in may[Block]

(* What was read up to now is what the card holds. *)
ReadSoFar ==
    Heard /\ ~token /\ call.kind = "read" =>
        \A i \in 1 .. Len(data) : data[i] = card.cells[call.first + i - 1]

Inv == Types /\ Progress /\ Lines /\ Addressing /\ Aimed /\ ReadSoFar /\ RightBlock

-----------------------------------------------------------------------------
(* One packet *)

Plain == {"CMD0", "CMD8", "CMD55", "CMD41", "CMD1", "CMD58", "CMD9", "CMD10", "CMD16"}
BlockCmds == {"CMD17", "CMD24"}

(* What a packet leaves alone in the card c. *)
CardStep(cmd, c) ==
    /\ CardSound(c)
    /\ c.kind = card.kind /\ c.cells = card.cells
    /\ cmd # "CMD0" /\ card.mode = "native" => c.mode = "native"
    /\ cmd \in Plain => c.at \in {-1, card.at}

(* What the card answers, x, when nothing or something goes wrong. *)
Reply(cmd, arg, x) ==
    /\ x.ans \in BOOLEAN /\ x.r1 \in {"ready", "idle", "error"} /\ x.b1 \in {0, 1} /\ x.b3 \in 0 .. 3
    /\ CardStep(cmd, x.card)
    /\ ~x.ans => x.card = card
    /\ x.ans /\ cmd = "CMD58" => x.b1 = IF card.kind = "hc" THEN 1 ELSE 0
    /\ x.ans /\ cmd \in BlockCmds => x.card.at = IF card.mode = "ready" THEN Target(arg) ELSE -1

(* An argument means a block of the card, or none. *)
LEMMA TargetType ==
  ASSUME NEW arg PROVE Target(arg) \in {-1} \union Blocks
  BY DEF Target

(* The address of a block means that block to the card, when ccs says its kind. *)
LEMMA TargetOfAddress ==
  ASSUME NEW b \in Blocks, ccs = IF card.kind = "hc" THEN 1 ELSE 0
  PROVE  Target(Address(b)) = b
<1>1. b \in Nat /\ BlockSize \in Nat \ {0}
  BY PacketAssumption DEF Blocks
<1>2. CASE card.kind = "hc"
  BY <1>2 DEF Target, Address
<1>3. CASE card.kind # "hc"
  <2>1. (b * BlockSize) % BlockSize = 0 /\ (b * BlockSize) \div BlockSize = b
    BY <1>1
  <2> QED
    BY <1>3, <2>1 DEF Target, Address
<1> QED
  BY <1>2, <1>3

(* No answer at all changes nothing in the card. *)
LEMMA SilentReply ==
  ASSUME Types, NEW cmd \in Plain \union BlockCmds, NEW arg PROVE Reply(cmd, arg, Silent)
  BY DEF Types, Reply, CardStep, CardSound, CardType, Silent

(* An answer that leaves all of the card but its mode and what follows it. *)
LEMMA AnsweredReply ==
  ASSUME Types, NEW cmd \in Plain \union BlockCmds, NEW arg,
         NEW r1 \in {"ready", "idle", "error"}, NEW b1 \in {0, 1}, NEW b3 \in 0 .. 3, NEW c,
         CardStep(cmd, c),
         cmd = "CMD58" => b1 = IF card.kind = "hc" THEN 1 ELSE 0,
         cmd \in BlockCmds => c.at = IF card.mode = "ready" THEN Target(arg) ELSE -1
  PROVE  Reply(cmd, arg, Answered(r1, b1, b3, c))
  BY DEF Reply, Answered

(* The parts of the card that an answer changes. *)
LEMMA CardPlain ==
  ASSUME Types, NEW cmd \in Plain \union BlockCmds, NEW app \in BOOLEAN
  PROVE  CardStep(cmd, [card EXCEPT !.app = app])
  BY DEF Types, CardStep, CardSound, CardType

(* CMD0 brings a card to the idle state and drops a pending block. *)
LEMMA CardIdle ==
  ASSUME Types, card.kind # "none"
  PROVE  CardStep("CMD0", [[card EXCEPT !.app = FALSE] EXCEPT !.mode = "idle", !.at = -1])
  BY DEF Types, CardStep, CardSound, CardType, Plain

(* CMD41 and CMD1 bring a card that heard CMD0 nearer to ready. *)
LEMMA CardOpened ==
  ASSUME Types, card.kind # "none", card.mode # "native", NEW cmd \in {"CMD41", "CMD1"}
  PROVE  CardStep(cmd, Opened)
<1>1. MaxTries \in Nat \ {0}
  BY PacketAssumption
<1>2. card.wake \in 0 .. MaxTries
  BY DEF Types, CardSound, CardType
<1>3. CASE card.wake = 0
  BY <1>3 DEF Types, CardStep, CardSound, CardType, Plain, Opened
<1>4. CASE card.wake = Never /\ card.wake # 0
  BY <1>4 DEF Types, CardStep, CardSound, CardType, Plain, Opened
<1>5. CASE card.wake # 0 /\ card.wake # Never
  <2>1. card.wake - 1 \in 0 .. MaxTries
    BY <1>1, <1>2, <1>5
  <2>2. Opened = [card EXCEPT !.wake = @ - 1, !.app = FALSE]
    BY <1>5 DEF Opened
  <2> DEFINE w == card.wake - 1
  <2>3. Opened = [card EXCEPT !.wake = w, !.app = FALSE] /\ w \in 0 .. MaxTries
    BY <2>1, <2>2
  <2> HIDE DEF w
  <2>4. card \in CardType
    BY DEF Types, CardSound
  <2>5. /\ Opened.kind = card.kind /\ Opened.mode = card.mode /\ Opened.at = card.at
        /\ Opened.cells = card.cells
    BY <2>3, <2>4 DEF CardType
  <2>6. Opened \in CardType
    BY <2>3, <2>4 DEF CardType
  <2> QED
    BY <2>5, <2>6 DEF Types, CardStep, CardSound, Plain
<1> QED
  BY <1>3, <1>4, <1>5

(* A block command only sets the pending block. *)
LEMMA CardAimed ==
  ASSUME Types, card.kind # "none", card.mode # "native", NEW cmd \in BlockCmds,
         NEW t \in {-1} \union Blocks
  PROVE  CardStep(cmd, [[card EXCEPT !.app = FALSE] EXCEPT !.at = t])
  BY DEF Types, CardStep, CardSound, CardType, Plain, BlockCmds

(* The answer of a card to an undamaged packet. *)
LEMMA AnswerReply ==
  ASSUME Types, NEW cmd \in Plain \union BlockCmds, NEW arg, NEW x \in Answer(cmd, arg)
  PROVE  Reply(cmd, arg, x)
<1> DEFINE plain == [card EXCEPT !.app = FALSE]
<1> HIDE DEF plain
<1>0. CardStep(cmd, plain) /\ CardStep(cmd, [card EXCEPT !.app = TRUE])
  BY CardPlain DEF plain
<1>s. State \in {"ready", "idle"}
  BY DEF State
<1>1. CASE card.kind = "none" \/ (card.mode = "native" /\ cmd # "CMD0")
  <2>1. x = Silent
    BY <1>1 DEF Answer
  <2> QED
    BY <2>1, SilentReply
<1> SUFFICES ASSUME card.kind # "none", card.mode # "native" \/ cmd = "CMD0" PROVE Reply(cmd, arg, x)
  BY <1>1
<1>2. CASE cmd = "CMD0"
  <2>1. x = Answered("idle", 0, 0, [plain EXCEPT !.mode = "idle", !.at = -1])
    BY <1>2 DEF Answer, plain
  <2> QED
    BY <1>2, <2>1, CardIdle, AnsweredReply DEF plain, BlockCmds
<1>3. CASE cmd = "CMD8"
  <2>1. x = Answered("idle", 0, 0, plain) \/ x = Answered("error", 1, 3, plain)
    BY <1>3 DEF Answer, plain
  <2> QED
    BY <1>0, <1>3, <2>1, AnsweredReply DEF BlockCmds
<1>4. CASE cmd = "CMD55"
  <2>1. x = Answered(State, 0, 0, [card EXCEPT !.app = TRUE])
    BY <1>4 DEF Answer
  <2> QED
    BY <1>0, <1>s, <1>4, <2>1, AnsweredReply DEF BlockCmds
<1>5. CASE cmd \in {"CMD41", "CMD1"}
  <2>1. \/ x = Answered("error", 1, 3, plain)
        \/ x = Answered("ready", 0, 0, Opened)
        \/ x = Answered("idle", 0, 0, Opened)
    <3>1. CASE cmd = "CMD41"
      BY <3>1 DEF Answer, plain
    <3>2. CASE cmd = "CMD1"
      BY <3>2 DEF Answer, plain
    <3> QED
      BY <1>5, <3>1, <3>2
  <2>2. CardStep(cmd, Opened)
    BY <1>5, CardOpened
  <2> QED
    BY <1>0, <1>5, <2>1, <2>2, AnsweredReply DEF BlockCmds
<1>6. CASE cmd = "CMD58"
  <2>1. x = Answered(State, IF card.kind = "hc" THEN 1 ELSE 0, 2, plain)
    BY <1>6 DEF Answer, plain
  <2> QED
    BY <1>0, <1>s, <1>6, <2>1, AnsweredReply DEF BlockCmds
<1>7. CASE cmd \in {"CMD9", "CMD10"}
  <2>1. x = Answered("error", 1, 3, plain) \/ \E b3 \in {0, 1, 2} : x = Answered("ready", 0, b3, plain)
    <3>1. CASE cmd = "CMD9"
      <4>1. CASE card.kind = "hc"
        BY <3>1, <4>1 DEF Answer, plain
      <4>2. CASE card.kind = "mmc"
        BY <3>1, <4>2 DEF Answer, plain
      <4>3. CASE card.kind # "hc" /\ card.kind # "mmc"
        BY <3>1, <4>3 DEF Answer, plain
      <4> QED
        BY <4>1, <4>2, <4>3
    <3>2. CASE cmd = "CMD10"
      BY <3>2 DEF Answer, plain
    <3> QED
      BY <1>7, <3>1, <3>2
  <2> QED
    BY <1>0, <1>7, <2>1, AnsweredReply DEF BlockCmds
<1>8. CASE cmd = "CMD16"
  <2>1. x = Answered(State, 0, 0, plain)
    BY <1>8 DEF Answer, plain
  <2> QED
    BY <1>0, <1>s, <1>8, <2>1, AnsweredReply DEF BlockCmds
<1>9. CASE cmd \in BlockCmds
  <2> DEFINE t == IF card.mode = "ready" THEN Target(arg) ELSE -1
  <2>1. x = Answered(IF t = -1 THEN "error" ELSE "ready", 0, 0, [plain EXCEPT !.at = t])
    BY <1>9 DEF Answer, plain, BlockCmds
  <2>2. t \in {-1} \union Blocks
    BY TargetType
  <2>3. CardStep(cmd, [plain EXCEPT !.at = t])
    BY <1>9, <2>2, CardAimed DEF plain, BlockCmds
  <2>4. [plain EXCEPT !.at = t].at = t
    BY DEF plain, Types, CardSound, CardType
  <2> DEFINE c == [plain EXCEPT !.at = t]
             r1 == IF t = -1 THEN "error" ELSE "ready"
  <2>5. /\ cmd # "CMD58" /\ r1 \in {"ready", "idle", "error"} /\ CardStep(cmd, c)
        /\ c.at = IF card.mode = "ready" THEN Target(arg) ELSE -1
        /\ x = Answered(r1, 0, 0, c)
    BY <1>9, <2>1, <2>3, <2>4 DEF BlockCmds
  <2> HIDE DEF t, c, r1
  <2> QED
    BY <2>5, AnsweredReply
<1> QED
  BY <1>2, <1>3, <1>4, <1>5, <1>6, <1>7, <1>8, <1>9 DEF Plain

(* The answer of a card to a damaged packet, or a damaged answer. *)
LEMMA DamagedReply ==
  ASSUME Types, NEW cmd \in Plain \union BlockCmds, NEW arg, NEW x \in Damaged(cmd)
  PROVE  Reply(cmd, arg, x)
<1>1. CardStep(cmd, card)
  BY DEF Types, CardStep, CardSound, CardType
<1>2. \/ x = Silent
      \/ /\ cmd \in {"CMD0", "CMD8", "CMD55", "CMD41", "CMD1"}
         /\ x = Answered("error", 1, 3, card) \/ x = Answered("idle", 1, 3, card)
  BY DEF Damaged
<1> QED
  BY <1>1, <1>2, SilentReply, AnsweredReply DEF BlockCmds

(* The driver's state after a packet of cmd. *)
LEMMA PacketSent ==
  ASSUME Types, NEW cmd \in Plain \union BlockCmds, NEW arg, NEW r \in Sent(cmd, arg)
  PROVE  /\ r.timeout \in BOOLEAN /\ r.stat \in StatType /\ r.faults \in 0 .. MaxFaults
         /\ CardStep(cmd, r.card)
         /\ r.timeout => r.card = card /\ r.io = PacketFails
         /\ ~r.timeout => r.io = [io EXCEPT !.low = TRUE, !.green = FALSE]
         /\ ~r.timeout /\ cmd = "CMD58" => r.stat.b1 = IF card.kind = "hc" THEN 1 ELSE 0
         /\ ~r.timeout /\ cmd \in BlockCmds => r.card.at = IF card.mode = "ready" THEN Target(arg) ELSE -1
<1>1. PICK x \in (Answer(cmd, arg) \X {0}) \union (IF faults < MaxFaults THEN Damaged(cmd) \X {1} ELSE {}) :
        r = [timeout |-> ~x[1].ans, card |-> x[1].card, faults |-> faults + x[2],
             stat |-> IF ~x[1].ans THEN [stat EXCEPT !.r1 = "ready"]
                      ELSE IF cmd \in Long THEN [r1 |-> x[1].r1, b1 |-> x[1].b1, b3 |-> x[1].b3]
                      ELSE [stat EXCEPT !.r1 = x[1].r1],
             io |-> IF ~x[1].ans THEN PacketFails ELSE [io EXCEPT !.low = TRUE, !.green = FALSE]]
  BY DEF Sent
<1> DEFINE y == x[1]
<1>2. /\ y \in Answer(cmd, arg) \/ y \in Damaged(cmd)
      /\ x[2] = 0 \/ (x[2] = 1 /\ faults < MaxFaults)
  BY <1>1
<1>3. Reply(cmd, arg, y)
  BY <1>2, AnswerReply, DamagedReply
<1>4. /\ r.timeout = ~y.ans /\ r.card = y.card /\ r.faults = faults + x[2]
      /\ r.stat = (IF ~y.ans THEN [stat EXCEPT !.r1 = "ready"]
                   ELSE IF cmd \in Long THEN [r1 |-> y.r1, b1 |-> y.b1, b3 |-> y.b3]
                   ELSE [stat EXCEPT !.r1 = y.r1])
      /\ r.io = IF ~y.ans THEN PacketFails ELSE [io EXCEPT !.low = TRUE, !.green = FALSE]
  BY <1>1
<1> HIDE DEF y
<1>5. r.faults \in 0 .. MaxFaults
  BY <1>2, <1>4, PacketAssumption DEF Types
<1>6. stat \in StatType
  BY DEF Types
<1>7. y.ans \in BOOLEAN /\ y.r1 \in {"ready", "idle", "error"} /\ y.b1 \in {0, 1} /\ y.b3 \in 0 .. 3
  BY <1>3 DEF Reply
<1>8. CASE ~y.ans
  <2>1. r.timeout = TRUE /\ r.io = PacketFails /\ r.stat = [stat EXCEPT !.r1 = "ready"]
    BY <1>4, <1>7, <1>8
  <2>2. r.stat \in StatType
    BY <1>6, <2>1 DEF StatType
  <2> QED
    BY <1>3, <1>4, <1>5, <1>8, <2>1, <2>2 DEF Reply
<1>9. CASE y.ans
  <2>1. r.timeout = FALSE /\ r.io = [io EXCEPT !.low = TRUE, !.green = FALSE]
    BY <1>4, <1>7, <1>9
  <2>2. r.stat = IF cmd \in Long THEN [r1 |-> y.r1, b1 |-> y.b1, b3 |-> y.b3] ELSE [stat EXCEPT !.r1 = y.r1]
    BY <1>4, <1>9
  <2>3. r.stat \in StatType
    BY <1>6, <1>7, <2>2 DEF StatType
  <2>4. cmd = "CMD58" => r.stat.b1 = y.b1
    BY <2>2 DEF Long
  <2> QED
    BY <1>3, <1>4, <1>5, <1>9, <2>1, <2>3, <2>4 DEF Reply
<1> QED
  BY <1>7, <1>8, <1>9

(* The lines and LEDs as the driver sets them. *)
Selected == [low |-> TRUE, green |-> TRUE, red |-> TRUE]
InitFailed == [low |-> FALSE, green |-> FALSE, red |-> TRUE]

(* The select line and the LEDs that the driver sets. *)
LEMMA LineValues ==
  /\ PacketFails \in IoType /\ ~PacketFails.low /\ PacketFails.green /\ PacketFails.red
  /\ InitFailed \in IoType /\ ~InitFailed.low /\ ~InitFailed.green /\ InitFailed.red
  /\ Ready \in IoType /\ ~Ready.low /\ ~Ready.green /\ ~Ready.red
  /\ Selected \in IoType
  BY Zenon DEF PacketFails, InitFailed, Ready, Selected, IoType

(* The lines after a packet keep their type. *)
LEMMA PacketLines ==
  ASSUME Types, NEW r, r.timeout \in BOOLEAN, r.timeout => r.io = PacketFails,
         ~r.timeout => r.io = [io EXCEPT !.low = TRUE, !.green = FALSE]
  PROVE  r.io \in IoType
<1>1. io \in IoType
  BY DEF Types
<1>2. CASE r.timeout
  BY <1>2, LineValues, Zenon
<1>3. CASE ~r.timeout
  BY <1>1, <1>3 DEF IoType
<1> QED
  BY <1>2, <1>3

-----------------------------------------------------------------------------
(* The steps of sdc_init *)

(* What all of them keep: the access has not begun, and no block command is  *)
(* sent.                                                                     *)
LEMMA IdentifyingKeeps ==
  ASSUME Inv, NEW cmd \in Plain, NEW r \in Sent(cmd, 0), Take(r),
         pc \in Identifying \ {"attach", "attached"}, pc' \in Identifying \union {"idle"},
         UNCHANGED <<call, initOk, data, world, may, token>>,
         ver2' \in BOOLEAN, mmc' \in BOOLEAN, blind' \in BOOLEAN, erred' \in BOOLEAN, blind => blind',
         ccs' \in {0, 1}, tries' \in 0 .. MaxTries, io' \in IoType,
         pc' \in Opening => tries' < MaxTries,
         pc' \in Located /\ card'.mode # "native" /\ ~blind' => ccs' = IF card'.kind = "hc" THEN 1 ELSE 0,
         Lines'
  PROVE  Inv'
<1>1. /\ timeout' \in BOOLEAN /\ stat' \in StatType /\ faults' \in 0 .. MaxFaults
      /\ CardSound(card') /\ card'.kind = card.kind /\ card'.cells = card.cells
  BY PacketSent DEF Inv, Take, CardStep
<1>2. data = <<>> /\ data' = <<>> /\ ~initOk /\ ~initOk' /\ call' = call
  BY DEF Inv, Progress, Identifying
<1>3. Types'
  <2>1. Flags'
    BY <1>1 DEF Inv, Types, Flags, world
  <2>2. CallSound'
    BY DEF Inv, Types, CallSound
  <2>3. may' \in [Blocks -> SUBSET ({New} \union Blocks)] /\ swaps' \in 0 .. MaxSwaps
    BY DEF Inv, Types, world
  <2> QED
    BY <1>1, <2>1, <2>2, <2>3 DEF Types, CardSound, CardType
<1>4. Progress'
  <2>1. Len(<<>>) = 0 /\ call.count \in Nat \ {0}
    BY DEF Inv, Types, CallSound
  <2>2. Len(data') =< call'.count /\ Len(data') < call'.count
    BY <1>2, <2>1
  <2>3. pc' \notin Moving /\ pc' # "data" /\ pc' \notin {"reply", "busy"}
    BY DEF Identifying, Moving, Opening, Located
  <2> QED
    BY <1>2, <2>2, <2>3 DEF Progress
<1>5. Addressing'
  BY <1>2 DEF Addressing, Heard
<1>6. Aimed'
  BY DEF Aimed, Identifying, Opening, Located
<1>7. ReadSoFar'
  <2>1. 1 .. Len(data') = {}
    BY <1>2
  <2> QED
    BY <2>1 DEF ReadSoFar
<1>8. RightBlock'
  <2>1. may' = may /\ (~blind' => ~blind)
    OBVIOUS
  <2> QED
    BY <1>1, <2>1, Zenon DEF Inv, RightBlock, Blocks
<1> QED
  BY <1>3, <1>4, <1>5, <1>6, <1>7, <1>8 DEF Inv

(* sdc_init starts the identification. *)
LEMMA InitStep == Inv /\ sdc_init => Inv'
<1> SUFFICES ASSUME Inv, sdc_init PROVE Inv'
  OBVIOUS
<1> USE DEF sdc_init
<1>1. data = <<>> /\ data' = <<>> /\ ~initOk' /\ call' = call
  BY DEF Inv, Progress
<1>2. Types'
  <2>1. Flags'
    BY DEF Inv, Types, Flags
  <2>2. CallSound'
    BY DEF Inv, Types, CallSound
  <2>3. ccs' \in {0, 1} /\ tries' \in 0 .. MaxTries
    BY PacketAssumption
  <2>4. stat' \in StatType
    BY DEF StatType
  <2>5. io' \in IoType
    <3>1. io \in IoType /\ Selected \in IoType
      BY LineValues DEF Inv, Types
    <3> QED
      BY <3>1, Zenon DEF Selected
  <2>6. pc' \in {"idle", "init"} \union Identifying \union Moving
    BY DEF Identifying, Opening
  <2>7. CardSound(card') /\ may' \in [Blocks -> SUBSET ({New} \union Blocks)]
        /\ faults' \in 0 .. MaxFaults /\ swaps' \in 0 .. MaxSwaps
    BY DEF Inv, Types
  <2> QED
    BY <2>1, <2>2, <2>3, <2>4, <2>5, <2>6, <2>7 DEF Types, CardSound, CardType
<1>3. Progress'
  <2>1. Len(<<>>) = 0 /\ call.count \in Nat \ {0}
    BY DEF Inv, Types, CallSound
  <2>2. Len(data') =< call'.count /\ Len(data') < call'.count
    BY <1>1, <2>1
  <2>3. pc' \notin Moving /\ pc' # "data" /\ pc' \notin {"reply", "busy"}
    BY DEF Moving
  <2>4. tries' < MaxTries
    BY PacketAssumption
  <2> QED
    BY <1>1, <2>2, <2>3, <2>4 DEF Progress
<1>4. Lines'
  <2>1. CASE pc' = "idle"
    <3>1. io' = io /\ erred' = erred
      BY <2>1
    <3>2. io.red = erred /\ ~io.low /\ (io.green => io.red)
      BY DEF Inv, Lines
    <3> QED
      BY <2>1, <3>1, <3>2 DEF Lines
  <2>2. CASE pc' = "CMD0"
    BY <2>2 DEF Lines, Moving
  <2> QED
    BY <2>1, <2>2
<1>5. Addressing'
  BY <1>1 DEF Addressing, Located
<1>6. Aimed'
  BY DEF Aimed
<1>7. ReadSoFar'
  <2>1. 1 .. Len(data') = {}
    BY <1>1
  <2> QED
    BY <2>1 DEF ReadSoFar
<1>8. RightBlock'
  BY DEF Inv, RightBlock, Blocks
<1> QED
  BY <1>2, <1>3, <1>4, <1>5, <1>6, <1>7, <1>8 DEF Inv

(* What the identification steps share about their variables. *)
LEMMA StepTypes ==
  ASSUME Inv
  PROVE  /\ ver2 \in BOOLEAN /\ mmc \in BOOLEAN /\ blind \in BOOLEAN /\ erred \in BOOLEAN
         /\ ccs \in {0, 1} /\ tries \in 0 .. MaxTries /\ io \in IoType
         /\ (pc \in Opening => tries < MaxTries)
  BY DEF Inv, Types, Flags, Progress

(* A step of sdc_init ends it, or goes on with the next packet. *)
LEMMA IdentifyingStep ==
  ASSUME Inv, NEW cmd \in Plain, NEW r \in Sent(cmd, 0), Take(r),
         pc \in Identifying \ {"attach", "attached"},
         NEW next \in Identifying \ {"attach", "attached"}, InitFails \/ Goes(r, next),
         UNCHANGED <<call, initOk, data, world, may, token>>,
         ver2' \in BOOLEAN, mmc' \in BOOLEAN, blind' \in BOOLEAN, blind => blind',
         ccs' \in {0, 1}, tries' \in 0 .. MaxTries,
         next \in Opening => tries' < MaxTries,
         next \in Located /\ card'.mode # "native" /\ ~blind' => ccs' = IF card'.kind = "hc" THEN 1 ELSE 0
  PROVE  Inv'
<1>1. r.io \in IoType
  BY PacketSent, PacketLines DEF Inv
<1>2. erred \in BOOLEAN
  BY StepTypes
<1>3. CASE InitFails
  <2>1. pc' = "idle" /\ erred' /\ io' = InitFailed
    BY <1>3 DEF InitFails, InitFailed
  <2>2. erred' \in BOOLEAN
    BY <1>3 DEF InitFails
  <2>3. io' \in IoType /\ ~io'.low /\ ~io'.green /\ io'.red
    BY <2>1, LineValues, Zenon
  <2>4. Lines'
    BY <2>1, <2>2, <2>3 DEF Lines
  <2>5. pc' \notin Opening /\ pc' \notin Located
    BY <2>1 DEF Opening, Located
  <2> QED
    BY <2>1, <2>2, <2>3, <2>4, <2>5, IdentifyingKeeps
<1>4. CASE Goes(r, next)
  <2>1. pc' = next /\ erred' = erred /\ io' = r.io
    BY <1>4 DEF Goes
  <2>2. Lines'
    BY <2>1 DEF Lines, Moving, Identifying, Opening, Located
  <2> QED
    BY <1>1, <1>2, <2>1, <2>2, IdentifyingKeeps
<1> QED
  BY <1>3, <1>4

(* Before CMD58 nothing is known of the addressing. *)
LEMMA EarlySteps ==
  ASSUME Inv, GoIdle \/ SendIfCond \/ AppCmd PROVE Inv'
<1> USE StepTypes DEF known, world, Plain, Identifying, Opening, Located
<1>1. CASE GoIdle
  <2>1. PICK r \in Sent("CMD0", 0) : Take(r) /\ (InitFails \/ Goes(r, "CMD8"))
    BY <1>1 DEF GoIdle
  <2>2. pc = "CMD0" /\ UNCHANGED <<call, known, initOk, data, world, may, blind, token>>
    BY <1>1 DEF GoIdle
  <2> QED
    BY <2>1, <2>2, IdentifyingStep
<1>2. CASE SendIfCond
  <2>1. PICK r \in Sent("CMD8", 0) : /\ Take(r) /\ (InitFails \/ Goes(r, "CMD55"))
                                     /\ ver2' = (~Unanswered(r) /\ r.stat.b1 = 0)
    BY <1>2 DEF SendIfCond
  <2>2. /\ pc = "CMD8" /\ UNCHANGED <<call, mmc, ccs, tries, initOk, data, world, may, blind, token>>
        /\ ver2' \in BOOLEAN
    BY <1>2, <2>1 DEF SendIfCond
  <2> QED
    BY <2>1, <2>2, IdentifyingStep
<1>3. CASE AppCmd
  <2>1. PICK r \in Sent("CMD55", 0) : Take(r) /\ Goes(r, "CMD41")
    BY <1>3 DEF AppCmd
  <2>2. pc = "CMD55" /\ UNCHANGED <<call, known, initOk, data, world, may, blind, token>>
    BY <1>3 DEF AppCmd
  <2> QED
    BY <2>1, <2>2, IdentifyingStep
<1> QED
  BY <1>1, <1>2, <1>3

(* The loop counter stays below its bound as long as the loop goes on. *)
LEMMA SendOpCondStep ==
  ASSUME Inv, SendOpCond PROVE Inv'
<1>1. pc \in {"CMD41", "CMD1"} /\ tries' = tries + 1
  BY DEF SendOpCond, NextTry
<1>2. tries \in 0 .. MaxTries /\ tries < MaxTries /\ MaxTries \in Nat
  BY <1>1, StepTypes, PacketAssumption DEF Opening
<1>3. PICK r \in Sent(pc, 0) :
         /\ Take(r)
         /\ \/ Goes(r, "CMD58") /\ UNCHANGED mmc
            \/ mmc' = TRUE /\ Goes(r, TryAgain("CMD1"))
            \/ (InitFails \/ Goes(r, TryAgain(IF mmc THEN "CMD1" ELSE "CMD55"))) /\ UNCHANGED mmc
  BY DEF SendOpCond
<1>4. PICK next \in {"CMD58", "CMD1", "CMD55"} :
         (InitFails \/ Goes(r, next)) /\ (next # "CMD58" => tries' < MaxTries)
  <2>1. \A n \in {"CMD1", "CMD55"} : TryAgain(n) \in {n, "CMD58"} /\ (TryAgain(n) = n => tries' < MaxTries)
    BY <1>1, <1>2 DEF TryAgain, NextTry
  <2>2. "CMD1" # "CMD58" /\ "CMD55" # "CMD58"
    OBVIOUS
  <2>3. CASE Goes(r, "CMD58") \/ InitFails
    BY <2>3
  <2>4. CASE Goes(r, TryAgain("CMD1"))
    BY <2>1, <2>2, <2>4
  <2>5. CASE Goes(r, TryAgain(IF mmc THEN "CMD1" ELSE "CMD55"))
    <3>1. Goes(r, TryAgain("CMD1")) \/ Goes(r, TryAgain("CMD55"))
      BY <2>5
    <3> QED
      BY <2>1, <2>2, <3>1
  <2> QED
    BY <1>3, <2>3, <2>4, <2>5
<1>5. mmc' \in BOOLEAN
  BY <1>3, StepTypes
<1>6. tries' \in 0 .. MaxTries
  BY <1>1, <1>2
<1>7. UNCHANGED <<call, ver2, ccs, initOk, data, world, may, blind, token>>
  BY DEF SendOpCond
<1>8. /\ pc \in Plain /\ pc \in Identifying \ {"attach", "attached"}
      /\ next \in Identifying \ {"attach", "attached"} /\ next \notin Located
  BY <1>1 DEF Plain, Identifying, Opening, Located
<1>9. next \in Opening => tries' < MaxTries
  BY <1>4 DEF Opening
<1>10. blind => blind'
  BY <1>7
<1> QED
  BY <1>3, <1>4, <1>5, <1>6, <1>7, <1>8, <1>9, <1>10, StepTypes, IdentifyingStep

(* With the OCR the driver knows the addressing; without it, it is blind. *)
LEMMA ReadOcrStep ==
  ASSUME Inv, ReadOcr PROVE Inv'
<1>1. PICK r \in Sent("CMD58", 0) : Take(r) /\ ccs' = r.stat.b1 /\ blind' = (blind \/ r.timeout) /\ Goes(r, "CMD10")
  BY DEF ReadOcr
<1>2. /\ r.timeout \in BOOLEAN /\ r.stat \in StatType
      /\ ~r.timeout => r.stat.b1 = IF card.kind = "hc" THEN 1 ELSE 0
      /\ CardStep("CMD58", r.card)
  BY PacketSent DEF Inv, Plain
<1>3. ccs' \in {0, 1}
  BY <1>1, <1>2 DEF StatType
<1>4. blind' \in BOOLEAN /\ (blind => blind') /\ (~blind' => ~r.timeout)
  BY <1>1, <1>2, StepTypes
<1>5. card' = r.card /\ card'.kind = card.kind
  BY <1>1, <1>2 DEF Take, CardStep
<1>6. ~blind' => ccs' = IF card'.kind = "hc" THEN 1 ELSE 0
  BY <1>1, <1>2, <1>4, <1>5
<1>7. /\ pc = "CMD58"
      /\ UNCHANGED <<call, ver2, mmc, tries, initOk, data, world, may, token>>
  BY DEF ReadOcr
<1>8. /\ "CMD58" \in Plain /\ pc \in Identifying \ {"attach", "attached"}
      /\ "CMD10" \in Identifying \ {"attach", "attached"} /\ "CMD10" \notin Opening
  BY <1>7 DEF Plain, Identifying, Opening, Located
<1> QED
  BY <1>1, <1>3, <1>4, <1>6, <1>7, <1>8, StepTypes, IdentifyingStep

(* After it the addressing stays right, whatever the card answers. *)
LEMMA AddressingKept ==
  ASSUME Inv, NEW cmd \in Plain \ {"CMD0"}, NEW r \in Sent(cmd, 0), Take(r), pc \in Located,
         UNCHANGED <<ccs, blind>>
  PROVE  card'.mode # "native" /\ ~blind' => ccs' = IF card'.kind = "hc" THEN 1 ELSE 0
<1>1. card'.kind = card.kind /\ (card.mode = "native" => card'.mode = "native")
  BY PacketSent DEF Inv, Take, CardStep
<1> QED
  BY <1>1 DEF Inv, Addressing, Heard

(* CMD10 and the second CMD55 keep the invariant. *)
LEMMA LateSteps ==
  ASSUME Inv, SendCid \/ AppCmdAgain PROVE Inv'
<1> USE StepTypes DEF known, world, Plain, Identifying, Opening, Located
<1>1. CASE SendCid
  <2>1. PICK r \in Sent("CMD10", 0) : Take(r) /\ Goes(r, "CMD55b")
    BY <1>1 DEF SendCid
  <2>2. pc = "CMD10" /\ UNCHANGED <<call, known, initOk, data, world, may, blind, token>>
    BY <1>1 DEF SendCid
  <2> QED
    BY <2>1, <2>2, AddressingKept, IdentifyingStep
<1>2. CASE AppCmdAgain
  <2>1. PICK r \in Sent("CMD55", 0) : Take(r) /\ Goes(r, "CMD9")
    BY <1>2 DEF AppCmdAgain
  <2>2. pc = "CMD55b" /\ UNCHANGED <<call, known, initOk, data, world, may, blind, token>>
    BY <1>2 DEF AppCmdAgain
  <2> QED
    BY <2>1, <2>2, AddressingKept, IdentifyingStep
<1> QED
  BY <1>1, <1>2

(* The end of sdc_init: lines and LEDs at rest, all errors forgotten. *)
LEMMA IdentifiedStep ==
  ASSUME Inv, NEW cmd \in Plain \ {"CMD0"}, NEW r \in Sent(cmd, 0), Take(r), pc \in {"CMD9", "CMD16"},
         pc' = "attach", io' = Ready, erred' = FALSE,
         UNCHANGED <<call, known, initOk, data, world, may, blind, token>>
  PROVE  Inv'
<1>1. io' \in IoType /\ ~io'.low /\ ~io'.green /\ ~io'.red
  BY LineValues, Zenon
<1>2. erred' \in BOOLEAN /\ io'.red \in BOOLEAN
  BY <1>1, Zenon DEF IoType
<1>3. Lines'
  <2>1. io'.red = erred'
    BY <1>1, <1>2
  <2> QED
    BY <1>1, <2>1 DEF Lines
<1>4. /\ pc \in Located /\ pc \in Identifying \ {"attach", "attached"}
      /\ pc' \in Identifying /\ pc' \notin Opening
  BY DEF Located, Identifying, Opening
<1>5. UNCHANGED <<ver2, mmc, ccs, tries>>
  BY DEF known
<1>6. card'.mode # "native" /\ ~blind' => ccs' = IF card'.kind = "hc" THEN 1 ELSE 0
  BY <1>4, <1>5, AddressingKept
<1>7. blind => blind'
  OBVIOUS
<1> QED
  BY <1>1, <1>2, <1>3, <1>4, <1>5, <1>6, <1>7, StepTypes, IdentifyingKeeps

(* CMD9 keeps the invariant. *)
LEMMA SendCsdStep ==
  ASSUME Inv, SendCsd PROVE Inv'
<1>1. PICK r \in Sent("CMD9", 0) : Take(r) /\ (InitFails \/ Goes(r, "CMD16")
                                                \/ (pc' = "attach" /\ io' = Ready /\ erred' = FALSE))
  BY DEF SendCsd
<1>2. pc = "CMD9" /\ UNCHANGED <<call, known, initOk, data, world, may, blind, token>>
  BY DEF SendCsd
<1>3. "CMD9" \in Plain \ {"CMD0"}
  BY DEF Plain
<1>4. CASE pc' = "attach" /\ io' = Ready /\ erred' = FALSE
  BY <1>1, <1>2, <1>3, <1>4, IdentifiedStep
<1>5. CASE InitFails \/ Goes(r, "CMD16")
  BY <1>1, <1>2, <1>5, StepTypes, AddressingKept, IdentifyingStep DEF known, Plain, Identifying, Opening, Located
<1> QED
  BY <1>1, <1>4, <1>5

(* CMD16 keeps the invariant, and ends the identification. *)
LEMMA SetBlockLenStep ==
  ASSUME Inv, SetBlockLen PROVE Inv'
<1>1. PICK r \in Sent("CMD16", 0) : Take(r)
  BY DEF SetBlockLen
<1>2. pc = "CMD16" /\ UNCHANGED <<call, known, initOk, data, world, may, blind, token>>
      /\ pc' = "attach" /\ io' = Ready /\ erred' = FALSE
  BY DEF SetBlockLen
<1>3. "CMD16" \in Plain \ {"CMD0"}
  BY DEF Plain
<1> QED
  BY <1>1, <1>2, <1>3, IdentifiedStep

-----------------------------------------------------------------------------
(* The block commands *)

(* The block of an access is a block of the card. *)
LEMMA BlockInRange ==
  ASSUME Inv, pc # "idle" PROVE Block \in Blocks /\ Len(data) \in Nat
<1>1. /\ call.first \in 0 .. LastBlock /\ call.count \in Nat \ {0} /\ call.first + call.count - 1 \in 0 .. LastBlock
      /\ Len(data) \in Nat /\ Len(data) < call.count /\ LastBlock \in Nat
  BY PacketAssumption, LenProperties DEF Inv, Types, CallSound, Progress, Blocks
<1> QED
  BY <1>1 DEF Block, Blocks

(* The parts of the invariant that no block command touches. *)
LEMMA AccessKeeps ==
  ASSUME Inv, timeout' \in BOOLEAN, stat' \in StatType, io' \in IoType, erred' \in BOOLEAN,
         faults' \in 0 .. MaxFaults, CardSound(card'), initOk' \in BOOLEAN, token' \in BOOLEAN,
         may' \in [Blocks -> SUBSET ({New} \union Blocks)],
         pc' \in {"idle", "init"} \union Identifying \union Moving, data' \in Seq({Garbage, New} \union Blocks),
         UNCHANGED <<call, known, world, blind>>
  PROVE  Types'
<1>1. Flags'
  BY DEF Inv, Types, Flags, world, known
<1>2. CallSound'
  BY DEF Inv, Types, CallSound
<1>3. ccs' \in {0, 1} /\ tries' \in 0 .. MaxTries /\ swaps' \in 0 .. MaxSwaps
  BY DEF Inv, Types, known, world
<1> QED
  BY <1>1, <1>2, <1>3 DEF Types, CardSound, CardType

(* An error ends the access: the card is deselected, both LEDs are on. *)
LEMMA AccessFailed ==
  ASSUME AccessFails
  PROVE  /\ pc' = "idle" /\ timeout' \in BOOLEAN /\ erred' \in BOOLEAN /\ io' \in IoType /\ Lines'
<1>1. io' \in IoType /\ ~io'.low /\ io'.green /\ io'.red /\ erred' /\ pc' = "idle"
  BY LineValues, Zenon DEF AccessFails
<1>2. timeout' \in BOOLEAN /\ erred' \in BOOLEAN /\ io'.red \in BOOLEAN
  BY <1>1, Zenon DEF AccessFails, IoType
<1>3. io'.red = erred'
  BY <1>1, <1>2
<1> QED
  BY <1>1, <1>2, <1>3 DEF Lines

(* The header of a block command: a card that takes it means Block. *)
LEMMA SendStep ==
  ASSUME Inv, NEW cmd \in BlockCmds, NEW block \in Blocks, NEW next, Send(cmd, block, next),
         \/ pc = "attach" /\ next = "attached"
         \/ pc = "access" /\ next = "data" /\ call.kind = "read" /\ block = Block
         \/ pc = "access" /\ next = "reply" /\ call.kind = "write" /\ block = Block /\ New \in may'[Block],
         may' \in [Blocks -> SUBSET ({New} \union Blocks)], \A b \in Blocks : may[b] \subseteq may'[b],
         UNCHANGED <<call, known, initOk, data, world, blind, token>>
  PROVE  Inv'
<1>1. PICK r \in Sent(cmd, Address(block)) :
        /\ stat' = r.stat /\ card' = r.card /\ faults' = r.faults
        /\ IF r.timeout THEN AccessFails
           ELSE pc' = next /\ timeout' = FALSE /\ io' = [r.io EXCEPT !.green = TRUE] /\ UNCHANGED erred
  BY DEF Send
<1>2. /\ r.timeout \in BOOLEAN /\ stat' \in StatType /\ faults' \in 0 .. MaxFaults
      /\ CardStep(cmd, card') /\ (r.timeout => r.card = card)
      /\ ~r.timeout => r.io = [io EXCEPT !.low = TRUE, !.green = FALSE]
      /\ ~r.timeout => card'.at = IF card.mode = "ready" THEN Target(Address(block)) ELSE -1
  BY <1>1, PacketSent DEF Inv
<1>3. /\ CardSound(card') /\ card'.kind = card.kind /\ card'.cells = card.cells
      /\ (card.mode = "native" => card'.mode = "native")
  BY <1>2 DEF CardStep, BlockCmds
<1>4. initOk' \in BOOLEAN /\ token' \in BOOLEAN /\ data' \in Seq({Garbage, New} \union Blocks)
      /\ erred \in BOOLEAN /\ io \in IoType
  BY DEF Inv, Types, Flags, CallSound
<1>5. /\ pc' \in {"idle", next} /\ timeout' \in BOOLEAN /\ erred' \in BOOLEAN /\ io' \in IoType /\ Lines'
      /\ pc' = next => ~r.timeout
  <2>1. CASE r.timeout
    <3>1. AccessFails
      BY <1>1, <2>1
    <3>2. next # "idle"
      OBVIOUS
    <3> QED
      BY <3>1, <3>2, AccessFailed
  <2>2. CASE ~r.timeout
    <3>1. pc' = next /\ timeout' = FALSE /\ erred' = erred
          /\ io' = [[io EXCEPT !.low = TRUE, !.green = FALSE] EXCEPT !.green = TRUE]
      BY <1>1, <1>2, <2>2
    <3>2. timeout' \in BOOLEAN
      BY <3>1
    <3>3. io' \in IoType /\ io'.red = io.red
      BY <1>4, <3>1 DEF IoType
    <3>4. io.red = erred
      BY DEF Inv, Lines, Moving
    <3>5. Lines'
      BY <3>1, <3>3, <3>4 DEF Lines
    <3> QED
      BY <1>4, <2>2, <3>1, <3>2, <3>3, <3>5
  <2> QED
    BY <1>2, <2>1, <2>2
<1>6. Types'
  <2>1. pc' \in {"idle", "init"} \union Identifying \union Moving
    BY <1>5 DEF Identifying, Located, Moving
  <2> QED
    BY <1>2, <1>3, <1>4, <1>5, <2>1, AccessKeeps
<1>7. Progress'
  BY <1>5 DEF Inv, Progress, Moving, Identifying, Located, Opening
<1>8. UNCHANGED <<ccs, blind, initOk>>
  BY DEF known
<1>9. Addressing'
  BY <1>3, <1>5, <1>8 DEF Inv, Addressing, Heard, Located
<1>10. Aimed'
  <2>1. CASE Heard' /\ pc' \in {"data", "reply", "busy"}
    <3>1. pc = "access" /\ pc' = next /\ block = Block /\ Block' = Block /\ ~r.timeout /\ card.mode # "native" /\ ~blind
      BY <1>3, <1>5, <1>8, <2>1 DEF Heard, Block
    <3>2. initOk /\ ccs = IF card.kind = "hc" THEN 1 ELSE 0
      BY <3>1 DEF Inv, Progress, Addressing, Heard, Moving
    <3>3. Target(Address(block)) = block
      BY <3>2, TargetOfAddress
    <3>4. card'.at \in {-1, Block'}
      BY <1>2, <3>1, <3>3
    <3>5. pc' \in {"reply", "busy"} => New \in may'[Block']
      BY <3>1
    <3> QED
      BY <3>4, <3>5 DEF Aimed
  <2> QED
    BY <2>1 DEF Aimed
<1>11. ReadSoFar'
  BY <1>3, <1>8 DEF Inv, ReadSoFar, Heard
<1>12. RightBlock'
  BY <1>3, <1>8 DEF Inv, RightBlock
<1> QED
  BY <1>5, <1>6, <1>7, <1>9, <1>10, <1>11, <1>12 DEF Inv

(* The read of block 0 that attaches the file system keeps the invariant. *)
LEMMA AttachStep ==
  ASSUME Inv, Attach PROVE Inv'
<1>1. 0 \in Blocks
  BY PacketAssumption DEF Blocks
<1>2. /\ pc = "attach" /\ Send("CMD17", 0, "attached")
      /\ UNCHANGED <<call, known, initOk, data, world, may, blind, token>>
  BY DEF Attach
<1>3. may' \in [Blocks -> SUBSET ({New} \union Blocks)] /\ \A b \in Blocks : may[b] \subseteq may'[b]
  BY <1>2 DEF Inv, Types
<1> QED
  BY <1>1, <1>2, <1>3, SendStep DEF BlockCmds

(* CMD17 aims the card at the block of the access. *)
LEMMA ReadSingleBlockStep ==
  ASSUME Inv, ReadSingleBlock PROVE Inv'
<1>1. /\ pc = "access" /\ call.kind = "read" /\ Send("CMD17", Block, "data")
      /\ UNCHANGED <<call, known, initOk, data, world, may, blind, token>>
  BY DEF ReadSingleBlock
<1>2. Block \in Blocks
  BY <1>1, BlockInRange
<1>3. may' \in [Blocks -> SUBSET ({New} \union Blocks)] /\ \A b \in Blocks : may[b] \subseteq may'[b]
  BY <1>1 DEF Inv, Types
<1> QED
  BY <1>1, <1>2, <1>3, SendStep DEF BlockCmds

(* CMD24 aims the card at the block of the access. *)
LEMMA WriteSingleBlockStep ==
  ASSUME Inv, WriteSingleBlock PROVE Inv'
<1>1. /\ pc = "access" /\ call.kind = "write" /\ Send("CMD24", Block, "reply")
      /\ may' = [may EXCEPT ![Block] = @ \union {New}]
      /\ UNCHANGED <<call, known, initOk, data, world, blind, token>>
  BY DEF WriteSingleBlock
<1>2. Block \in Blocks
  BY <1>1, BlockInRange
<1>3. /\ may' \in [Blocks -> SUBSET ({New} \union Blocks)] /\ \A b \in Blocks : may[b] \subseteq may'[b]
      /\ New \in may'[Block]
  BY <1>1, <1>2 DEF Inv, Types
<1> QED
  BY <1>1, <1>2, <1>3, SendStep DEF BlockCmds

-----------------------------------------------------------------------------
(* The data of a block *)

(* An error after the header leaves the blocks moved so far. *)
LEMMA FailStep ==
  ASSUME Inv, pc \in {"attached", "data", "reply", "busy"}, AccessFails, faults' \in 0 .. MaxFaults,
         CardSound(card'), card'.kind = card.kind, card.mode = "native" => card'.mode = "native",
         call.kind = "read" => card'.cells = card.cells,
         UNCHANGED <<call, known, stat, initOk, data, world, may, blind, token>>,
         RightBlock'
  PROVE  Inv'
<1>1. pc' = "idle" /\ timeout' \in BOOLEAN /\ erred' \in BOOLEAN /\ io' \in IoType /\ Lines'
  BY AccessFailed
<1>2. /\ initOk' \in BOOLEAN /\ token' \in BOOLEAN /\ data' \in Seq({Garbage, New} \union Blocks)
      /\ stat' \in StatType /\ may' \in [Blocks -> SUBSET ({New} \union Blocks)]
  BY DEF Inv, Types, Flags, CallSound
<1>3. Types'
  BY <1>1, <1>2, AccessKeeps
<1>4. Progress'
  BY <1>1 DEF Inv, Progress, Moving, Identifying, Located, Opening
<1>5. Addressing'
  <2>1. UNCHANGED <<ccs, blind, initOk>>
    BY DEF known
  <2> QED
    BY <1>1, <2>1 DEF Inv, Addressing, Heard, Located
<1>6. Aimed'
  BY <1>1 DEF Aimed
<1>7. ReadSoFar'
  BY DEF Inv, ReadSoFar, Heard
<1> QED
  BY <1>1, <1>3, <1>4, <1>5, <1>6, <1>7 DEF Inv

(* The lines after a block. *)
LEMMA DoneLines ==
  ASSUME Inv, pc \in {"attached", "data", "busy"}, io' = Done, pc' \in {"idle", "access"}, UNCHANGED erred
  PROVE  io' \in IoType /\ Lines'
<1>1. io \in IoType /\ io.red = erred
  BY DEF Inv, Types, Lines, Moving
<1>2. io' = [low |-> FALSE, green |-> FALSE, red |-> io.red] /\ io.red \in BOOLEAN
  BY <1>1 DEF Done, IoType
<1>3. ASSUME NEW b \in BOOLEAN, NEW d, d = [low |-> FALSE, green |-> FALSE, red |-> b]
      PROVE  d \in IoType /\ d.red = b /\ ~d.low /\ ~d.green
  BY <1>3 DEF IoType
<1>4. io' \in IoType /\ io'.red = io.red /\ ~io'.low /\ ~io'.green
  BY <1>2, <1>3
<1> QED
  BY <1>1, <1>4 DEF Lines

(* After a block the loop goes on, or the access is over. *)
LEMMA MoreWays == More \in {"idle", "access"} /\ (Len(data) + 1 # call.count => More = "access")
                  /\ (Len(data) + 1 = call.count => More = "idle")
  BY DEF More

(* One more block in the caller's buffer. *)
LEMMA Longer ==
  ASSUME Inv, pc \in {"data", "busy"}, NEW v \in {Garbage, New} \union Blocks, data' = Append(data, v),
         pc' = More, UNCHANGED <<call, initOk>>
  PROVE  /\ data' \in Seq({Garbage, New} \union Blocks) /\ Progress'
         /\ Len(data') = Len(data) + 1 /\ data'[Len(data) + 1] = v
         /\ \A i \in 1 .. Len(data) : data'[i] = data[i]
<1>1. data \in Seq({Garbage, New} \union Blocks) /\ Len(data) \in Nat /\ call.count \in Nat \ {0}
      /\ Len(data) < call.count
  BY LenProperties DEF Inv, Types, CallSound, Progress
<1>2. /\ data' \in Seq({Garbage, New} \union Blocks) /\ Len(data') = Len(data) + 1
      /\ data'[Len(data) + 1] = v /\ \A i \in 1 .. Len(data) : data'[i] = data[i]
  BY <1>1, AppendProperties
<1>3. /\ pc' \in {"idle", "access"} /\ (pc' # "idle" => Len(data') < call.count) /\ Len(data') =< call.count
  BY <1>1, <1>2, MoreWays
<1>4. initOk
  BY DEF Inv, Progress, Moving
<1> QED
  BY <1>2, <1>3, <1>4 DEF Progress, Moving, Identifying, Located, Opening

(* A block that arrives whole is the pending one, or the fault is counted. *)
LEMMA IncomingValue ==
  ASSUME Inv, NEW x \in Incoming
  PROVE  /\ card.kind # "none" /\ card.mode = "ready" /\ card.at \in Blocks
         /\ x[1] \in {Garbage, New} \union Blocks
         /\ \/ x[2] = 0 /\ x[1] = card.cells[card.at]
            \/ x[2] = 1 /\ faults < MaxFaults
         /\ faults + x[2] \in 0 .. MaxFaults
<1>1. card.kind # "none" /\ card.mode = "ready" /\ card.at # -1
  BY DEF Incoming
<1>2. \/ x = <<card.cells[card.at], 0>>
      \/ x = <<Garbage, 1>> /\ faults < MaxFaults
  BY <1>1 DEF Incoming
<1>3. card.at \in Blocks /\ card.cells[card.at] \in {New} \union Blocks
  BY <1>1 DEF Inv, Types, CardSound, CardType
<1>4. faults \in 0 .. MaxFaults /\ MaxFaults \in Nat
  BY PacketAssumption DEF Inv, Types
<1> QED
  BY <1>1, <1>2, <1>3, <1>4

(* A block that is read is the one that was asked for. *)
LEMMA ReadDataStep ==
  ASSUME Inv, ReadData PROVE Inv'
<1>1. pc \in {"data", "attached"} /\ UNCHANGED <<call, known, stat, world, card, may, blind>>
  BY DEF ReadData
<1>2. UNCHANGED <<ccs, blind>> /\ CardSound(card') /\ card' = card
      /\ stat' \in StatType /\ may' \in [Blocks -> SUBSET ({New} \union Blocks)]
  BY <1>1 DEF known, Inv, Types
<1>3. RightBlock'
  BY <1>1 DEF Inv, RightBlock
<1>4. CASE Nothing /\ AccessFails /\ faults' = faults + (IF Incoming = {} THEN 0 ELSE 1)
           /\ UNCHANGED <<data, initOk, token>>
  <2>1. faults' \in 0 .. MaxFaults
    BY <1>4, PacketAssumption DEF Inv, Types, Nothing
  <2> QED
    BY <1>1, <1>2, <1>3, <1>4, <2>1, FailStep
<1>5. ASSUME NEW x \in Incoming,
             timeout' = FALSE, io' = Done, faults' = faults + x[2], token' = (token \/ x[2] = 1),
             IF pc = "data" THEN pc' = More /\ data' = Append(data, x[1]) /\ UNCHANGED initOk
             ELSE /\ pc' = IF x[1] = Garbage THEN "idle" ELSE "access"
                  /\ initOk' = (x[1] # Garbage)
                  /\ UNCHANGED data,
             UNCHANGED erred
      PROVE  Inv'
  <2>1. /\ card.kind # "none" /\ card.mode = "ready" /\ card.at \in Blocks
        /\ x[1] \in {Garbage, New} \union Blocks /\ faults' \in 0 .. MaxFaults
        /\ (x[2] # 1 => x[1] = card.cells[card.at])
    BY <1>5, IncomingValue
  <2>2. pc' \in {"idle", "access"} /\ timeout' \in BOOLEAN /\ erred' \in BOOLEAN
    <3>1. erred \in BOOLEAN
      BY DEF Inv, Types, Flags
    <3>2. timeout' \in BOOLEAN
      BY <1>5
    <3>3. pc' \in {"idle", "access"}
      BY <1>5, MoreWays
    <3> QED
      BY <1>5, <3>1, <3>2, <3>3
  <2>3. token' \in BOOLEAN /\ (~token' => ~token /\ x[2] # 1)
    BY <1>5 DEF Inv, Types, Flags
  <2>4. io' \in IoType /\ Lines'
    BY <1>1, <1>5, <2>2, DoneLines
  <2>5. pc' \in {"idle", "init"} \union Identifying \union Moving
    BY <2>2 DEF Moving
  <2>6. Aimed'
    BY <2>2 DEF Aimed
  <2>7. CASE pc = "data"
    <3>1. pc' = More /\ data' = Append(data, x[1]) /\ initOk' = initOk /\ call' = call
      BY <1>1, <1>5, <2>7
    <3>2. /\ data' \in Seq({Garbage, New} \union Blocks) /\ Progress'
          /\ Len(data') = Len(data) + 1 /\ data'[Len(data) + 1] = x[1]
          /\ \A i \in 1 .. Len(data) : data'[i] = data[i]
      BY <2>1, <2>7, <3>1, Longer
    <3>3. initOk' \in BOOLEAN
      BY <3>1 DEF Inv, Types, Flags
    <3>4. Types'
      BY <1>1, <1>2, <2>1, <2>2, <2>3, <2>4, <2>5, <3>2, <3>3, AccessKeeps
    <3>5. Addressing'
      BY <1>2, <2>2, <3>1 DEF Inv, Addressing, Heard, Located
    <3>6. ReadSoFar'
      <4> SUFFICES ASSUME Heard', ~token', NEW i \in 1 .. Len(data')
                   PROVE  data'[i] = card.cells[call.first + i - 1]
        BY <1>2, <3>1 DEF ReadSoFar
      <4>1. Heard /\ ~token /\ x[2] # 1 /\ call.kind = "read"
        BY <1>2, <2>3, <2>7 DEF Heard, Inv, Progress
      <4>2. card.at = Block /\ x[1] = card.cells[Block]
        <5>1. card.at \in {-1, Block}
          BY <2>7, <4>1 DEF Inv, Aimed
        <5>2. card.at # -1
          BY <2>1 DEF Blocks
        <5> QED
          BY <2>1, <4>1, <5>1, <5>2
      <4>3. Len(data) \in Nat /\ call.first \in Nat
        BY <2>7, BlockInRange DEF Inv, Types, CallSound, Blocks
      <4>4. CASE i = Len(data) + 1
        <5>1. call.first + i - 1 = Block
          BY <4>3, <4>4 DEF Block
        <5> QED
          BY <3>2, <4>2, <4>4, <5>1
      <4>5. CASE i # Len(data) + 1
        <5>1. i \in 1 .. Len(data)
          BY <3>2, <4>3, <4>5
        <5> QED
          BY <3>2, <4>1, <5>1 DEF Inv, ReadSoFar
      <4> QED
        BY <4>4, <4>5
    <3> QED
      BY <1>3, <2>4, <2>6, <3>2, <3>4, <3>5, <3>6 DEF Inv
  <2>8. CASE pc = "attached"
    <3>1. /\ pc' = (IF x[1] = Garbage THEN "idle" ELSE "access") /\ initOk' = (x[1] # Garbage)
          /\ data' = data /\ data = <<>> /\ call' = call
      BY <1>1, <1>5, <2>8 DEF Inv, Progress, Identifying, Located
    <3>2. initOk' \in BOOLEAN /\ (pc' = "access" => initOk')
      BY <3>1
    <3>3. data' \in Seq({Garbage, New} \union Blocks)
      BY <3>1 DEF Inv, Types, CallSound
    <3>4. Types'
      BY <1>1, <1>2, <2>1, <2>2, <2>3, <2>4, <2>5, <3>2, <3>3, AccessKeeps
    <3>5. Progress'
      BY <2>2, <2>8, <3>1, <3>2 DEF Inv, Progress, Moving, Identifying, Located, Opening
    <3>6. Addressing'
      BY <1>2, <2>8 DEF Inv, Addressing, Heard, Located
    <3>7. ReadSoFar'
      <4>1. 1 .. Len(data') = {}
        BY <3>1
      <4> QED
        BY <4>1 DEF ReadSoFar
    <3> QED
      BY <1>3, <2>4, <2>6, <3>4, <3>5, <3>6, <3>7 DEF Inv
  <2> QED
    BY <1>1, <2>7, <2>8
<1> QED
  BY <1>4, <1>5 DEF ReadData

(* The card takes a block, or the access fails. *)
LEMMA DataResponseStep ==
  ASSUME Inv, DataResponse PROVE Inv'
<1>1. pc = "reply" /\ UNCHANGED <<call, known, stat, initOk, data, world, card, may, blind, token>>
  BY DEF DataResponse
<1>2. UNCHANGED <<ccs, blind>> /\ CardSound(card') /\ card' = card
  BY <1>1 DEF known, Inv, Types
<1>3. RightBlock'
  BY <1>1 DEF Inv, RightBlock
<1>4. CASE AccessFails /\ (card.mode # "ready" \/ card.at = -1 \/ faults < MaxFaults)
           /\ faults' = faults + (IF card.mode = "ready" /\ card.at # -1 THEN 1 ELSE 0)
  <2>1. faults' \in 0 .. MaxFaults
    BY <1>4, PacketAssumption DEF Inv, Types
  <2> QED
    BY <1>1, <1>2, <1>3, <1>4, <2>1, FailStep
<1>5. CASE pc' = "busy" /\ UNCHANGED <<timeout, io, erred, faults>>
  <2>1. Types'
    <3>1. /\ timeout' \in BOOLEAN /\ stat' \in StatType /\ io' \in IoType /\ erred' \in BOOLEAN
          /\ faults' \in 0 .. MaxFaults /\ initOk' \in BOOLEAN /\ token' \in BOOLEAN
          /\ may' \in [Blocks -> SUBSET ({New} \union Blocks)] /\ data' \in Seq({Garbage, New} \union Blocks)
      BY <1>1, <1>5 DEF Inv, Types, Flags, CallSound
    <3>2. pc' \in {"idle", "init"} \union Identifying \union Moving
      BY <1>5 DEF Moving
    <3> QED
      BY <1>1, <1>2, <3>1, <3>2, AccessKeeps
  <2>2. Progress'
    BY <1>1, <1>5 DEF Inv, Progress, Moving, Identifying, Located, Opening
  <2>3. Lines'
    BY <1>1, <1>5 DEF Inv, Lines, Moving
  <2>4. Addressing'
    BY <1>1, <1>2, <1>5 DEF Inv, Addressing, Heard, Located
  <2>5. Aimed'
    BY <1>1, <1>2, <1>5 DEF Inv, Aimed, Heard, Block
  <2>6. ReadSoFar'
    BY <1>1, <1>2 DEF Inv, ReadSoFar, Heard
  <2> QED
    BY <1>3, <2>1, <2>2, <2>3, <2>4, <2>5, <2>6 DEF Inv
<1> QED
  BY <1>4, <1>5 DEF DataResponse

(* What the card programs is what the driver has sent, where it sent it. *)
LEMMA WaitBusyStep ==
  ASSUME Inv, WaitBusy PROVE Inv'
<1>1. pc = "busy" /\ card' = Written /\ UNCHANGED <<call, known, stat, initOk, world, blind, token>>
  BY DEF WaitBusy
<1>2. card \in CardType /\ CardSound(card) /\ card.at \in {-1} \union Blocks
  BY DEF Inv, Types, CardSound, CardType
<1>3. /\ CardSound(card') /\ card'.kind = card.kind /\ card'.mode = card.mode
      /\ card.at = -1 => card' = card
      /\ card.at # -1 => card'.cells = [card.cells EXCEPT ![card.at] = New]
  <2>1. CASE card.at = -1
    BY <1>1, <1>2, <2>1 DEF Written
  <2>2. CASE card.at # -1
    <3>1. card' = [card EXCEPT !.cells[card.at] = New, !.at = -1]
      BY <1>1, <2>2 DEF Written
    <3>2. card' \in CardType /\ card'.kind = card.kind /\ card'.mode = card.mode /\ card'.at = -1
          /\ card'.cells = [card.cells EXCEPT ![card.at] = New]
      BY <1>2, <3>1 DEF CardType
    <3> QED
      BY <1>2, <2>2, <3>2 DEF CardSound
  <2> QED
    BY <2>1, <2>2
<1>4. UNCHANGED <<ccs, blind>> /\ call.kind = "write"
  BY <1>1 DEF known, Inv, Progress
<1>5. Block \in Blocks
  BY <1>1, BlockInRange
<1>6. ASSUME card.kind # "none", ~blind, card.at # -1 PROVE card.at = Block /\ Heard /\ New \in may[Block]
  <2>1. card.mode # "native"
    BY <1>2, <1>6 DEF CardSound
  <2> QED
    BY <1>1, <1>6, <2>1 DEF Inv, Aimed, Heard
<1>7. CASE AccessFails /\ faults < MaxFaults /\ faults' = faults + 1 /\ UNCHANGED <<data, may>>
  <2>1. faults' \in 0 .. MaxFaults
    BY <1>7, PacketAssumption DEF Inv, Types
  <2>2. RightBlock'
    <3> SUFFICES ASSUME card.kind # "none", ~blind, NEW b \in Blocks PROVE card'.cells[b] \in may[b]
      BY <1>1, <1>3, <1>4, <1>7 DEF RightBlock
    <3>1. card.cells[b] \in may[b]
      BY DEF Inv, RightBlock
    <3>2. CASE card.at = -1
      BY <1>3, <3>1, <3>2
    <3>3. CASE card.at # -1
      <4>1. card'.cells = [card.cells EXCEPT ![Block] = New] /\ New \in may[Block]
        BY <1>3, <1>6, <3>3
      <4> QED
        BY <1>2, <3>1, <4>1 DEF CardType
    <3> QED
      BY <3>2, <3>3
  <2> QED
    BY <1>1, <1>3, <1>4, <1>7, <2>1, <2>2, FailStep
<1>8. CASE /\ timeout' = FALSE /\ io' = Done /\ data' = Append(data, New) /\ pc' = More
           /\ may' = (IF card.at = -1 THEN may ELSE [may EXCEPT ![Block] = {New}])
           /\ UNCHANGED <<erred, faults>>
  <2>1. /\ data' \in Seq({Garbage, New} \union Blocks) /\ Progress'
    BY <1>1, <1>8, Longer
  <2>2. pc' \in {"idle", "access"}
    BY <1>8, MoreWays
  <2>3. io' \in IoType /\ Lines'
    BY <1>1, <1>8, <2>2, DoneLines
  <2>4. Types'
    <3>1. timeout' \in BOOLEAN
      BY <1>8
    <3>2. /\ stat' \in StatType /\ erred' \in BOOLEAN /\ faults' \in 0 .. MaxFaults
          /\ initOk' \in BOOLEAN /\ token' \in BOOLEAN
      BY <1>1, <1>8 DEF Inv, Types, Flags
    <3>3. may' \in [Blocks -> SUBSET ({New} \union Blocks)]
      BY <1>5, <1>8 DEF Inv, Types
    <3>4. pc' \in {"idle", "init"} \union Identifying \union Moving
      BY <2>2 DEF Moving
    <3> QED
      BY <1>1, <1>3, <2>1, <2>3, <3>1, <3>2, <3>3, <3>4, AccessKeeps
  <2>5. Addressing'
    BY <1>1, <1>3, <1>4, <2>2 DEF Inv, Addressing, Heard, Located
  <2>6. Aimed'
    BY <2>2 DEF Aimed
  <2>7. ReadSoFar'
    BY <1>1, <1>4 DEF ReadSoFar
  <2>8. RightBlock'
    <3> SUFFICES ASSUME card.kind # "none", ~blind, NEW b \in Blocks PROVE card'.cells[b] \in may'[b]
      BY <1>1, <1>3, <1>4 DEF RightBlock
    <3>1. card.cells[b] \in may[b] /\ may \in [Blocks -> SUBSET ({New} \union Blocks)]
      BY DEF Inv, RightBlock, Types
    <3>2. CASE card.at = -1
      BY <1>3, <1>8, <3>1, <3>2
    <3>3. CASE card.at # -1
      <4>1. card'.cells = [card.cells EXCEPT ![Block] = New] /\ may' = [may EXCEPT ![Block] = {New}]
        BY <1>3, <1>6, <1>8, <3>3
      <4> QED
        BY <1>2, <3>1, <4>1 DEF CardType
    <3> QED
      BY <3>2, <3>3
  <2> QED
    BY <2>1, <2>3, <2>4, <2>5, <2>6, <2>7, <2>8 DEF Inv
<1> QED
  BY <1>7, <1>8 DEF WaitBusy

-----------------------------------------------------------------------------
(* The calls, and the user *)

(* A new access begins with nothing read. *)
LEMMA BeginStep ==
  ASSUME Inv, NEW kind \in {"read", "write"}, NEW first \in Blocks, NEW count \in 1 .. MaxCount,
         Begin(kind, first, count)
  PROVE  Inv'
<1> USE DEF Begin
<1>1. /\ pc = "idle" /\ call' = [kind |-> kind, first |-> first, count |-> count]
      /\ first + count - 1 \in Blocks /\ data' = <<>> /\ count \in Nat \ {0}
      /\ UNCHANGED <<known, timeout, stat, initOk, io, world, card, faults, may, blind, erred>>
  BY PacketAssumption
<1>2. pc' \in {"init", "access"} /\ (pc' = "access" => initOk)
  BY <1>1
<1>3. Types'
  <2>1. Flags'
    BY DEF Inv, Types, Flags, known, world
  <2>2. CallSound'
    BY <1>1 DEF CallSound
  <2>3. ccs' \in {0, 1} /\ tries' \in 0 .. MaxTries /\ swaps' \in 0 .. MaxSwaps
    BY DEF Inv, Types, known, world
  <2>4. /\ stat' \in StatType /\ io' \in IoType /\ CardSound(card') /\ faults' \in 0 .. MaxFaults
        /\ may' \in [Blocks -> SUBSET ({New} \union Blocks)]
    BY <1>1 DEF Inv, Types
  <2>5. pc' \in {"idle", "init"} \union Identifying \union Moving
    BY <1>2 DEF Moving
  <2> QED
    BY <2>1, <2>2, <2>3, <2>4, <2>5 DEF Types, CardSound, CardType
<1>4. Progress'
  <2>1. Len(data') = 0 /\ call'.count \in Nat \ {0}
    BY <1>1
  <2>2. Len(data') =< call'.count /\ Len(data') < call'.count
    BY <2>1
  <2>3. pc' \notin Identifying /\ pc' \notin Opening
    BY <1>2 DEF Identifying, Opening, Located
  <2> QED
    BY <1>1, <1>2, <2>2, <2>3 DEF Progress, Moving
<1>5. Lines'
  BY <1>1, <1>2 DEF Inv, Lines
<1>6. Addressing'
  <2>1. UNCHANGED <<ccs, card, blind, initOk>>
    BY <1>1 DEF known
  <2> QED
    BY <1>2, <2>1 DEF Inv, Addressing, Heard, Located
<1>7. Aimed'
  BY <1>2 DEF Aimed
<1>8. ReadSoFar'
  <2>1. 1 .. Len(data') = {}
    BY <1>1
  <2> QED
    BY <2>1 DEF ReadSoFar
<1>9. RightBlock'
  BY <1>1 DEF Inv, RightBlock
<1> QED
  BY <1>3, <1>4, <1>5, <1>6, <1>7, <1>8, <1>9 DEF Inv

(* A card in the slot that has heard nothing: the driver's state stays. *)
LEMMA ExchangeKeeps ==
  ASSUME Inv, UNCHANGED <<driver, cart, faults, token, erred>>, CardSound(card'), card'.mode = "native",
         reinsert' \in BOOLEAN, blind' \in BOOLEAN, swaps' \in 0 .. MaxSwaps,
         may' \in [Blocks -> SUBSET ({New} \union Blocks)], RightBlock'
  PROVE  Inv'
<1>1. UNCHANGED <<pc, call, ver2, mmc, ccs, tries, timeout, stat, initOk, io, data>>
  BY DEF driver
<1>2. Types'
  <2>1. Flags'
    BY <1>1 DEF Inv, Types, Flags
  <2>2. CallSound'
    BY <1>1 DEF Inv, Types, CallSound
  <2>3. /\ stat' \in StatType /\ io' \in IoType /\ faults' \in 0 .. MaxFaults
        /\ ccs' \in {0, 1} /\ tries' \in 0 .. MaxTries
        /\ pc' \in {"idle", "init"} \union Identifying \union Moving
    BY <1>1 DEF Inv, Types
  <2> QED
    BY <2>1, <2>2, <2>3 DEF Types, CardSound, CardType
<1>3. Progress'
  BY <1>1 DEF Inv, Progress
<1>4. Lines'
  BY <1>1 DEF Inv, Lines
<1>5. Addressing' /\ Aimed' /\ ReadSoFar'
  BY DEF Addressing, Aimed, ReadSoFar, Heard
<1> QED
  BY <1>2, <1>3, <1>4, <1>5 DEF Inv

(* An empty slot and a fresh card have heard nothing. *)
LEMMA CardsSound ==
  /\ CardSound(NoCard) /\ NoCard.mode = "native" /\ NoCard.kind = "none"
  /\ \A k \in Kinds, w \in 0 .. MaxTries :
       /\ CardSound(Fresh(k, w)) /\ Fresh(k, w).mode = "native"
       /\ Fresh(k, w).cells = [b \in Blocks |-> b]
<1>1. 0 \in Blocks /\ 0 \in 0 .. MaxTries
  BY PacketAssumption DEF Blocks
<1>2. NoCard \in CardType
  <2>1. [b \in Blocks |-> 0] \in [Blocks -> Blocks \union {New}]
    BY <1>1
  <2> QED
    BY <1>1, <2>1 DEF NoCard, CardType
<1>3. NoCard.mode = "native" /\ NoCard.kind = "none" /\ NoCard.at = -1
  BY DEF NoCard
<1>4. ASSUME NEW k \in Kinds, NEW w \in 0 .. MaxTries
      PROVE  /\ CardSound(Fresh(k, w)) /\ Fresh(k, w).mode = "native"
             /\ Fresh(k, w).cells = [b \in Blocks |-> b]
  <2>1. [b \in Blocks |-> b] \in [Blocks -> Blocks \union {New}]
    OBVIOUS
  <2> DEFINE cells == [b \in Blocks |-> b]
  <2>2. Fresh(k, w) = [NoCard EXCEPT !.kind = k, !.wake = w, !.cells = cells] /\ cells \in [Blocks -> Blocks \union {New}]
    BY <2>1 DEF Fresh
  <2> HIDE DEF cells
  <2>3. /\ Fresh(k, w) \in CardType /\ Fresh(k, w).kind = k /\ Fresh(k, w).mode = "native"
        /\ Fresh(k, w).at = -1 /\ Fresh(k, w).cells = cells
    BY <1>2, <1>3, <2>2 DEF CardType
  <2>4. k # "none"
    BY PacketAssumption
  <2> QED
    BY <2>3, <2>4 DEF CardSound, cells
<1> QED
  BY <1>2, <1>3, <1>4 DEF CardSound

(* A card that is pulled out leaves nothing pending. *)
LEMMA EjectStep ==
  ASSUME Inv, Eject PROVE Inv'
<1>1. /\ card' = NoCard /\ swaps < MaxSwaps /\ swaps' = swaps + 1
      /\ UNCHANGED <<driver, cart, reinsert, faults, may, blind, token, erred>>
  BY DEF Eject, ghosts
<1>2. CardSound(card') /\ card'.mode = "native" /\ card'.kind = "none"
  BY <1>1, CardsSound
<1>3. /\ reinsert' \in BOOLEAN /\ blind' \in BOOLEAN /\ may' \in [Blocks -> SUBSET ({New} \union Blocks)]
  BY <1>1 DEF Inv, Types, Flags
<1>4. swaps' \in 0 .. MaxSwaps
  BY <1>1, PacketAssumption DEF Inv, Types
<1>5. RightBlock'
  BY <1>2 DEF RightBlock
<1> QED
  BY <1>1, <1>2, <1>3, <1>4, <1>5, ExchangeKeeps

(* A card that is put in has heard nothing. *)
LEMMA InsertStep ==
  ASSUME Inv, NEW k \in Kinds, NEW w \in 0 .. MaxTries, Insert(k, w) PROVE Inv'
<1>1. /\ card' = Fresh(k, w) /\ reinsert' = TRUE /\ blind' = FALSE /\ may' = [b \in Blocks |-> {b}]
      /\ UNCHANGED <<driver, cart, swaps, faults, token, erred>>
  BY DEF Insert
<1>2. CardSound(card') /\ card'.mode = "native" /\ card'.cells = [b \in Blocks |-> b]
  BY <1>1, CardsSound
<1>3. reinsert' \in BOOLEAN /\ blind' \in BOOLEAN
  BY <1>1
<1>4. may' \in [Blocks -> SUBSET ({New} \union Blocks)] /\ swaps' \in 0 .. MaxSwaps
  BY <1>1 DEF Inv, Types
<1>5. RightBlock'
  BY <1>1, <1>2 DEF RightBlock
<1> QED
  BY <1>1, <1>2, <1>3, <1>4, <1>5, ExchangeKeeps

(* A step that changes nothing keeps the invariant. *)
LEMMA Stuttering ==
  ASSUME Inv, UNCHANGED vars PROVE Inv'
<1>1. UNCHANGED <<pc, call, ver2, mmc, ccs, tries, timeout, stat, initOk, io, data, cart, card, reinsert,
                  faults, swaps, may, blind, token, erred>>
  BY DEF vars, driver, world, ghosts
<1>2. Types'
  BY <1>1 DEF Inv, Types, Flags, CallSound, CardSound, CardType
<1>3. Progress' /\ Lines'
  BY <1>1 DEF Inv, Progress, Lines
<1>4. Addressing' /\ Aimed' /\ ReadSoFar' /\ RightBlock'
  BY <1>1 DEF Inv, Addressing, Aimed, ReadSoFar, RightBlock, Heard, Block
<1> QED
  BY <1>2, <1>3, <1>4 DEF Inv

(* The invariant holds before the first access. *)
LEMMA InvInit == Init => Inv
<1> SUFFICES ASSUME Init PROVE Inv
  OBVIOUS
<1> USE DEF Init
<1>1. 0 \in Blocks /\ 0 \in 0 .. MaxTries /\ 0 \in 0 .. MaxFaults /\ 0 \in 0 .. MaxSwaps
  BY PacketAssumption DEF Blocks
<1>2. Types
  <2>1. Flags
    BY DEF Flags
  <2>2. CallSound
    BY <1>1 DEF CallSound
  <2>3. stat \in StatType
    BY DEF StatType
  <2>4. io \in IoType
    BY LineValues, Zenon
  <2>5. CardSound(card)
    BY CardsSound
  <2>6. may \in [Blocks -> SUBSET ({New} \union Blocks)]
    BY <1>1
  <2> QED
    BY <1>1, <2>1, <2>2, <2>3, <2>4, <2>5, <2>6 DEF Types
<1>3. Progress
  BY DEF Progress, Identifying, Opening, Located, Moving
<1>4. Lines
  <2>1. io \in IoType /\ ~io.low /\ ~io.green /\ ~io.red
    BY LineValues, Zenon
  <2>2. io.red \in BOOLEAN
    BY <2>1 DEF IoType
  <2>3. io.red = erred
    BY <2>1, <2>2
  <2> QED
    BY <2>1, <2>3 DEF Lines
<1>5. card.mode = "native" /\ card.kind = "none"
  BY CardsSound
<1> QED
  BY <1>2, <1>3, <1>4, <1>5 DEF Inv, Addressing, Aimed, ReadSoFar, RightBlock, Heard

(* Every step keeps the invariant: one case per action. *)
LEMMA InvNext == Inv /\ [Next]_vars => Inv'
<1> SUFFICES ASSUME Inv, [Next]_vars PROVE Inv'
  OBVIOUS
<1>1. CASE Driver
  BY <1>1, InitStep, EarlySteps, SendOpCondStep, ReadOcrStep, LateSteps, SendCsdStep, SetBlockLenStep,
     AttachStep, ReadSingleBlockStep, WriteSingleBlockStep, ReadDataStep, DataResponseStep, WaitBusyStep
     DEF Driver
<1>2. CASE \E kind \in {"read", "write"}, first \in Blocks, count \in 1 .. MaxCount : Begin(kind, first, count)
  BY <1>2, BeginStep
<1>3. CASE Eject
  BY <1>3, EjectStep
<1>4. CASE \E k \in Kinds, w \in 0 .. MaxTries : Insert(k, w)
  BY <1>4, InsertStep
<1>5. CASE UNCHANGED vars
  BY <1>5, Stuttering
<1> QED
  BY <1>1, <1>2, <1>3, <1>4, <1>5 DEF Next

(* The invariant holds in every state. *)
LEMMA Invariance == Spec => []Inv
  BY InvInit, InvNext, PTL DEF Spec

-----------------------------------------------------------------------------

(***************************************************************************)
(* For every card, any number of exchanges and any number of packets that  *)
(* go wrong: the driver's loops keep their bounds, no access moves more    *)
(* blocks than were asked for, and every way out of sdc_init and           *)
(* sdc_sendpacket leaves the card deselected and the LEDs telling the      *)
(* truth.                                                                  *)
(***************************************************************************)
THEOREM DriverIsSound == Spec => []DriverSound
<1>1. Inv => DriverSound
  <2> SUFFICES ASSUME Inv PROVE DriverSound
    OBVIOUS
  <2>1. TypeOK
    <3>1. {ver2, mmc, timeout, initOk, cart, reinsert, blind, token, erred} \subseteq BOOLEAN
      BY DEF Inv, Types, Flags
    <3>2. card.kind \in Kinds \union {"none"} /\ card.at \in {-1} \union Blocks
      BY DEF Inv, Types, CardSound, CardType
    <3>3. pc \in {"idle", "init", "access", "data", "reply", "busy", "attach", "attached", "CMD0", "CMD8",
                  "CMD55", "CMD41", "CMD1", "CMD58", "CMD10", "CMD55b", "CMD9", "CMD16"}
      BY DEF Inv, Types, Identifying, Opening, Located, Moving
    <3> QED
      BY <3>1, <3>2, <3>3 DEF Inv, Types, Progress, TypeOK, StatType, IoType
  <2>2. LinesAtRest
    BY DEF Inv, Lines, LinesAtRest
  <2> QED
    BY <2>1, <2>2 DEF DriverSound
<1> QED
  BY <1>1, Invariance, PTL

(***************************************************************************)
(* sdc_write_multiple_blocks changes the blocks it was asked to change and *)
(* no other, whatever the size of the card and of a block.                 *)
(***************************************************************************)
THEOREM WritesTheRightBlock == Spec => []RightBlock
<1>1. Inv => RightBlock
  BY DEF Inv
<1> QED
  BY <1>1, Invariance, PTL

(***************************************************************************)
(* sdc_read_multiple_blocks, when it reports no error, has given the       *)
(* blocks that were asked for, all of the card that is in the slot.        *)
(***************************************************************************)
THEOREM ReadsTheRightBlocks == Spec => ReadTrue
<1>1. Inv /\ Inv' /\ [Next]_vars =>
        [pc = "data" /\ pc' = "idle" /\ ~timeout' /\ ~blind /\ ~token'
           => \A i \in 1 .. call.count : data'[i] = card.cells[call.first + i - 1]]_vars
  <2> SUFFICES ASSUME Inv, Inv', [Next]_vars, pc = "data", pc' = "idle", ~timeout', ~blind, ~token',
                      NEW i \in 1 .. call.count
               PROVE  data'[i] = card.cells[call.first + i - 1]
    BY DEF vars
  <2>1. ReadData
    <3>1. pc' # pc
      OBVIOUS
    <3>2. Next
      BY <3>1 DEF vars, driver
    <3>3. ~Eject /\ ~(\E k \in Kinds, w \in 0 .. MaxTries : Insert(k, w))
      BY <3>1 DEF Eject, Insert, driver
    <3> QED
      BY <3>2, <3>3 DEF Next, Driver, Begin, sdc_init, GoIdle, SendIfCond, AppCmd, SendOpCond, ReadOcr, SendCid,
         AppCmdAgain, SendCsd, SetBlockLen, Attach, ReadSingleBlock, WriteSingleBlock, DataResponse, WaitBusy
  <2>2. PICK x \in Incoming : pc' = More /\ data' = Append(data, x[1]) /\ UNCHANGED initOk
    BY <2>1 DEF ReadData, AccessFails
  <2>3. card.mode = "ready" /\ x[1] \in {Garbage, New} \union Blocks
    BY IncomingValue
  <2>4. UNCHANGED <<call, card, blind>>
    BY <2>1 DEF ReadData
  <2>5. Len(data) + 1 = call.count
    BY <2>2, MoreWays
  <2>6. Len(data') = call.count
    BY <2>2, <2>3, <2>4, <2>5, Longer
  <2>7. Heard' /\ call'.kind = "read"
    BY <2>3, <2>4 DEF Heard, Inv, Progress
  <2> QED
    BY <2>4, <2>6, <2>7 DEF Inv, ReadSoFar
<1> QED
  BY <1>1, Invariance, PTL DEF Spec, ReadTrue

-----------------------------------------------------------------------------
(* The compression. *)

(* A set of numbers that is not empty has a least one. *)
LEMMA NatMin ==
  ASSUME NEW T, T \subseteq Nat, T # {}
  PROVE  \E m \in T : \A k \in T : m =< k
<1> DEFINE R == OpToRel(<, Nat)
<1>1. IsWellFoundedOn(R, Nat)
  BY NatLessThanWellFounded
<1> HIDE DEF R
<1>2. PICK m \in T : \A y \in T : ~(<<y, m>> \in R)
  BY <1>1, WFMin
<1>3. \A y \in T : y < m => <<y, m>> \in R
  BY DEF R, OpToRel
<1>4. ASSUME NEW y \in T PROVE m =< y
  <2>1. ~(y < m)
    BY <1>2, <1>3
  <2>2. m \in Nat /\ y \in Nat
    OBVIOUS
  <2> QED
    BY <2>1, <2>2
<1> QED
  BY <1>4

(* Induction over the numbers, for a set of them. *)
LEMMA NatBySet ==
  ASSUME NEW T, 0 \in T, \A n \in Nat : n \in T => n + 1 \in T
  PROVE  Nat \subseteq T
<1> SUFFICES ASSUME ~(Nat \subseteq T) PROVE FALSE
  OBVIOUS
<1> DEFINE B == Nat \ T
<1>1. B \subseteq Nat /\ B # {}
  OBVIOUS
<1>2. PICK m \in B : \A k \in B : m =< k
  BY <1>1, NatMin
<1>3. m # 0 /\ m \in Nat /\ m \notin T
  BY <1>2
<1>4. PICK n \in Nat : m = n + 1
  BY <1>3
<1>5. n \notin B
  BY <1>2, <1>4
<1> QED
  BY <1>3, <1>4, <1>5

(* FirstOf gives the least element. *)
LEMMA FirstOfIs ==
  ASSUME NEW T, T \subseteq Nat, T # {}
  PROVE  FirstOf(T) \in T /\ FirstOf(T) \in Nat /\ \A j \in T : FirstOf(T) =< j
<1>1. PICK m \in T : \A k \in T : m =< k
  BY NatMin
<1>2. FirstOf(T) \in T /\ \A j \in T : FirstOf(T) =< j
  BY <1>1 DEF FirstOf
<1> QED
  BY <1>2

-----------------------------------------------------------------------------
(* Arithmetic. *)

(* Division with remainder. *)
LEMMA DivMod ==
  ASSUME NEW a \in Nat, NEW b \in Nat \ {0}
  PROVE  /\ a \div b \in Nat /\ a % b \in 0 .. (b - 1) /\ a % b \in Nat
         /\ a = b * (a \div b) + (a % b)
  OBVIOUS

(* More than one factor moves a product by the other factor at least. *)
LEMMA ProductGap ==
  ASSUME NEW b \in Nat \ {0}, NEW p \in Nat, NEW q \in Nat, p < q
  PROVE  b * p + b =< b * q
<1>1. PICK k \in Nat : q = p + 1 + k
  <2>1. q - p - 1 \in Nat /\ q = p + 1 + (q - p - 1)
    OBVIOUS
  <2> QED
    BY <2>1
<1>2. b * q = b * p + b + b * k
  BY <1>1
<1>3. b * k \in Nat /\ b * p \in Nat
  OBVIOUS
<1> QED
  BY <1>2, <1>3

(* Quotient and remainder are unique. *)
LEMMA DivUnique ==
  ASSUME NEW b \in Nat \ {0}, NEW q \in Nat, NEW r \in Nat, r < b, NEW a \in Nat, a = b * q + r
  PROVE  a \div b = q /\ a % b = r
<1> DEFINE p == a \div b
           s == a % b
<1>1. p \in Nat /\ s \in Nat /\ s < b /\ a = b * p + s
  BY DivMod
<1> HIDE DEF p, s
<1>2. b * p \in Nat /\ b * q \in Nat
  BY <1>1
<1>3. ~(p < q)
  <2> SUFFICES ASSUME p < q PROVE FALSE
    OBVIOUS
  <2>1. b * p + b =< b * q
    BY <1>1, ProductGap
  <2> QED
    BY <1>1, <1>2, <2>1
<1>4. ~(q < p)
  <2> SUFFICES ASSUME q < p PROVE FALSE
    OBVIOUS
  <2>1. b * q + b =< b * p
    BY <1>1, ProductGap
  <2> QED
    BY <1>1, <1>2, <2>1
<1>5. p = q
  BY <1>1, <1>3, <1>4
<1>6. s = r
  BY <1>1, <1>2, <1>5
<1> QED
  BY <1>5, <1>6 DEF p, s

Byte == 0 .. (Base - 1)

(* What the assumption on the format says of the derived widths. *)
LEMMA Format ==
  /\ Base \in Nat \ {0} /\ MaxLit \in Nat \ {0} /\ Slots \in Nat \ {0} /\ Unroll \in Nat \ {0}
  /\ OneByte \in Nat /\ TwoBytes \in Nat /\ MaxLit < Base
  /\ LongRef \in Nat /\ 1 =< LongRef /\ Base = MaxLit * LongRef + MaxLit
  /\ MAX_OFF \in Nat /\ MAX_OFF = MaxLit * Base
  /\ MAX_REF \in Nat /\ MAX_REF = Base + LongRef + 1 /\ Unroll + 3 =< MAX_REF
<1>1. /\ Base \in Nat \ {0} /\ MaxLit \in Nat \ {0} /\ Slots \in Nat \ {0} /\ Unroll \in Nat \ {0}
      /\ OneByte \in Nat /\ TwoBytes \in Nat /\ MaxLit < Base /\ Base % MaxLit = 0
      /\ Unroll + 3 =< MAX_REF
  BY FormatAssumption DEF FormatAssumption
<1>2. PICK q \in Nat : q = Base \div MaxLit /\ Base = MaxLit * q
  <2>1. Base \div MaxLit \in Nat /\ Base = MaxLit * (Base \div MaxLit) + (Base % MaxLit)
    BY <1>1, DivMod
  <2>2. MaxLit * (Base \div MaxLit) \in Nat
    BY <1>1, <2>1
  <2> QED
    BY <1>1, <2>1, <2>2
<1>3. q # 0 /\ q # 1
  <2>1. MaxLit * 0 = 0 /\ MaxLit * 1 = MaxLit
    BY <1>1
  <2> QED
    BY <1>1, <1>2, <2>1
<1>4. LongRef = q - 1 /\ LongRef \in Nat /\ 1 =< LongRef
  BY <1>2, <1>3 DEF LongRef
<1>5. Base = MaxLit * LongRef + MaxLit
  <2>1. PICK k \in Nat : k = LongRef /\ q = k + 1
    BY <1>4
  <2>2. MaxLit * (k + 1) = MaxLit * k + MaxLit
    BY <1>1
  <2> QED
    BY <1>2, <2>1, <2>2
<1>6. MaxLit * Base \in Nat
  BY <1>1
<1> QED
  BY <1>1, <1>4, <1>5, <1>6 DEF MAX_OFF, MAX_REF

(* The hash of three bytes is a slot of the table. *)
LEMMA IdxType ==
  ASSUME NEW d \in Seq(Byte), NEW i \in Nat \ {0}, i + 2 =< Len(d)
  PROVE  IDX(d, i) \in 0 .. (Slots - 1)
<1> DEFINE h == (d[i] * Base + d[i + 1]) * Base + d[i + 2]
           cube == Base * Base * Base
           w == cube \div Slots
<1>1. d[i] \in Nat /\ d[i + 1] \in Nat /\ d[i + 2] \in Nat
  <2>1. i \in 1 .. Len(d) /\ i + 1 \in 1 .. Len(d) /\ i + 2 \in 1 .. Len(d)
    OBVIOUS
  <2>2. Base \in Nat
    BY Format
  <2> QED
    BY <2>1, <2>2 DEF Byte
<1>2. h \in Nat
  <2>1. d[i] * Base \in Nat
    BY <1>1, Format
  <2>2. \A x \in Nat : x * Base \in Nat
    BY Format
  <2>3. (d[i] * Base + d[i + 1]) * Base \in Nat
    <3>1. d[i] * Base + d[i + 1] \in Nat
      BY <1>1, <2>1
    <3> QED
      BY <2>2, <3>1
  <2> QED
    BY <1>1, <2>3
<1>3. cube \in Nat /\ cube # 0 /\ cube % Slots = 0
  <2>1. Base * Base \in Nat \ {0}
    BY Format
  <2>2. cube \in Nat \ {0}
    BY <2>1, Format
  <2> QED
    BY <2>2, FormatAssumption DEF FormatAssumption
<1> HIDE DEF cube
<1>4. w \in Nat /\ w # 0
  <2>1. w \in Nat /\ cube = Slots * w + (cube % Slots)
    BY <1>3, DivMod, Format
  <2>2. Slots * 0 = 0
    BY Format
  <2> QED
    BY <1>3, <2>1, <2>2
<1> HIDE DEF h, w
<1>5. h \div w \in Nat
  BY <1>2, <1>4, DivMod
<1>6. PICK x \in Int : x = (h \div w) - h * 5
  BY <1>2, <1>5
<1>7. x % Slots \in 0 .. (Slots - 1)
  BY Format
<1> QED
  BY <1>6, <1>7 DEF IDX, h, w, cube

-----------------------------------------------------------------------------
(* A match: what TakeMatch refers to is there. *)
IsMatch(d, ref, ip, n) ==
    /\ n \in Nat /\ 3 =< n /\ n =< MAX_REF /\ ip + n =< Len(d) + 1
    /\ \A k \in 0 .. (n - 1) : d[ref + k] = d[ip + k]

(* MatchLength finds bytes that are the same at both places, inside the input. *)
LEMMA MatchIs ==
  ASSUME NEW d \in Seq(Byte), NEW ref \in Nat, NEW ip \in Nat, Matches(d, ref, ip)
  PROVE  IsMatch(d, ref, ip, MatchLength(d, ref, ip))
<1> DEFINE left == Len(d) + 1 - ip - 2
           maxlen == IF left > MAX_REF THEN MAX_REF ELSE left
           Differ(k) == d[ref + k] # d[ip + k]
           unrolled == IF maxlen > Unroll THEN {k \in 3 .. Unroll + 2 : Differ(k)} ELSE {}
           start == IF maxlen > Unroll THEN Unroll + 3 ELSE 3
           rest == {k \in start .. start + maxlen : k >= maxlen \/ Differ(k)}
           n == MatchLength(d, ref, ip)
<1>1. n = IF unrolled # {} THEN FirstOf(unrolled) ELSE FirstOf(rest)
  BY DEF MatchLength
<1>2. /\ left \in Nat /\ 3 =< left /\ ip + left + 2 = Len(d) + 1
      /\ d[ref] = d[ip] /\ d[ref + 1] = d[ip + 1] /\ d[ref + 2] = d[ip + 2]
  <2>1. \A k \in 0 .. 2 : d[ref + k] = d[ip + k]
    BY DEF Matches
  <2>2. d[ref + 0] = d[ip + 0] /\ d[ref + 1] = d[ip + 1] /\ d[ref + 2] = d[ip + 2]
    BY <2>1
  <2>3. ref + 0 = ref /\ ip + 0 = ip
    OBVIOUS
  <2>4. ip + 4 < Len(d) + 1 /\ Len(d) \in Nat
    BY DEF Matches
  <2> QED
    BY <2>2, <2>3, <2>4
<1>3. \A k \in {0, 1, 2} : d[ref + k] = d[ip + k]
  <2>1. {0, 1, 2} \subseteq 0 .. 2
    OBVIOUS
  <2>2. \A k \in 0 .. 2 : d[ref + k] = d[ip + k]
    BY Zenon DEF Matches
  <2> QED
    BY <2>1, <2>2, Zenon
<1> HIDE DEF n, left
<1>4. maxlen \in Nat /\ 3 =< maxlen /\ maxlen =< left /\ maxlen =< MAX_REF
  <2>1. MAX_REF \in Nat /\ 4 =< MAX_REF
    BY Format
  <2> QED
    BY <1>2, <2>1
<1> HIDE DEF maxlen
<1>5. CASE unrolled # {}
  <2>1. maxlen > Unroll /\ unrolled \subseteq Nat
    BY <1>5, Format
  <2>2. n \in unrolled /\ \A j \in unrolled : n =< j
    BY <1>1, <1>5, <2>1, FirstOfIs
  <2>3. n \in Nat /\ 3 =< n /\ n =< Unroll + 2
    BY <2>1, <2>2, Format
  <2>4. ASSUME NEW k \in 0 .. (n - 1) PROVE d[ref + k] = d[ip + k]
    <3>1. CASE k \in {0, 1, 2}
      BY <1>3, <3>1, Zenon
    <3>2. CASE k \notin {0, 1, 2}
      <4>1. k \in 3 .. (Unroll + 2) /\ k < n
        BY <2>3, <3>2, Format
      <4>2. k \notin unrolled
        BY <2>2, <2>3, <4>1
      <4> QED
        BY <2>1, <4>1, <4>2
    <3> QED
      BY <3>1, <3>2
  <2>5. n =< MAX_REF /\ ip + n =< Len(d) + 1
    BY <1>2, <1>4, <2>1, <2>3, Format
  <2> QED
    BY <2>3, <2>4, <2>5 DEF IsMatch, n
<1>6. CASE unrolled = {}
  <2>1. start \in Nat /\ 3 =< start /\ rest \subseteq Nat
    BY <1>4, Format
  <2>2. start + maxlen \in rest
    BY <1>4, <2>1
  <2>3. n \in rest /\ \A j \in rest : n =< j
    <3> HIDE DEF rest
    <3> QED
      BY <1>1, <1>6, <2>1, <2>2, FirstOfIs
  <2>4. n \in Nat /\ start =< n
    BY <2>1, <2>3
  <2>5. ASSUME NEW k \in 0 .. (n - 1) PROVE d[ref + k] = d[ip + k]
    <3>1. CASE k \in {0, 1, 2}
      BY <1>3, <3>1, Zenon
    <3>2. CASE k \notin {0, 1, 2} /\ k < start
      <4>1. maxlen > Unroll /\ k \in 3 .. (Unroll + 2)
        BY <2>4, <3>2, Format
      <4> QED
        BY <1>6, <4>1
    <3>3. CASE k >= start
      <4>1. k \notin rest
        BY <2>3, <2>4
      <4>2. k \in start .. (start + maxlen)
        BY <2>1, <2>3, <2>4, <3>3, <1>4
      <4> QED
        BY <4>1, <4>2
    <3> QED
      BY <2>1, <2>4, <3>1, <3>2, <3>3
  <2>6. n =< start \/ n =< maxlen
    <3> SUFFICES ASSUME n > start, n > maxlen PROVE FALSE
      BY <1>4, <2>1, <2>4
    <3>1. PICK j \in Nat : n = j + 1
      BY <2>1, <2>4
    <3>2. j \in start .. (start + maxlen) /\ j >= maxlen
      BY <1>4, <2>1, <2>3, <2>4, <3>1
    <3>3. j \in rest
      BY <3>2
    <3> QED
      BY <2>3, <3>1, <3>3
  <2>7. start =< maxlen + 2 /\ start =< MAX_REF
    <3>1. (start = Unroll + 3 /\ maxlen > Unroll) \/ start = 3
      OBVIOUS
    <3> QED
      BY <1>4, <3>1, Format
  <2>8. n =< MAX_REF /\ ip + n =< Len(d) + 1
    BY <1>2, <1>4, <2>1, <2>4, <2>6, <2>7, Format
  <2> QED
    BY <2>1, <2>4, <2>5, <2>8 DEF IsMatch, n
<1> QED
  BY <1>5, <1>6

(* The bytes of a reference say what was put into them. *)
IsReference(r, off, n) ==
    /\ r \in Seq(Byte) /\ Len(r) \in {2, 3}
    /\ r[1] \in Nat /\ r[1] >= MaxLit
    /\ r[1] \div MaxLit \in Nat /\ (r[1] \div MaxLit = LongRef <=> Len(r) = 3)
    /\ n = 2 + (r[1] \div MaxLit) + (IF Len(r) = 3 THEN r[2] ELSE 0)
    /\ (r[1] % MaxLit) * Base + r[Len(r)] = off

(* Reference writes such bytes, for every offset and length of the format. *)
LEMMA ReferenceIs ==
  ASSUME NEW off \in Nat, off < MAX_OFF, NEW n \in Nat, 3 =< n, n =< MAX_REF
  PROVE  IsReference(Reference(off, n), off, n)
<1> DEFINE r == Reference(off, n)
<1>1. PICK hi \in Nat, lo \in Nat : hi = off \div Base /\ lo = off % Base /\ lo < Base /\ off = Base * hi + lo
  <2>1. /\ off \div Base \in Nat /\ off % Base \in Nat /\ off % Base \in 0 .. (Base - 1)
        /\ off = Base * (off \div Base) + (off % Base)
    BY DivMod, Format
  <2>2. off % Base < Base
    BY <2>1, Format
  <2> QED
    BY <2>1, <2>2
<1>2. hi < MaxLit
  <2> SUFFICES ASSUME MaxLit =< hi PROVE FALSE
    BY <1>1, Format
  <2>1. PICK k \in Nat : hi = MaxLit + k
    <3>1. hi - MaxLit \in Nat /\ hi = MaxLit + (hi - MaxLit)
      BY Format
    <3> QED
      BY <3>1
  <2>2. Base * hi = Base * MaxLit + Base * k /\ Base * k \in Nat /\ Base * MaxLit \in Nat
    BY <2>1, Format
  <2>3. MAX_OFF = Base * MaxLit
    BY Format
  <2> QED
    BY <1>1, <2>2, <2>3
<1>3. PICK len \in Nat : len = n - 2 /\ 1 =< len /\ len =< Base + LongRef - 1 /\ n = len + 2
  BY Format
<1>4. ASSUME NEW q \in Nat, 1 =< q, q =< LongRef
      PROVE  /\ hi + q * MaxLit \in Byte /\ hi + q * MaxLit >= MaxLit
             /\ (hi + q * MaxLit) \div MaxLit = q /\ (hi + q * MaxLit) % MaxLit = hi
  <2>1. MaxLit * q \in Nat /\ q * MaxLit = MaxLit * q /\ MaxLit =< MaxLit * q
    <3>1. MaxLit * q \in Nat /\ q * MaxLit = MaxLit * q
      BY Format
    <3>2. MaxLit * 0 = 0
      BY Format
    <3>3. MaxLit * 0 + MaxLit =< MaxLit * q
      BY <1>4, ProductGap, Format
    <3> QED
      BY <3>1, <3>2, <3>3, Format
  <2>2. MaxLit * q =< MaxLit * LongRef /\ MaxLit * LongRef \in Nat
    <3>1. CASE q = LongRef
      BY <3>1, Format
    <3>2. CASE q < LongRef
      <4>1. MaxLit * q + MaxLit =< MaxLit * LongRef
        BY <3>2, ProductGap, Format
      <4>2. MaxLit * LongRef \in Nat
        BY Format
      <4> QED
        BY <2>1, <4>1, <4>2, Format
    <3> QED
      BY <1>4, <3>1, <3>2, Format
  <2>3. PICK a \in Nat : a = MaxLit * q + hi /\ a = hi + q * MaxLit
    BY <2>1
  <2>4. a \div MaxLit = q /\ a % MaxLit = hi
    BY <1>2, <2>3, DivUnique, Format
  <2>5. a \in Byte /\ a >= MaxLit
    BY <1>2, <2>1, <2>2, <2>3, Format DEF Byte
  <2> QED
    BY <2>3, <2>4, <2>5
<1>5. hi * Base + lo = off /\ lo \in Byte
  <2>1. hi * Base = Base * hi
    BY Format
  <2> QED
    BY <1>1, <2>1, Format DEF Byte
<1>6. CASE len < LongRef
  <2>1. r = <<hi + len * MaxLit, lo>>
    BY <1>1, <1>3, <1>6 DEF Reference
  <2>2. PICK a \in Byte : a = hi + len * MaxLit /\ a >= MaxLit /\ a \div MaxLit = len /\ a % MaxLit = hi
    BY <1>3, <1>4, <1>6, Format
  <2>3. r = <<a, lo>> /\ r \in Seq(Byte) /\ Len(r) = 2 /\ r[1] = a /\ r[2] = lo
    BY <1>5, <2>1, <2>2
  <2>4. a \in Nat
    BY Format DEF Byte
  <2> HIDE DEF r
  <2>5. /\ r[1] \in Nat /\ r[1] >= MaxLit /\ r[1] \div MaxLit = len /\ r[1] % MaxLit = hi
        /\ r[Len(r)] = lo /\ Len(r) # 3
    BY <2>2, <2>3, <2>4
  <2>6. (r[1] % MaxLit) * Base + r[Len(r)] = off
    BY <1>5, <2>5, Zenon
  <2>7. r[1] \div MaxLit \in Nat /\ r[1] \div MaxLit # LongRef
    <3>1. len # LongRef
      BY <1>6, Format
    <3> QED
      BY <2>5, <3>1, Zenon
  <2>8. n = 2 + r[1] \div MaxLit + 0
    <3>1. n = 2 + len + 0
      BY <1>3
    <3> QED
      BY <2>5, <3>1, Zenon
  <2>9. n = 2 + r[1] \div MaxLit + (IF Len(r) = 3 THEN r[2] ELSE 0)
    BY <2>5, <2>8, Zenon
  <2>10. Len(r) \in {2, 3} /\ (r[1] \div MaxLit = LongRef <=> Len(r) = 3)
    BY <2>3, <2>5, <2>7, Zenon
  <2>11. IsReference(r, off, n)
    BY <2>3, <2>5, <2>6, <2>7, <2>9, <2>10, Zenon DEF IsReference
  <2> QED
    BY <2>11 DEF r
<1>7. CASE len >= LongRef
  <2>1. PICK e \in Nat : e = len - LongRef /\ e < Base
    BY <1>3, <1>7, Format
  <2>2. e % Base = e
    <3>1. Base * 0 = 0
      BY Format
    <3> QED
      BY <2>1, <3>1, DivUnique, Format
  <2>3. r = <<hi + LongRef * MaxLit, e, lo>>
    BY <1>1, <1>3, <1>7, <2>1, <2>2, Format DEF Reference
  <2>4. PICK a \in Byte : a = hi + LongRef * MaxLit /\ a >= MaxLit /\ a \div MaxLit = LongRef /\ a % MaxLit = hi
    BY <1>4, Format
  <2>5. e \in Byte
    BY <2>1, Format DEF Byte
  <2>6. r = <<a, e, lo>> /\ r \in Seq(Byte) /\ Len(r) = 3 /\ r[1] = a /\ r[2] = e /\ r[3] = lo
    BY <1>5, <2>3, <2>4, <2>5
  <2>7. a \in Nat
    BY Format DEF Byte
  <2> HIDE DEF r
  <2>8. /\ r[1] \in Nat /\ r[1] >= MaxLit /\ r[1] \div MaxLit = LongRef /\ r[1] % MaxLit = hi
        /\ r[Len(r)] = lo /\ n = 2 + LongRef + r[2]
    BY <1>3, <2>1, <2>4, <2>6, <2>7, Format
  <2>9. (r[1] % MaxLit) * Base + r[Len(r)] = off
    BY <1>5, <2>8, Zenon
  <2>10. LongRef \in Nat /\ r[1] \div MaxLit \in Nat
    BY <2>8, Format
  <2>11. n = 2 + r[1] \div MaxLit + (IF Len(r) = 3 THEN r[2] ELSE 0)
    BY <2>6, <2>8, Zenon
  <2>12. Len(r) \in {2, 3} /\ (r[1] \div MaxLit = LongRef <=> Len(r) = 3)
    BY <2>6, <2>8, Zenon
  <2>13. IsReference(r, off, n)
    BY <2>6, <2>8, <2>9, <2>10, <2>11, <2>12, Zenon DEF IsReference
  <2> QED
    BY <2>13 DEF r
<1> QED
  BY <1>3, <1>6, <1>7, Format

-----------------------------------------------------------------------------
(* A reference may reach into the bytes that it makes: they repeat. *)

(* A remainder of a number below the divisor. *)
LEMMA ModSmall ==
  ASSUME NEW p \in Nat \ {0}, NEW k \in Nat, k < p
  PROVE  k % p = k
<1>1. p * 0 = 0
  OBVIOUS
<1> QED
  BY <1>1, DivUnique

(* The divisor can be taken off first. *)
LEMMA ModMinus ==
  ASSUME NEW p \in Nat \ {0}, NEW k \in Nat, p =< k
  PROVE  k - p \in Nat /\ k % p = (k - p) % p
<1>1. PICK j \in Nat : j = k - p /\ k = j + p
  OBVIOUS
<1>2. PICK q \in Nat, r \in Nat : r = j % p /\ r < p /\ j = p * q + r
  <2>1. j \div p \in Nat /\ j % p \in Nat /\ j % p \in 0 .. (p - 1) /\ j = p * (j \div p) + (j % p)
    BY DivMod
  <2>2. j % p < p
    BY <2>1
  <2> QED
    BY <2>1, <2>2
<1>3. k = p * (q + 1) + r
  <2>1. p * (q + 1) = p * q + p /\ p * q \in Nat
    OBVIOUS
  <2> QED
    BY <1>1, <1>2, <2>1
<1>4. k % p = r
  <2>1. PICK v \in Nat : v = q + 1 /\ k = p * v + r
    BY <1>3
  <2>2. k = p * v + r
    BY <2>1
  <2>3. r < p
    BY <1>2
  <2> QED
    BY <2>2, <2>3, DivUnique
<1> QED
  BY <1>1, <1>2, <1>4

(* In a match that overlaps itself the bytes repeat. *)
LEMMA Repeats ==
  ASSUME NEW d, NEW ref \in Nat, NEW ip \in Nat, ref < ip, NEW n, IsMatch(d, ref, ip, n)
  PROVE  \A k \in 0 .. (n - 1) : d[ref + (k % (ip - ref))] = d[ip + k]
<1>0. n \in Nat /\ \A k \in 0 .. (n - 1) : d[ref + k] = d[ip + k]
  BY DEF IsMatch
<1>1. PICK p \in Nat \ {0} : p = ip - ref /\ ip = ref + p
  OBVIOUS
<1> DEFINE B == {k \in 0 .. (n - 1) : d[ref + (k % p)] # d[ip + k]}
<1>2. B = {}
  <2> SUFFICES ASSUME B # {} PROVE FALSE
    OBVIOUS
  <2>1. B \subseteq Nat
    OBVIOUS
  <2>2. PICK m \in B : \A k \in B : m =< k
    <3> HIDE DEF B
    <3> QED
      BY <2>1, NatMin
  <2>3. m \in Nat /\ m \in 0 .. (n - 1) /\ d[ref + (m % p)] # d[ip + m] /\ d[ref + m] = d[ip + m]
    BY <1>0, <2>2
  <2>4. p =< m
    <3> SUFFICES ASSUME m < p PROVE FALSE
      BY <2>3
    <3>1. m % p = m
      BY <2>3, ModSmall
    <3> QED
      BY <2>3, <3>1
  <2>5. m - p \in Nat /\ m % p = (m - p) % p
    BY <2>3, <2>4, ModMinus
  <2>6. m - p \in 0 .. (n - 1) /\ m - p < m /\ ip + (m - p) = ref + m
    BY <1>0, <1>1, <2>3, <2>4, <2>5
  <2>7. m - p \notin B
    BY <2>2, <2>6
  <2>8. d[ref + ((m - p) % p)] = d[ip + (m - p)]
    BY <2>6, <2>7
  <2> QED
    BY <2>3, <2>5, <2>6, <2>8
<1> QED
  BY <1>1, <1>2

(* Copying back a match continues the input. *)
LEMMA CopyBackIs ==
  ASSUME NEW d \in Seq(Byte), NEW ref \in Nat, NEW ip \in Nat, 1 =< ref, ref < ip,
         NEW n, IsMatch(d, ref, ip, n)
  PROVE  CopyBack(SubSeq(d, 1, ip - 1), ip - ref - 1, n) = SubSeq(d, 1, ip + n - 1)
<1>0. n \in Nat /\ 3 =< n /\ ip + n =< Len(d) + 1 /\ Len(d) \in Nat
  BY DEF IsMatch
<1> DEFINE x == SubSeq(d, 1, ip - 1)
           z == SubSeq(d, 1, ip + n - 1)
           p == ip - ref
           y == [i \in 1 .. n |-> x[ref + ((i - 1) % p)]]
<1>1. p \in Nat \ {0}
  OBVIOUS
<1>2. /\ x \in Seq(Byte) /\ Len(x) = ip - 1 /\ \A i \in 1 .. (ip - 1) : x[i] = d[i]
      /\ z \in Seq(Byte) /\ Len(z) = ip + n - 1 /\ \A i \in 1 .. (ip + n - 1) : z[i] = d[i]
  <2>1. ASSUME NEW e \in Nat, e =< Len(d)
        PROVE  /\ SubSeq(d, 1, e) \in Seq(Byte) /\ Len(SubSeq(d, 1, e)) = e
               /\ \A i \in 1 .. e : SubSeq(d, 1, e)[i] = d[i]
    <3>1. \A i \in 1 .. e : d[i] \in Byte
      BY <2>1
    <3> QED
      BY <3>1, SubSeqProperties
  <2>2. ip - 1 \in Nat /\ ip - 1 =< Len(d) /\ ip + n - 1 \in Nat /\ ip + n - 1 =< Len(d)
    BY <1>0
  <2> QED
    BY <2>1, <2>2
<1>3. \A k \in 0 .. (n - 1) : d[ref + (k % p)] = d[ip + k]
  BY Repeats
<1> HIDE DEF x, z
<1>4. ASSUME NEW i \in 1 .. n PROVE y[i] = d[ip + i - 1] /\ y[i] \in Byte
  <2>1. PICK k \in Nat : k = i - 1 /\ k \in 0 .. (n - 1)
    BY <1>0
  <2>2. k % p \in 0 .. (p - 1)
    BY <1>1, <2>1, DivMod
  <2>3. ref + (k % p) \in 1 .. (ip - 1)
    BY <2>2
  <2>4. y[i] = x[ref + (k % p)]
    BY <2>1
  <2>5. y[i] = d[ip + k]
    BY <1>2, <1>3, <2>1, <2>3, <2>4
  <2>6. ip + k = ip + i - 1 /\ ip + k \in 1 .. Len(d)
    BY <1>0, <2>1
  <2> QED
    BY <2>5, <2>6
<1>5. y \in Seq(Byte) /\ Len(y) = n
  <2>1. y \in [1 .. n -> Byte]
    BY <1>4
  <2>2. y \in Seq(Byte)
    BY <1>0, <2>1
  <2>3. DOMAIN y = 1 .. n
    OBVIOUS
  <2> HIDE DEF y
  <2> QED
    BY <1>0, <2>2, <2>3, LenProperties
<1>6. CopyBack(x, ip - ref - 1, n) = x \o y
  <2>1. Len(x) - (ip - ref - 1) = ref /\ (ip - ref - 1) + 1 = p
    BY <1>2
  <2> QED
    BY <2>1 DEF CopyBack
<1> HIDE DEF y, p
<1>7. /\ x \o y \in Seq(Byte) /\ Len(x \o y) = ip - 1 + n
      /\ \A i \in 1 .. (ip - 1 + n) : (x \o y)[i] = IF i =< ip - 1 THEN x[i] ELSE y[i - (ip - 1)]
  <2>1. /\ x \o y \in Seq(Byte) /\ Len(x \o y) = Len(x) + Len(y)
        /\ \A i \in 1 .. (Len(x) + Len(y)) : (x \o y)[i] = IF i =< Len(x) THEN x[i] ELSE y[i - Len(x)]
    BY <1>2, <1>5, ConcatProperties
  <2>2. Len(x) = ip - 1 /\ Len(y) = n
    BY <1>2, <1>5
  <2> QED
    BY <2>1, <2>2
<1>8. ASSUME NEW i \in 1 .. (ip - 1 + n) PROVE (x \o y)[i] = z[i]
  <2>1. CASE i =< ip - 1
    <3>1. i \in 1 .. (ip - 1) /\ i \in 1 .. (ip + n - 1)
      BY <1>0, <2>1
    <3>2. (x \o y)[i] = x[i]
      BY <1>7, <2>1
    <3> QED
      BY <1>2, <3>1, <3>2
  <2>2. CASE i > ip - 1
    <3>1. i - (ip - 1) \in 1 .. n /\ ip + (i - (ip - 1)) - 1 = i
      BY <1>0, <2>2
    <3>2. (x \o y)[i] = y[i - (ip - 1)] /\ y[i - (ip - 1)] = d[i]
      BY <1>4, <1>7, <2>2, <3>1
    <3>3. i \in 1 .. (ip + n - 1)
      BY <1>0
    <3> QED
      BY <1>2, <3>2, <3>3
  <2>3. i =< ip - 1 \/ i > ip - 1
    BY <1>0
  <2> QED
    BY <2>1, <2>2, <2>3
<1>9. Len(x \o y) = Len(z)
  BY <1>0, <1>2, <1>7
<1>10. x \o y = z
  BY <1>2, <1>7, <1>8, <1>9, SeqEqual
<1> QED
  BY <1>6, <1>10 DEF x, z

-----------------------------------------------------------------------------
(* Runs of lzf_decompress.  L is the length of the output. *)

DState == [ip : Nat, out : Seq(Byte), bad : {FALSE}]
DStart == [ip |-> 1, out |-> <<>>, bad |-> FALSE]

(* p are the states of a run that reads all of c and has written x. *)
IsRun(c, L, x, m, p) ==
    /\ p \in [0 .. m -> DState]
    /\ p[0] = DStart /\ p[m] = [ip |-> Len(c) + 1, out |-> x, bad |-> FALSE]
    /\ \A i \in 0 .. m : i + 1 =< p[i].ip /\ p[i].ip =< Len(c) + 1
    /\ \A i \in 0 .. (m - 1) : p[i].ip =< Len(c) /\ p[i + 1] = DecompressStep(c, L, p[i])

Decodes(c, L, x) == \E m \in Nat : \E p \in [0 .. m -> DState] : IsRun(c, L, x, m, p)

(* What is read does not change what was read before. *)
LEMMA StepSame ==
  ASSUME NEW c \in Seq(Byte), NEW t \in Seq(Byte), NEW L \in Nat, NEW s \in DState,
         1 =< s.ip, s.ip =< Len(c), NEW r \in DState, r = DecompressStep(c, L, s), r.ip =< Len(c) + 1
  PROVE  DecompressStep(c \o t, L, s) = r
<1> DEFINE e == c \o t
<1>1. e \in Seq(Byte) /\ Len(e) = Len(c) + Len(t) /\ Len(c) \in Nat /\ Len(t) \in Nat
      /\ \A i \in 1 .. Len(c) : e[i] = c[i]
  <2>1. /\ e \in Seq(Byte) /\ Len(e) = Len(c) + Len(t)
        /\ \A i \in 1 .. (Len(c) + Len(t)) : e[i] = IF i =< Len(c) THEN c[i] ELSE t[i - Len(c)]
    BY ConcatProperties
  <2>2. Len(c) \in Nat /\ Len(t) \in Nat
    OBVIOUS
  <2>3. \A i \in 1 .. Len(c) : i \in 1 .. (Len(c) + Len(t)) /\ i =< Len(c)
    BY <2>2
  <2> QED
    BY <2>1, <2>2, <2>3
<1>2. s.ip \in Nat /\ ~s.bad /\ ~r.bad /\ r.ip \in Nat
  BY DEF DState
<1>3. s.ip \in 1 .. Len(c) /\ e[s.ip] = c[s.ip] /\ c[s.ip] \in Nat
  <2>1. s.ip \in 1 .. Len(c)
    BY <1>1, <1>2
  <2>2. c[s.ip] \in Byte
    BY <2>1
  <2> QED
    BY <1>1, <2>1, <2>2, Format DEF Byte
<1> HIDE DEF e
<1>4. CASE c[s.ip] < MaxLit
  <2> DEFINE n == c[s.ip] + 1
  <2>1. r = IF Len(s.out) + n > L THEN [s EXCEPT !.bad = TRUE]
            ELSE [s EXCEPT !.ip = @ + 1 + n, !.out = @ \o SubSeq(c, s.ip + 1, s.ip + n)]
    BY <1>2, <1>1, <1>4 DEF DecompressStep
  <2>2. ~(Len(s.out) + n > L)
    BY <1>2, <2>1 DEF DState
  <2>3. r.ip = s.ip + 1 + n
    BY <2>1, <2>2 DEF DState
  <2>4. SubSeq(e, s.ip + 1, s.ip + n) = SubSeq(c, s.ip + 1, s.ip + n)
    <3>1. n \in Nat /\ 1 =< n
      BY <1>3
    <3> HIDE DEF n
    <3>2. s.ip + 1 + n =< Len(c) + 1
      BY <2>3
    <3>3. s.ip + 1 \in 1 .. Len(c) /\ s.ip + n \in 1 .. Len(c)
      BY <1>1, <1>2, <3>1, <3>2
    <3> QED
      BY <3>3, SubSeqOfConcat1 DEF e
  <2>5. DecompressStep(e, L, s) = IF Len(s.out) + n > L THEN [s EXCEPT !.bad = TRUE]
            ELSE [s EXCEPT !.ip = @ + 1 + n, !.out = @ \o SubSeq(e, s.ip + 1, s.ip + n)]
    BY <1>1, <1>2, <1>3, <1>4 DEF DecompressStep
  <2> HIDE DEF n
  <2> QED
    BY <2>1, <2>2, <2>4, <2>5 DEF e
<1>5. CASE ~(c[s.ip] < MaxLit)
  <2> DEFINE short == c[s.ip] \div MaxLit
             long == short = LongRef
             last == IF long THEN s.ip + 2 ELSE s.ip + 1
             lengthC == 2 + short + (IF long THEN c[s.ip + 1] ELSE 0)
             backC == (c[s.ip] % MaxLit) * Base + c[last]
             lengthE == 2 + short + (IF long THEN e[s.ip + 1] ELSE 0)
             backE == (c[s.ip] % MaxLit) * Base + e[last]
  <2>1. r = IF Len(s.out) + lengthC > L \/ backC + 1 > Len(s.out) THEN [s EXCEPT !.bad = TRUE]
            ELSE [s EXCEPT !.ip = last + 1, !.out = CopyBack(@, backC, lengthC)]
    BY <1>2, <1>1, <1>5 DEF DecompressStep
  <2>2. DecompressStep(e, L, s) =
            IF Len(s.out) + lengthE > L \/ backE + 1 > Len(s.out) THEN [s EXCEPT !.bad = TRUE]
            ELSE [s EXCEPT !.ip = last + 1, !.out = CopyBack(@, backE, lengthE)]
    BY <1>1, <1>2, <1>3, <1>5 DEF DecompressStep
  <2>3. last \in Nat /\ s.ip < last /\ (long => s.ip + 1 < last)
    BY <1>2
  <2> HIDE DEF last, lengthC, lengthE, backC, backE
  <2>4. ~(Len(s.out) + lengthC > L \/ backC + 1 > Len(s.out))
    BY <1>2, <2>1 DEF DState
  <2>5. r.ip = last + 1
    BY <2>1, <2>4 DEF DState
  <2>6. last \in 1 .. Len(c) /\ e[last] = c[last] /\ (long => e[s.ip + 1] = c[s.ip + 1])
    <3>1. last \in 1 .. Len(c) /\ (long => s.ip + 1 \in 1 .. Len(c))
      BY <1>1, <1>2, <2>3, <2>5
    <3> QED
      BY <1>1, <3>1
  <2>7. backE = backC /\ lengthE = lengthC
    BY <2>6 DEF backE, backC, lengthE, lengthC
  <2> QED
    BY <2>1, <2>2, <2>7 DEF e
<1> QED
  BY <1>4, <1>5

(* Nothing decodes to nothing. *)
LEMMA DecodesNone ==
  ASSUME NEW L \in Nat
  PROVE  Decodes(<<>>, L, <<>>)
<1> DEFINE p == [i \in 0 .. 0 |-> DStart]
<1>1. p \in [0 .. 0 -> DState] /\ p[0] = DStart /\ DStart.ip = 1 /\ DStart = [ip |-> 1, out |-> <<>>, bad |-> FALSE]
  BY DEF DStart, DState
<1>2. \A i \in 0 .. 0 : i = 0 /\ p[i] = DStart
  OBVIOUS
<1>3. Len(<<>>) = 0 /\ (0 .. (0 - 1)) = {}
  OBVIOUS
<1>4. IsRun(<<>>, L, <<>>, 0, p)
  <2> HIDE DEF p
  <2>1. \A i \in 0 .. 0 : i + 1 =< p[i].ip /\ p[i].ip =< Len(<<>>) + 1
    BY <1>1, <1>2, <1>3
  <2>2. p[0] = [ip |-> Len(<<>>) + 1, out |-> <<>>, bad |-> FALSE]
    BY <1>1, <1>3
  <2> QED
    BY <1>1, <1>3, <2>1, <2>2 DEF IsRun
<1> QED
  BY <1>1, <1>4 DEF Decodes

(* After c and x, t is read and what is written becomes y. *)
IsToken(c, t, L, x, y) ==
    DecompressStep(c \o t, L, [ip |-> Len(c) + 1, out |-> x, bad |-> FALSE])
      = [ip |-> Len(c \o t) + 1, out |-> y, bad |-> FALSE]

(* One more token is decoded. *)
LEMMA DecodesMore ==
  ASSUME NEW c \in Seq(Byte), NEW L \in Nat, NEW x \in Seq(Byte), Decodes(c, L, x),
         NEW t \in Seq(Byte), Len(t) >= 1, NEW y \in Seq(Byte),
         IsToken(c, t, L, x, y)
  PROVE  Decodes(c \o t, L, y)
<1>1. PICK m \in Nat : \E p \in [0 .. m -> DState] : IsRun(c, L, x, m, p)
  BY DEF Decodes
<1>2. PICK p \in [0 .. m -> DState] : IsRun(c, L, x, m, p)
  BY <1>1
<1> DEFINE last == [ip |-> Len(c \o t) + 1, out |-> y, bad |-> FALSE]
           q == [i \in 0 .. (m + 1) |-> IF i =< m THEN p[i] ELSE last]
<1>3. Len(c \o t) = Len(c) + Len(t) /\ Len(c) \in Nat /\ Len(t) \in Nat
  BY ConcatProperties
<1>4. last \in DState /\ last.ip = Len(c) + Len(t) + 1
  BY <1>3 DEF DState
<1>5. q \in [0 .. (m + 1) -> DState] /\ q[m + 1] = last /\ \A i \in 0 .. m : q[i] = p[i]
  <2> HIDE DEF last
  <2> QED
    BY <1>2, <1>4
<1> HIDE DEF q
<1>6. /\ p[0] = DStart /\ p[m] = [ip |-> Len(c) + 1, out |-> x, bad |-> FALSE]
      /\ \A i \in 0 .. m : i + 1 =< p[i].ip /\ p[i].ip =< Len(c) + 1
      /\ \A i \in 0 .. (m - 1) : p[i].ip =< Len(c) /\ p[i + 1] = DecompressStep(c, L, p[i])
  BY <1>2 DEF IsRun
<1>7. \A i \in 0 .. m : p[i] \in DState /\ p[i].ip \in Nat
  BY <1>2 DEF DState
<1>8. ASSUME NEW i \in 0 .. (m + 1) PROVE i + 1 =< q[i].ip /\ q[i].ip =< Len(c \o t) + 1
  <2>1. CASE i \in 0 .. m
    <3>1. i + 1 =< p[i].ip /\ p[i].ip =< Len(c) + 1 /\ p[i].ip \in Nat
      BY <1>6, <1>7, <2>1
    <3> QED
      BY <1>3, <1>5, <2>1, <3>1
  <2>2. CASE i = m + 1
    <3>1. m + 1 =< Len(c) + 1
      <4>1. m \in 0 .. m /\ p[m].ip = Len(c) + 1
        BY <1>6
      <4> QED
        BY <1>6, <4>1
    <3> QED
      BY <1>3, <1>4, <1>5, <2>2, <3>1
  <2> QED
    BY <2>1, <2>2
<1>9. ASSUME NEW i \in 0 .. m PROVE q[i].ip =< Len(c \o t) /\ q[i + 1] = DecompressStep(c \o t, L, q[i])
  <2>1. CASE i \in 0 .. (m - 1)
    <3>1. i + 1 \in 0 .. m /\ i \in 0 .. m
      BY <2>1
    <3>2. /\ p[i].ip =< Len(c) /\ p[i + 1] = DecompressStep(c, L, p[i]) /\ p[i] \in DState
          /\ p[i + 1] \in DState /\ 1 =< p[i].ip /\ p[i + 1].ip =< Len(c) + 1 /\ p[i].ip \in Nat
      <4>1. i + 1 =< p[i].ip /\ p[i].ip \in Nat
        BY <1>6, <1>7, <3>1
      <4> QED
        BY <1>6, <1>7, <2>1, <3>1, <4>1
    <3>3. DecompressStep(c \o t, L, p[i]) = p[i + 1]
      BY <3>2, StepSame
    <3> QED
      BY <1>3, <1>5, <3>1, <3>2, <3>3
  <2>2. CASE i = m
    <3>1. q[i] = [ip |-> Len(c) + 1, out |-> x, bad |-> FALSE] /\ q[i + 1] = last
      BY <1>5, <1>6, <2>2
    <3> QED
      BY <1>3, <3>1 DEF IsToken
  <2> QED
    BY <2>1, <2>2
<1>10. q[0] = DStart
  BY <1>5, <1>6
<1>11. \A i \in 0 .. ((m + 1) - 1) : i \in 0 .. m
  OBVIOUS
<1>12. IsRun(c \o t, L, y, m + 1, q)
  BY <1>5, <1>8, <1>9, <1>10, <1>11 DEF IsRun
<1> QED
  BY <1>5, <1>12 DEF Decodes

-----------------------------------------------------------------------------
(* Iteration: a step that stays in a set defines a sequence of states. *)
Iteration(X, a, step, f) ==
    /\ f \in [Nat -> X]
    /\ f[0] = a
    /\ \A n \in Nat : f[n + 1] = step[f[n]]

(* Such a sequence exists. *)
LEMMA Iterates ==
  ASSUME NEW X, NEW a \in X, NEW step \in [X -> X]
  PROVE  \E f : Iteration(X, a, step, f)
<1> DEFINE Fits(n, g) == /\ g \in [0 .. n -> X] /\ g[0] = a
                         /\ \A i \in 0 .. (n - 1) : g[i + 1] = step[g[i]]
           T == {n \in Nat : \E g \in [0 .. n -> X] : Fits(n, g)}
<1>1. 0 \in T
  <2> DEFINE g == [i \in 0 .. 0 |-> a]
  <2>1. g \in [0 .. 0 -> X] /\ g[0] = a /\ (0 .. (0 - 1)) = {}
    OBVIOUS
  <2> HIDE DEF g
  <2> QED
    BY <2>1
<1>2. ASSUME NEW n \in Nat, n \in T PROVE n + 1 \in T
  <2>1. PICK g \in [0 .. n -> X] : Fits(n, g)
    BY <1>2
  <2> DEFINE h == [i \in 0 .. (n + 1) |-> IF i =< n THEN g[i] ELSE step[g[n]]]
  <2>2. g[n] \in X /\ step[g[n]] \in X
    BY <2>1
  <2>3. h \in [0 .. (n + 1) -> X] /\ h[n + 1] = step[g[n]] /\ \A i \in 0 .. n : h[i] = g[i]
    BY <2>1, <2>2
  <2> HIDE DEF h
  <2>4. h[0] = a
    BY <2>1, <2>3
  <2>5. ASSUME NEW i \in 0 .. ((n + 1) - 1) PROVE h[i + 1] = step[h[i]]
    <3>1. CASE i = n
      BY <2>3, <3>1
    <3>2. CASE i # n
      <4>1. i \in 0 .. (n - 1) /\ i + 1 \in 0 .. n /\ i \in 0 .. n
        BY <3>2
      <4> QED
        BY <2>1, <2>3, <4>1
    <3> QED
      BY <3>1, <3>2
  <2>6. Fits(n + 1, h)
    BY <2>3, <2>4, <2>5
  <2> HIDE DEF Fits
  <2> QED
    BY <2>3, <2>6
<1>3. Nat \subseteq T
  <2> HIDE DEF T
  <2> QED
    BY <1>1, <1>2, NatBySet
<1> DEFINE G(n) == CHOOSE g \in [0 .. n -> X] : Fits(n, g)
<1>4. ASSUME NEW n \in Nat PROVE G(n) \in [0 .. n -> X] /\ Fits(n, G(n))
  <2>1. \E g \in [0 .. n -> X] : Fits(n, g)
    BY <1>3
  <2> HIDE DEF Fits
  <2> QED
    BY <2>1
<1> HIDE DEF G
(* Two of them agree where both are defined. *)
<1>5. ASSUME NEW n \in Nat PROVE \A i \in 0 .. n : G(n)[i] = G(n + 1)[i]
  <2> DEFINE U == {i \in Nat : i \in 0 .. n => G(n)[i] = G(n + 1)[i]}
  <2>0. Fits(n, G(n)) /\ Fits(n + 1, G(n + 1))
    <3>1. n + 1 \in Nat
      OBVIOUS
    <3> HIDE DEF Fits
    <3> QED
      BY <1>4, <3>1
  <2>1. 0 \in U
    BY <2>0
  <2>2. ASSUME NEW i \in Nat, i \in U PROVE i + 1 \in U
    <3> SUFFICES ASSUME i + 1 \in 0 .. n PROVE G(n)[i + 1] = G(n + 1)[i + 1]
      OBVIOUS
    <3>1. i \in 0 .. n /\ i \in 0 .. (n - 1) /\ i \in 0 .. ((n + 1) - 1)
      OBVIOUS
    <3>2. G(n)[i] = G(n + 1)[i]
      BY <2>2, <3>1
    <3> QED
      BY <2>0, <3>1, <3>2
  <2>3. Nat \subseteq U
    <3> HIDE DEF U
    <3> QED
      BY <2>1, <2>2, NatBySet
  <2> QED
    BY <2>3
<1> DEFINE f == [n \in Nat |-> G(n)[n]]
<1>6. f \in [Nat -> X]
  <2>1. ASSUME NEW n \in Nat PROVE G(n)[n] \in X
    BY <1>4
  <2> QED
    BY <2>1
<1>7. f[0] = a
  BY <1>4
<1>8. ASSUME NEW n \in Nat PROVE f[n + 1] = step[f[n]]
  <2>1. Fits(n + 1, G(n + 1))
    <3>1. n + 1 \in Nat
      OBVIOUS
    <3> HIDE DEF Fits
    <3> QED
      BY <1>4, <3>1
  <2>2. n \in 0 .. ((n + 1) - 1) /\ n \in 0 .. n
    OBVIOUS
  <2>3. G(n + 1)[n + 1] = step[G(n + 1)[n]]
    BY <2>1, <2>2
  <2>4. G(n + 1)[n] = G(n)[n]
    BY <1>5, <2>2
  <2> QED
    BY <2>3, <2>4
<1> HIDE DEF f
<1>9. Iteration(X, a, step, f)
  BY <1>6, <1>7, <1>8 DEF Iteration
<1> QED
  BY <1>9

-----------------------------------------------------------------------------
(* f is the sequence of states that lzf_decompress computes. *)
Decoder(c, L, f) == f = [n \in Nat |-> IF n = 0 THEN DStart ELSE DecompressStep(c, L, f[n - 1])]

(* lzf_decompress takes its result from that sequence. *)
LEMMA DecoderIs ==
  ASSUME NEW c, NEW L, \E f : Decoder(c, L, f)
  PROVE  \E f : Decoder(c, L, f)
                /\ lzf_decompress(c, L) = IF f[Len(c) + 1].bad THEN <<>> ELSE f[Len(c) + 1].out
  BY DEF Decoder, DStart, lzf_decompress

(* A run tells what lzf_decompress returns. *)
LEMMA DecodesIs ==
  ASSUME NEW c \in Seq(Byte), c # <<>>, NEW L \in Nat, NEW x \in Seq(Byte), Decodes(c, L, x)
  PROVE  lzf_decompress(c, L) = x
<1>1. PICK m \in Nat : \E p \in [0 .. m -> DState] : IsRun(c, L, x, m, p)
  BY DEF Decodes
<1>2. PICK p \in [0 .. m -> DState] : IsRun(c, L, x, m, p)
  BY <1>1
<1>3. /\ p[0] = DStart /\ p[m] = [ip |-> Len(c) + 1, out |-> x, bad |-> FALSE]
      /\ \A i \in 0 .. m : i + 1 =< p[i].ip /\ p[i].ip =< Len(c) + 1
      /\ \A i \in 0 .. (m - 1) : p[i].ip =< Len(c) /\ p[i + 1] = DecompressStep(c, L, p[i])
  BY <1>2 DEF IsRun
<1>4. Len(c) \in Nat /\ Len(c) >= 1 /\ m =< Len(c)
  <2>1. Len(c) \in Nat /\ Len(c) >= 1
    BY EmptySeq, LenProperties
  <2>2. m \in 0 .. m /\ p[m].ip = Len(c) + 1
    BY <1>3
  <2> QED
    BY <1>3, <2>1, <2>2
<1>5. DecompressStep(c, L, p[m]) = p[m]
  <2>1. p[m].ip > Len(c) /\ p[m].ip > 1
    BY <1>3, <1>4
  <2> QED
    BY <2>1 DEF DecompressStep
<1> DEFINE X == {p[i] : i \in 0 .. m}
           step == [s \in X |-> DecompressStep(c, L, s)]
<1>6. ASSUME NEW s \in X PROVE DecompressStep(c, L, s) \in X
  <2>1. PICK i \in 0 .. m : s = p[i]
    OBVIOUS
  <2>2. CASE i = m
    BY <1>5, <2>1, <2>2
  <2>3. CASE i # m
    <3>1. i \in 0 .. (m - 1) /\ i + 1 \in 0 .. m
      BY <2>3
    <3> QED
      BY <1>3, <2>1, <3>1
  <2> QED
    BY <2>2, <2>3
<1>7. step \in [X -> X] /\ \A s \in X : step[s] = DecompressStep(c, L, s)
  BY <1>6
<1>8. DStart \in X
  BY <1>3
<1> HIDE DEF X, step
<1>9. PICK f \in [Nat -> X] : f[0] = DStart /\ \A n \in Nat : f[n + 1] = step[f[n]]
  <2>1. step \in [X -> X]
    BY <1>7
  <2>2. PICK f : Iteration(X, DStart, step, f)
    BY <1>8, <2>1, Iterates
  <2> QED
    BY <2>2 DEF Iteration
<1>10. Decoder(c, L, f)
  <2>1. ASSUME NEW n \in Nat PROVE f[n] = IF n = 0 THEN DStart ELSE DecompressStep(c, L, f[n - 1])
    <3>1. CASE n = 0
      BY <1>9, <3>1
    <3>2. CASE n # 0
      <4>1. PICK k \in Nat : k = n - 1 /\ n = k + 1
        BY <3>2
      <4>2. f[k] \in X /\ f[k + 1] = DecompressStep(c, L, f[k])
        BY <1>7, <1>9
      <4> QED
        BY <3>2, <4>1, <4>2
    <3> QED
      BY <3>1, <3>2
  <2>2. f = [n \in Nat |-> f[n]]
    BY <1>9
  <2> QED
    BY <2>1, <2>2 DEF Decoder
<1>11. PICK g : /\ Decoder(c, L, g)
                /\ lzf_decompress(c, L) = IF g[Len(c) + 1].bad THEN <<>> ELSE g[Len(c) + 1].out
  BY <1>10, DecoderIs
<1>12. \A n \in Nat : g[n] = IF n = 0 THEN DStart ELSE DecompressStep(c, L, g[n - 1])
  BY <1>11 DEF Decoder
<1> DEFINE T == {n \in Nat : g[n] = IF n =< m THEN p[n] ELSE p[m]}
<1>13. 0 \in T
  BY <1>3, <1>12
<1>14. ASSUME NEW n \in Nat, n \in T PROVE n + 1 \in T
  <2>1. g[n + 1] = DecompressStep(c, L, g[n])
    <3>1. PICK k \in Nat : k = n + 1 /\ k # 0 /\ k - 1 = n
      OBVIOUS
    <3>2. g[k] = DecompressStep(c, L, g[k - 1])
      BY <1>12, <3>1
    <3> QED
      BY <3>1, <3>2
  <2>2. CASE n + 1 =< m
    <3>1. n \in 0 .. (m - 1) /\ n =< m
      BY <2>2
    <3>2. g[n] = p[n]
      BY <1>14, <3>1
    <3> QED
      BY <1>3, <2>1, <2>2, <3>1, <3>2
  <2>3. CASE ~(n + 1 =< m)
    <3>1. g[n] = p[m]
      <4>1. n = m \/ ~(n =< m)
        BY <2>3
      <4> QED
        BY <1>14, <4>1
    <3> QED
      BY <1>5, <2>1, <2>3, <3>1
  <2> QED
    BY <2>2, <2>3
<1>15. Nat \subseteq T
  <2> HIDE DEF T
  <2> QED
    BY <1>13, <1>14, NatBySet
<1>16. g[Len(c) + 1] = p[m]
  <2>1. Len(c) + 1 \in Nat /\ ~(Len(c) + 1 =< m)
    BY <1>4
  <2> QED
    BY <1>15, <2>1
<1> QED
  BY <1>3, <1>11, <1>16

-----------------------------------------------------------------------------
(* The loop of lzf_compress.  What it has written decodes to what it has    *)
(* read, up to the run of literals, which is the end of it.                 *)

CState == [ip : Nat, out : Seq(Byte), run : Seq(Byte), full : BOOLEAN, htab : [0 .. (Slots - 1) -> Nat]]

Packing(d, s, k) ==
    /\ s \in CState
    /\ 1 =< s.ip /\ s.ip =< Len(d) + 1
    /\ Len(s.run) =< k /\ Len(s.run) < s.ip
    /\ s.run = SubSeq(d, s.ip - Len(s.run), s.ip - 1)
    /\ Decodes(s.out, Len(d), SubSeq(d, 1, s.ip - 1 - Len(s.run)))

(* The first e elements of d. *)
LEMMA FrontIs ==
  ASSUME NEW d \in Seq(Byte), NEW e \in Nat, e =< Len(d)
  PROVE  /\ SubSeq(d, 1, e) \in Seq(Byte) /\ Len(SubSeq(d, 1, e)) = e
         /\ \A i \in 1 .. e : SubSeq(d, 1, e)[i] = d[i]
<1>1. \A i \in 1 .. e : d[i] \in Byte
  OBVIOUS
<1> QED
  BY <1>1, SubSeqProperties

(* When the run is stopped, all that was read is written. *)
LEMMA RunDecodes ==
  ASSUME NEW d \in Seq(Byte), NEW s, Packing(d, s, MaxLit)
  PROVE  StopRun(s) \in Seq(Byte) /\ Decodes(StopRun(s), Len(d), SubSeq(d, 1, s.ip - 1))
<1>0. s.out \in Seq(Byte) /\ s.run \in Seq(Byte) /\ s.ip \in Nat /\ Len(s.run) \in Nat
  BY DEF Packing, CState
<1>1. PICK c \in Seq(Byte), run \in Seq(Byte), ip \in Nat, n \in Nat :
        c = s.out /\ run = s.run /\ ip = s.ip /\ n = Len(run)
  BY <1>0
<1>4. n = Len(run) /\ 1 =< ip /\ ip =< Len(d) + 1 /\ n =< MaxLit /\ n < ip /\ Len(d) \in Nat
  BY <1>1 DEF Packing
<1>5. run = SubSeq(d, ip - n, ip - 1)
  BY <1>1 DEF Packing
<1>6. Decodes(c, Len(d), SubSeq(d, 1, ip - 1 - n))
  BY <1>1 DEF Packing
<1>2. CASE run = <<>>
  <2>0. n = 0
    BY <1>4, <1>2
  <2>1. ip - 1 - n = ip - 1
    BY <2>0
  <2>2. StopRun(s) = c
    BY <1>1, <1>2 DEF StopRun
  <2> QED
    BY <1>1, <1>6, <2>1, <2>2
<1>3. CASE run # <<>>
  <2>0. n >= 1 /\ Len(d) \in Nat /\ MaxLit \in Nat /\ MaxLit < Base /\ Base \in Nat
    BY <1>4, <1>3, EmptySeq, Format
  <2>1. PICK t \in Seq(Byte) : t = <<n - 1>> \o run /\ Len(t) = n + 1 /\ t[1] = n - 1
                               /\ \A i \in 1 .. n : t[i + 1] = run[i]
    <3>0. n - 1 \in Byte
      BY <1>4, <2>0 DEF Byte
    <3>1. <<n - 1>> \in Seq(Byte) /\ Len(<<n - 1>>) = 1
      BY <3>0
    <3>2. PICK u \in Seq(Byte) : u = <<n - 1>> /\ Len(u) = 1 /\ u[1] = n - 1
      BY <3>1
    <3>3. /\ u \o run \in Seq(Byte) /\ Len(u \o run) = Len(u) + Len(run)
          /\ \A i \in 1 .. (Len(u) + Len(run)) : (u \o run)[i] = IF i =< Len(u) THEN u[i] ELSE run[i - Len(u)]
      BY ConcatProperties
    <3>4. Len(u) + Len(run) = n + 1
      BY <1>4, <3>2
    <3>5. (u \o run)[1] = n - 1
      BY <3>2, <3>3, <3>4
    <3>6. ASSUME NEW i \in 1 .. n PROVE (u \o run)[i + 1] = run[i]
      <4>1. i + 1 \in 1 .. (n + 1) /\ ~(i + 1 =< 1) /\ (i + 1) - 1 = i
        OBVIOUS
      <4> QED
        BY <3>2, <3>3, <3>4, <4>1
    <3> QED
      BY <3>2, <3>3, <3>4, <3>5, <3>6
  <2>2. StopRun(s) = c \o t
    <3>1. StopRun(s) = (c \o <<n - 1>>) \o run
      BY <1>1, <1>3 DEF StopRun
    <3>2. n - 1 \in Byte
      BY <1>4, <2>0 DEF Byte
    <3>3. <<n - 1>> \in Seq(Byte)
      BY <3>2
    <3>4. PICK u \in Seq(Byte) : u = <<n - 1>>
      BY <3>3, Zenon
    <3>5. (c \o u) \o run = c \o (u \o run)
      BY ConcatAssociative
    <3>6. t = <<n - 1>> \o run
      BY <2>1, Zenon
    <3> QED
      BY <3>1, <3>4, <3>5, <3>6, Zenon
  <2> DEFINE x == SubSeq(d, 1, ip - 1 - n)
             y == SubSeq(d, 1, ip - 1)
             e == c \o t
             L == Len(d)
             at == [ip |-> Len(c) + 1, out |-> x, bad |-> FALSE]
  <2>3. x \in Seq(Byte) /\ Len(x) = ip - 1 - n /\ y \in Seq(Byte)
    <3>1. ip - 1 - n \in Nat /\ ip - 1 - n =< Len(d) /\ ip - 1 \in Nat /\ ip - 1 =< Len(d)
      BY <1>4, <2>0
    <3> QED
      BY <3>1, FrontIs
  <2>4. x \o run = y
    <3>1. 1 \in 1 .. (Len(d) + 1) /\ ip - 1 - n \in (1 - 1) .. Len(d) /\ ip - 1 \in (ip - 1 - n) .. Len(d)
          /\ (ip - 1 - n) + 1 = ip - n
      BY <1>4, <2>0
    <3>2. SubSeq(d, 1, ip - 1 - n) \o SubSeq(d, (ip - 1 - n) + 1, ip - 1) = SubSeq(d, 1, ip - 1)
      BY <3>1, ConcatAdjacentSubSeq
    <3> QED
      BY <1>5, <3>1, <3>2
  <2>5. /\ e \in Seq(Byte) /\ Len(e) = Len(c) + n + 1 /\ Len(c) \in Nat
        /\ \A i \in 1 .. (n + 1) : e[Len(c) + i] = t[i]
    <3>1. /\ e \in Seq(Byte) /\ Len(e) = Len(c) + Len(t)
          /\ \A i \in 1 .. (Len(c) + Len(t)) : e[i] = IF i =< Len(c) THEN c[i] ELSE t[i - Len(c)]
      BY ConcatProperties
    <3>2. Len(c) \in Nat
      OBVIOUS
    <3>3. ASSUME NEW i \in 1 .. (n + 1) PROVE e[Len(c) + i] = t[i]
      <4>1. Len(c) + i \in 1 .. (Len(c) + Len(t)) /\ ~(Len(c) + i =< Len(c)) /\ (Len(c) + i) - Len(c) = i
        BY <2>1, <3>2
      <4> QED
        BY <3>1, <4>1
    <3>4. Len(e) = Len(c) + n + 1
      <4>1. Len(t) = n + 1
        BY <2>1
      <4>2. Len(e) = Len(c) + Len(t)
        BY <3>1
      <4> HIDE DEF e
      <4> QED
        BY <3>2, <4>1, <4>2
    <3> QED
      BY <3>1, <3>2, <3>3, <3>4
  <2> HIDE DEF e, x, y
  <2>6. e[Len(c) + 1] = n - 1
    <3>1. 1 \in 1 .. (n + 1)
      OBVIOUS
    <3> QED
      BY <2>1, <2>5, <3>1
  <2>7. SubSeq(e, Len(c) + 2, Len(c) + 1 + n) = run
    <3> DEFINE z == SubSeq(e, Len(c) + 2, Len(c) + 1 + n)
    <3>1. ASSUME NEW i \in (Len(c) + 2) .. (Len(c) + 1 + n) PROVE e[i] \in Byte
      BY <2>5
    <3>2. /\ z \in Seq(Byte) /\ Len(z) = n
          /\ \A i \in 1 .. n : z[i] = e[Len(c) + 2 + i - 1]
      <4>0. Len(c) \in Nat /\ n >= 1
        BY <2>0, <2>5
      <4>1. PICK a \in Int, b \in Int : a = Len(c) + 2 /\ b = Len(c) + 1 + n /\ a =< b /\ b - a + 1 = n
        <5>1. PICK k \in Nat : k = Len(c)
          BY <4>0
        <5>2. k + 2 \in Int /\ k + 1 + n \in Int /\ k + 2 =< k + 1 + n /\ (k + 1 + n) - (k + 2) + 1 = n
          BY <4>0
        <5> QED
          BY <5>1, <5>2
      <4>2. /\ SubSeq(e, a, b) \in Seq(Byte)
            /\ Len(SubSeq(e, a, b)) = IF a <= b THEN b - a + 1 ELSE 0
            /\ \A i \in 1 .. (b - a + 1) : SubSeq(e, a, b)[i] = e[a + i - 1]
        BY <3>1, <4>1, SubSeqProperties
      <4> QED
        BY <4>1, <4>2
    <3> HIDE DEF z
    <3>3. ASSUME NEW i \in 1 .. n PROVE z[i] = run[i]
      <4>1. i + 1 \in 1 .. (n + 1) /\ Len(c) + 2 + i - 1 = Len(c) + (i + 1)
        BY <2>5
      <4>2. e[Len(c) + (i + 1)] = t[i + 1] /\ t[i + 1] = run[i]
        BY <2>1, <2>5, <4>1
      <4> QED
        BY <3>2, <4>1, <4>2
    <3>4. z = run
      BY <1>4, <3>2, <3>3, SeqEqual
    <3> QED
      BY <3>4 DEF z
  <2>8. DecompressStep(e, L, at) = [ip |-> Len(e) + 1, out |-> y, bad |-> FALSE]
    <3>1. at.ip = Len(c) + 1 /\ at.out = x /\ at.bad = FALSE
      OBVIOUS
    <3>2. at.ip =< Len(e) /\ e[at.ip] = n - 1 /\ n - 1 < MaxLit /\ (n - 1) + 1 = n
      BY <1>4, <2>0, <2>5, <2>6, <3>1
    <3>3. ~(Len(at.out) + n > L)
      BY <1>4, <2>0, <2>3, <3>1
    <3>4. at.ip + 1 = Len(c) + 2 /\ at.ip + n = Len(c) + 1 + n /\ at.ip + 1 + n = Len(e) + 1
      BY <2>5, <3>1
    <3> HIDE DEF at, L
    <3>5. ~(at.ip > Len(e))
      BY <2>5, <3>1, <3>2
    <3>6. DecompressStep(e, L, at) = [at EXCEPT !.ip = @ + 1 + n, !.out = @ \o SubSeq(e, at.ip + 1, at.ip + n)]
      BY <3>1, <3>2, <3>3, <3>5 DEF DecompressStep
    <3> QED
      BY <2>4, <2>7, <3>1, <3>4, <3>6 DEF at
  <2>9. Decodes(e, L, y)
    <3>1. Decodes(c, L, x) /\ L \in Nat /\ Len(t) >= 1
      BY <1>6, <2>0, <2>1 DEF x
    <3>2. IsToken(c, t, L, x, y)
      BY <2>8 DEF IsToken, e
    <3> HIDE DEF L
    <3> QED
      BY <2>3, <3>1, <3>2, DecodesMore DEF e
  <2> QED
    BY <1>1, <2>2, <2>5, <2>9 DEF e, y
<1> QED
  BY <1>2, <1>3

(* The elements of d from a to b. *)
LEMMA SliceIs ==
  ASSUME NEW d \in Seq(Byte), NEW a \in Nat, NEW b \in Nat, 1 =< a, a =< b + 1, b =< Len(d)
  PROVE  /\ SubSeq(d, a, b) \in Seq(Byte) /\ Len(SubSeq(d, a, b)) = b - a + 1
         /\ \A i \in 1 .. (b - a + 1) : SubSeq(d, a, b)[i] = d[a + i - 1]
<1>1. \A i \in a .. b : d[i] \in Byte
  OBVIOUS
<1>2. /\ SubSeq(d, a, b) \in Seq(Byte)
      /\ Len(SubSeq(d, a, b)) = IF a <= b THEN b - a + 1 ELSE 0
      /\ \A i \in 1 .. (b - a + 1) : SubSeq(d, a, b)[i] = d[a + i - 1]
  BY <1>1, SubSeqProperties
<1>3. ~(a =< b) => b - a + 1 = 0
  OBVIOUS
<1> QED
  BY <1>2, <1>3

(* One more element joins a part of d. *)
LEMMA SliceMore ==
  ASSUME NEW d \in Seq(Byte), NEW a \in Nat, NEW b \in Nat, 1 =< a, a =< b + 1, b + 1 =< Len(d)
  PROVE  Append(SubSeq(d, a, b), d[b + 1]) = SubSeq(d, a, b + 1)
<1>1. PICK x \in Seq(Byte) : x = SubSeq(d, a, b) /\ Len(x) = b - a + 1 /\ \A i \in 1 .. (b - a + 1) : x[i] = d[a + i - 1]
  <2>1. b =< Len(d)
    OBVIOUS
  <2> QED
    BY <2>1, SliceIs
<1>2. PICK y \in Seq(Byte) : /\ y = SubSeq(d, a, b + 1) /\ Len(y) = (b + 1) - a + 1
                             /\ \A i \in 1 .. ((b + 1) - a + 1) : y[i] = d[a + i - 1]
  <2>1. b + 1 \in Nat /\ a =< (b + 1) + 1
    OBVIOUS
  <2> QED
    BY <2>1, SliceIs
<1>3. PICK v \in Byte : v = d[b + 1]
  <2>1. b + 1 \in 1 .. Len(d)
    OBVIOUS
  <2> QED
    BY <2>1
<1>4. /\ Append(x, v) \in Seq(Byte) /\ Len(Append(x, v)) = Len(x) + 1
      /\ \A i \in 1 .. Len(x) : Append(x, v)[i] = x[i]
      /\ Append(x, v)[Len(x) + 1] = v
  BY AppendProperties
<1>5. PICK n \in Nat : n = b - a + 1
  OBVIOUS
<1>6. Len(x) = n /\ Len(y) = n + 1 /\ a + (n + 1) - 1 = b + 1
  BY <1>1, <1>2, <1>5
<1>7. ASSUME NEW i \in 1 .. (n + 1) PROVE Append(x, v)[i] = y[i]
  <2>0. i =< n \/ i = n + 1
    OBVIOUS
  <2>1. y[i] = d[a + i - 1]
    <3>1. i \in 1 .. ((b + 1) - a + 1)
      BY <1>5
    <3> QED
      BY <1>2, <3>1
  <2>2. CASE i =< n
    <3>1. i \in 1 .. n /\ i \in 1 .. (b - a + 1)
      BY <1>5, <2>2
    <3> QED
      BY <1>1, <1>4, <1>6, <2>1, <3>1
  <2>3. CASE i = n + 1
    <3>1. y[i] = d[b + 1]
      BY <1>6, <2>1, <2>3
    <3> QED
      BY <1>3, <1>4, <1>6, <2>3, <3>1
  <2> QED
    BY <2>0, <2>2, <2>3
<1>8. Append(x, v) = y
  <2>1. Append(x, v) \in Seq(Byte) /\ Len(Append(x, v)) = n + 1
    BY <1>4, <1>6
  <2>2. PICK z \in Seq(Byte) : z = Append(x, v) /\ Len(z) = n + 1
    BY <2>1
  <2>3. \A i \in 1 .. Len(z) : z[i] = y[i]
    BY <1>7, <2>2
  <2> QED
    BY <1>6, <2>2, <2>3, SeqEqual
<1> QED
  BY <1>1, <1>2, <1>3, <1>8

(* A literal joins the run. *)
LEMMA LiteralJoins ==
  ASSUME NEW d \in Seq(Byte), NEW s, Packing(d, s, MaxLit - 1), s.ip =< Len(d)
  PROVE  Packing(d, [s EXCEPT !.run = Append(@, d[s.ip]), !.ip = @ + 1], MaxLit)
<1> DEFINE t == [s EXCEPT !.run = Append(@, d[s.ip]), !.ip = @ + 1]
<1>0. /\ s \in CState /\ s.ip \in Nat /\ 1 =< s.ip /\ Len(s.run) \in Nat /\ Len(s.run) =< MaxLit - 1 /\ Len(s.run) < s.ip
      /\ s.run \in Seq(Byte) /\ Len(d) \in Nat /\ MaxLit \in Nat /\ s.run = SubSeq(d, s.ip - Len(s.run), s.ip - 1)
  BY Format DEF Packing, CState
<1>1. PICK ip \in Nat, n \in Nat : ip = s.ip /\ n = Len(s.run)
  BY <1>0
<1>2. d[ip] \in Byte
  <2>1. ip \in 1 .. Len(d)
    BY <1>0, <1>1
  <2> QED
    BY <2>1
<1>3. Append(s.run, d[ip]) \in Seq(Byte) /\ Len(Append(s.run, d[ip])) = n + 1
  <2>1. PICK run \in Seq(Byte) : run = s.run
    BY <1>0
  <2>2. Append(run, d[ip]) \in Seq(Byte) /\ Len(Append(run, d[ip])) = Len(run) + 1
    BY <1>2, AppendProperties
  <2> QED
    BY <1>1, <2>1, <2>2
<1>4. t = [s EXCEPT !.run = Append(s.run, d[ip]), !.ip = ip + 1]
  BY <1>1
<1>5. t.run = Append(s.run, d[ip]) /\ t.ip = ip + 1 /\ t.out = s.out /\ t \in CState
  <2>1. s \in CState /\ ip + 1 \in Nat
    BY <1>0
  <2>2. PICK r \in Seq(Byte), p \in Nat : r = Append(s.run, d[ip]) /\ p = ip + 1
    BY <1>3, <2>1
  <2>3. t = [s EXCEPT !.run = r, !.ip = p]
    BY <1>4, <2>2
  <2> HIDE DEF t
  <2>4. t \in CState /\ t.run = r /\ t.ip = p /\ t.out = s.out
    BY <2>1, <2>3 DEF CState
  <2> QED
    BY <2>2, <2>4
<1>14. 1 =< ip /\ n < ip /\ ip =< Len(d) /\ n =< MaxLit - 1 /\ Len(d) \in Nat /\ MaxLit \in Nat
  BY <1>0, <1>1
<1> HIDE DEF t
<1>6. Append(s.run, d[ip]) = SubSeq(d, ip - n, ip)
  <2>1. PICK a \in Nat, b \in Nat : a = ip - n /\ b = ip - 1 /\ b + 1 = ip
    BY <1>0, <1>1
  <2>2. 1 =< a /\ a =< b + 1 /\ b + 1 =< Len(d)
    BY <1>14, <2>1
  <2>3. Append(SubSeq(d, a, b), d[b + 1]) = SubSeq(d, a, b + 1)
    BY <2>2, SliceMore
  <2> QED
    BY <1>0, <1>1, <2>1, <2>3
<1>7. /\ (ip + 1) - (n + 1) = ip - n /\ (ip + 1) - 1 = ip /\ (ip + 1) - 1 - (n + 1) = ip - 1 - n
      /\ n + 1 =< MaxLit /\ n + 1 < ip + 1 /\ 1 =< ip + 1 /\ ip + 1 =< Len(d) + 1
  BY <1>14
<1>8. Decodes(t.out, Len(d), SubSeq(d, 1, t.ip - 1 - Len(t.run)))
  <2>1. Decodes(s.out, Len(d), SubSeq(d, 1, ip - 1 - n))
    BY <1>1 DEF Packing
  <2> QED
    BY <1>3, <1>5, <1>7, <2>1
<1>9. t.run = SubSeq(d, t.ip - Len(t.run), t.ip - 1)
  BY <1>3, <1>5, <1>6, <1>7
<1>10. 1 =< t.ip /\ t.ip =< Len(d) + 1 /\ Len(t.run) =< MaxLit /\ Len(t.run) < t.ip
  BY <1>3, <1>5, <1>7
<1>11. Packing(d, t, MaxLit)
  BY <1>5, <1>8, <1>9, <1>10 DEF Packing
<1> QED
  BY <1>11 DEF t

(* A literal keeps what was written in step with what was read. *)
LEMMA LiteralKeeps ==
  ASSUME NEW d \in Seq(Byte), NEW s, Packing(d, s, MaxLit - 1), s.ip =< Len(d)
  PROVE  /\ Packing(d, AddLiteral(s, d[s.ip]), MaxLit - 1)
         /\ AddLiteral(s, d[s.ip]).ip = s.ip + 1
<1>0. s \in CState /\ s.ip \in Nat /\ Len(d) \in Nat /\ MaxLit \in Nat /\ MaxLit >= 1
  BY Format DEF Packing, CState
<1>1. PICK t : t = [s EXCEPT !.run = Append(@, d[s.ip]), !.ip = @ + 1]
  OBVIOUS
<1>2. Packing(d, t, MaxLit)
  BY <1>1, LiteralJoins
<1>3. /\ t \in CState /\ t.ip \in Nat /\ 1 =< t.ip /\ t.ip =< Len(d) + 1 /\ Len(t.run) =< MaxLit /\ Len(t.run) \in Nat
  BY <1>2 DEF Packing, CState
<1>4. t.ip = s.ip + 1
  BY <1>0, <1>1 DEF CState
<1>5. AddLiteral(s, d[s.ip]) = IF Len(t.run) = MaxLit THEN [t EXCEPT !.out = StopRun(t), !.run = <<>>] ELSE t
  BY <1>1 DEF AddLiteral
<1>6. CASE Len(t.run) # MaxLit
  <2>1. Packing(d, t, MaxLit - 1)
    <3>1. Len(t.run) =< MaxLit - 1
      BY <1>0, <1>3, <1>6
    <3> QED
      BY <1>2, <3>1 DEF Packing
  <2> QED
    BY <1>4, <1>5, <1>6, <2>1
<1>7. CASE Len(t.run) = MaxLit
  <2>1. StopRun(t) \in Seq(Byte) /\ Decodes(StopRun(t), Len(d), SubSeq(d, 1, t.ip - 1))
    BY <1>2, RunDecodes
  <2>2. PICK u : u = [t EXCEPT !.out = StopRun(t), !.run = <<>>]
    OBVIOUS
  <2>3. u \in CState /\ u.ip = t.ip /\ u.run = <<>> /\ u.out = StopRun(t)
    <3>1. t \in CState /\ StopRun(t) \in Seq(Byte)
      BY <1>3, <2>1
    <3>2. PICK o \in Seq(Byte), e \in Seq(Byte) : o = StopRun(t) /\ e = <<>>
      <4>1. <<>> \in Seq(Byte)
        OBVIOUS
      <4> QED
        BY <3>1, <4>1
    <3>3. u = [t EXCEPT !.out = o, !.run = e]
      BY <2>2, <3>2
    <3>4. u \in CState /\ u.ip = t.ip /\ u.run = e /\ u.out = o
      BY <3>1, <3>3 DEF CState
    <3> QED
      BY <3>2, <3>4
  <2>4. Len(<<>>) = 0 /\ t.ip - 1 - 0 = t.ip - 1 /\ t.ip - 0 = t.ip /\ 0 =< MaxLit - 1 /\ 0 < t.ip
    BY <1>0, <1>3
  <2>5. SubSeq(d, t.ip, t.ip - 1) = <<>>
    <3>1. PICK a \in Nat, b \in Nat : a = t.ip /\ b = t.ip - 1 /\ b - a + 1 = 0 /\ 1 =< a /\ a =< b + 1 /\ b =< Len(d)
      BY <1>0, <1>3
    <3>2. SubSeq(d, a, b) \in Seq(Byte) /\ Len(SubSeq(d, a, b)) = 0
      BY <3>1, SliceIs
    <3> QED
      BY <3>1, <3>2, EmptySeq
  <2>6. Packing(d, u, MaxLit - 1)
    BY <1>3, <2>1, <2>3, <2>4, <2>5 DEF Packing
  <2> QED
    BY <1>4, <1>5, <1>7, <2>2, <2>3, <2>6
<1> QED
  BY <1>6, <1>7

(* A reference is decoded to the bytes it stands for. *)
LEMMA ReferenceDecodes ==
  ASSUME NEW d \in Seq(Byte), NEW ref \in Nat, NEW ip \in Nat, 1 =< ref, ref < ip,
         NEW n \in Nat, IsMatch(d, ref, ip, n), NEW c \in Seq(Byte),
         NEW r \in Seq(Byte), IsReference(r, ip - ref - 1, n)
  PROVE  IsToken(c, r, Len(d), SubSeq(d, 1, ip - 1), SubSeq(d, 1, ip + n - 1))
<1> DEFINE e == c \o r
           x == SubSeq(d, 1, ip - 1)
           at == [ip |-> Len(c) + 1, out |-> x, bad |-> FALSE]
<1>1. Len(c) \in Nat /\ Len(d) \in Nat /\ MaxLit \in Nat /\ LongRef \in Nat
  BY Format
<1>2. n \in Nat /\ 3 =< n /\ ip + n =< Len(d) + 1
  BY DEF IsMatch
<1>3. PICK off \in Nat : off = ip - ref - 1
  OBVIOUS
<1>4. /\ Len(r) \in {2, 3} /\ r[1] \in Nat /\ r[1] >= MaxLit
      /\ r[1] \div MaxLit \in Nat /\ (r[1] \div MaxLit = LongRef <=> Len(r) = 3)
      /\ n = 2 + (r[1] \div MaxLit) + (IF Len(r) = 3 THEN r[2] ELSE 0)
      /\ (r[1] % MaxLit) * Base + r[Len(r)] = off
  BY <1>3 DEF IsReference
<1>5. /\ e \in Seq(Byte) /\ Len(e) = Len(c) + Len(r)
      /\ \A i \in 1 .. (Len(c) + Len(r)) : e[i] = IF i =< Len(c) THEN c[i] ELSE r[i - Len(c)]
  BY ConcatProperties
<1> HIDE DEF e
<1>6. PICK k \in {2, 3} : k = Len(r)
  BY <1>4
<1>7. ASSUME NEW i \in 1 .. k PROVE e[Len(c) + i] = r[i]
  <2>1. Len(c) + i \in 1 .. (Len(c) + k) /\ ~(Len(c) + i =< Len(c)) /\ (Len(c) + i) - Len(c) = i
    BY <1>1, <1>6
  <2> QED
    BY <1>5, <1>6, <2>1
<1>8. PICK ctrl \in Nat : ctrl = e[Len(c) + 1] /\ ctrl = r[1]
  <2>1. 1 \in 1 .. k
    BY <1>6
  <2> QED
    BY <1>4, <1>7, <2>1
<1>9. e[Len(c) + k] = r[k]
  <2>1. k \in 1 .. k
    BY <1>6
  <2> QED
    BY <1>7, <2>1
<1>10. PICK short \in Nat : short = ctrl \div MaxLit /\ (short = LongRef <=> k = 3)
  BY <1>4, <1>6, <1>8
<1>11. k = 3 => e[Len(c) + 2] = r[2]
  <2>1. 2 \in 1 .. k
    BY <1>6
  <2> QED
    BY <1>7, <2>1
<1>12. x \in Seq(Byte) /\ Len(x) = ip - 1
  <2>1. ip - 1 \in Nat /\ ip - 1 =< Len(d)
    BY <1>1, <1>2
  <2> QED
    BY <2>1, FrontIs
<1> HIDE DEF x
<1>13. at.ip = Len(c) + 1 /\ at.out = x /\ at.bad = FALSE
  OBVIOUS
<1>14. e[at.ip] = ctrl /\ ~(ctrl < MaxLit) /\ ~(at.ip > Len(e))
  <2>1. Len(e) = Len(c) + k
    BY <1>5, <1>6
  <2>2. ctrl >= MaxLit
    BY <1>4, <1>8
  <2>3. e[at.ip] = ctrl
    BY <1>8, <1>13
  <2> QED
    BY <1>1, <1>6, <1>13, <2>1, <2>2, <2>3
<1> HIDE DEF at
<1>15. n = 2 + short + (IF short = LongRef THEN e[at.ip + 1] ELSE 0)
  <2>1. n = 2 + short + (IF k = 3 THEN r[2] ELSE 0)
    BY <1>4, <1>6, <1>8, <1>10
  <2>2. at.ip + 1 = Len(c) + 2
    BY <1>1, <1>13
  <2> QED
    BY <1>10, <1>11, <2>1, <2>2
<1>16. (IF short = LongRef THEN at.ip + 2 ELSE at.ip + 1) = Len(c) + k
  <2>1. at.ip + 2 = Len(c) + 3 /\ at.ip + 1 = Len(c) + 2
    BY <1>1, <1>13
  <2>2. k = 3 \/ k = 2
    BY <1>6
  <2>3. CASE k = 3
    BY <1>10, <2>1, <2>3
  <2>4. CASE k = 2
    BY <1>10, <2>1, <2>4
  <2> QED
    BY <2>2, <2>3, <2>4
<1>17. (ctrl % MaxLit) * Base + e[Len(c) + k] = off
  BY <1>4, <1>6, <1>8, <1>9
<1>18. ~(Len(at.out) + n > Len(d) \/ off + 1 > Len(at.out))
  BY <1>1, <1>2, <1>3, <1>12, <1>13
<1>19. DecompressStep(e, Len(d), at) = [at EXCEPT !.ip = Len(c) + k + 1, !.out = CopyBack(@, off, n)]
  BY <1>10, <1>13, <1>14, <1>15, <1>16, <1>17, <1>18 DEF DecompressStep
<1>20. CopyBack(x, off, n) = SubSeq(d, 1, ip + n - 1)
  BY <1>3, CopyBackIs DEF x
<1>21. Len(c) + k = Len(e)
  BY <1>5, <1>6
<1> QED
  BY <1>13, <1>19, <1>20, <1>21 DEF IsToken, at, e, x

(* A match keeps what was written in step with what was read. *)
LEMMA MatchKeeps ==
  ASSUME NEW d \in Seq(Byte), NEW s, Packing(d, s, MaxLit - 1), NEW ref \in Nat, Matches(d, ref, s.ip)
  PROVE  Packing(d, TakeMatch(d, s, ref), MaxLit - 1) /\ TakeMatch(d, s, ref).ip > s.ip
<1>0. /\ s \in CState /\ s.ip \in Nat /\ 1 =< s.ip /\ Len(d) \in Nat /\ MaxLit \in Nat /\ MaxLit >= 1
      /\ s.htab \in [0 .. (Slots - 1) -> Nat]
  BY Format DEF Packing, CState
<1>1. PICK ip \in Nat : ip = s.ip /\ 1 =< ip
  BY <1>0
<1>2. ref > 1 /\ ref < ip /\ ip - ref - 1 < MAX_OFF
  BY <1>1 DEF Matches
<1>3. PICK n \in Nat : n = MatchLength(d, ref, ip) /\ IsMatch(d, ref, ip, n)
  <2>1. IsMatch(d, ref, ip, MatchLength(d, ref, ip))
    BY <1>1, MatchIs
  <2> QED
    BY <2>1 DEF IsMatch
<1>4. 3 =< n /\ n =< MAX_REF /\ ip + n =< Len(d) + 1
  BY <1>3 DEF IsMatch
<1>20. 1 =< ip /\ 3 =< n /\ ip + n =< Len(d) + 1 /\ Len(d) \in Nat /\ MaxLit \in Nat /\ MaxLit >= 1
  BY <1>0, <1>1, <1>4
<1>5. PICK r \in Seq(Byte) : r = Reference(ip - ref - 1, n) /\ IsReference(r, ip - ref - 1, n)
  <2>1. PICK off \in Nat : off = ip - ref - 1 /\ off < MAX_OFF
    BY <1>2
  <2>2. IsReference(Reference(off, n), off, n)
    BY <1>4, <2>1, ReferenceIs
  <2> QED
    BY <2>1, <2>2 DEF IsReference
<1>6. PICK c \in Seq(Byte) : c = StopRun(s) /\ Decodes(c, Len(d), SubSeq(d, 1, ip - 1))
  <2>1. Packing(d, s, MaxLit)
    <3>1. Len(s.run) =< MaxLit - 1 /\ Len(s.run) \in Nat
      BY DEF Packing, CState
    <3>2. Len(s.run) =< MaxLit
      BY <1>0, <3>1
    <3> QED
      BY <3>2 DEF Packing
  <2> QED
    BY <1>1, <2>1, RunDecodes
<1>7. PICK x \in Seq(Byte), y \in Seq(Byte) : x = SubSeq(d, 1, ip - 1) /\ y = SubSeq(d, 1, ip + n - 1)
  <2>1. ip - 1 \in Nat /\ ip - 1 =< Len(d) /\ ip + n - 1 \in Nat /\ ip + n - 1 =< Len(d)
    BY <1>20
  <2> QED
    BY <2>1, FrontIs
<1>8. IsToken(c, r, Len(d), x, y)
  <2>1. 1 =< ref /\ ref < ip
    BY <1>2
  <2>2. IsMatch(d, ref, ip, n) /\ IsReference(r, ip - ref - 1, n)
    BY <1>3, <1>5
  <2>3. IsToken(c, r, Len(d), SubSeq(d, 1, ip - 1), SubSeq(d, 1, ip + n - 1))
    BY <2>1, <2>2, ReferenceDecodes
  <2> QED
    BY <1>7, <2>3
<1>9. Decodes(c \o r, Len(d), y)
  <2>1. Len(r) >= 1
    BY <1>5 DEF IsReference
  <2> QED
    BY <1>0, <1>6, <1>7, <1>8, <2>1, DecodesMore
<1>10. PICK o \in Seq(Byte) : o = c \o r
  BY ConcatProperties
<1>11. PICK h \in [0 .. (Slots - 1) -> Nat] : h = IF ip + n >= Len(d) - 1 THEN s.htab ELSE Enter(d, Enter(d, s.htab, (ip + n) - 2), (ip + n) - 1)
  <2>1. (ip + n) - 2 \in Nat /\ (ip + n) - 1 \in Nat
    BY <1>20
  <2>2. PICK a \in Nat, b \in Nat : a = (ip + n) - 2 /\ b = (ip + n) - 1
    BY <2>1
  <2>3. Enter(d, s.htab, a) \in [0 .. (Slots - 1) -> Nat]
    BY <1>0 DEF Enter
  <2>4. Enter(d, Enter(d, s.htab, a), b) \in [0 .. (Slots - 1) -> Nat]
    <3>1. PICK g \in [0 .. (Slots - 1) -> Nat] : g = Enter(d, s.htab, a)
      BY <2>3
    <3>2. Enter(d, g, b) \in [0 .. (Slots - 1) -> Nat]
      BY DEF Enter
    <3> QED
      BY <3>1, <3>2
  <2> QED
    BY <1>0, <2>2, <2>4
<1>12. PICK p \in Nat, e \in Seq(Byte) : p = ip + n /\ e = <<>>
  <2>1. <<>> \in Seq(Byte)
    OBVIOUS
  <2>2. ip + n \in Nat
    OBVIOUS
  <2> QED
    BY <2>1, <2>2
<1>13. PICK u : u = TakeMatch(d, s, ref) /\ u = [s EXCEPT !.out = o, !.run = e, !.ip = p, !.htab = h]
  <2>1. TakeMatch(d, s, ref) =
          [s EXCEPT !.out = c \o r, !.run = <<>>, !.ip = ip + n,
                    !.htab = IF ip + n >= Len(d) - 1 THEN s.htab ELSE Enter(d, Enter(d, s.htab, (ip + n) - 2), (ip + n) - 1)]
    <3>1. TakeMatch(d, s, ref) =
            [s EXCEPT !.out = StopRun(s) \o Reference(s.ip - ref - 1, MatchLength(d, ref, s.ip)),
                      !.run = <<>>, !.ip = s.ip + MatchLength(d, ref, s.ip),
                      !.htab = IF s.ip + MatchLength(d, ref, s.ip) >= Len(d) - 1 THEN s.htab
                               ELSE Enter(d, Enter(d, s.htab, (s.ip + MatchLength(d, ref, s.ip)) - 2),
                                          (s.ip + MatchLength(d, ref, s.ip)) - 1)]
      BY DEF TakeMatch
    <3>2. s.ip = ip /\ MatchLength(d, ref, s.ip) = n /\ Reference(s.ip - ref - 1, n) = r /\ StopRun(s) = c
      BY <1>1, <1>3, <1>5, <1>6
    <3> QED
      BY <3>1, <3>2
  <2> QED
    BY <1>10, <1>11, <1>12, <2>1
<1>14. u \in CState /\ u.out = o /\ u.run = e /\ u.ip = p
  BY <1>0, <1>13 DEF CState
<1>15. Packing(d, u, MaxLit - 1)
  <2>0. Len(e) = 0 /\ p = ip + n
    BY <1>12
  <2>1. Len(e) = 0 /\ p - 1 - 0 = ip + n - 1 /\ p - 0 = p /\ 0 =< MaxLit - 1 /\ 0 < p /\ 1 =< p /\ p =< Len(d) + 1
    BY <1>20, <2>0
  <2>2. SubSeq(d, p, p - 1) = <<>>
    <3>1. PICK a \in Nat, b \in Nat : a = p /\ b = p - 1 /\ b - a + 1 = 0 /\ 1 =< a /\ a =< b + 1 /\ b =< Len(d)
      BY <1>20, <2>1
    <3>2. SubSeq(d, a, b) \in Seq(Byte) /\ Len(SubSeq(d, a, b)) = 0
      BY <3>1, SliceIs
    <3> QED
      BY <3>1, <3>2, EmptySeq
  <2>3. Decodes(u.out, Len(d), SubSeq(d, 1, u.ip - 1 - Len(u.run)))
    BY <1>7, <1>9, <1>10, <1>14, <2>1
  <2>4. u.run = SubSeq(d, u.ip - Len(u.run), u.ip - 1)
    BY <1>12, <1>14, <2>1, <2>2
  <2> QED
    BY <1>14, <2>1, <2>3, <2>4 DEF Packing
<1> QED
  BY <1>1, <1>20, <1>12, <1>13, <1>14, <1>15

(* The table and the flag are not part of it. *)
LEMMA PackingSame ==
  ASSUME NEW d, NEW k, NEW s, Packing(d, s, k),
         NEW t \in CState, t.ip = s.ip, t.out = s.out, t.run = s.run
  PROVE  Packing(d, t, k)
  BY DEF Packing

(* A round of the loop: it is over, or it goes on with the input. *)
LEMMA StepKeeps ==
  ASSUME NEW d \in Seq(Byte), NEW outLen, NEW s, Packing(d, s, MaxLit - 1)
  PROVE  LET u == CompressStep(d, outLen, s)
         IN  Packing(d, u, MaxLit - 1) /\ (u.full \/ u.ip >= Len(d) - 1 \/ u.ip > s.ip)
<1> DEFINE u == CompressStep(d, outLen, s)
           slot == IDX(d, s.ip)
           full == [s EXCEPT !.full = TRUE]
           t == [s EXCEPT !.htab[slot] = s.ip]
<1>0. /\ s \in CState /\ s.ip \in Nat /\ 1 =< s.ip /\ Len(d) \in Nat
      /\ s.htab \in [0 .. (Slots - 1) -> Nat]
  BY DEF Packing, CState
<1>1. CASE s.full \/ s.ip >= Len(d) - 1
  <2>1. u = s
    BY <1>1 DEF CompressStep
  <2> HIDE DEF u
  <2> QED
    BY <1>1, <2>1 DEF u
<1>2. CASE ~(s.full \/ s.ip >= Len(d) - 1)
  <2>1. slot \in 0 .. (Slots - 1)
    <3>1. PICK i \in Nat \ {0} : i = s.ip /\ i + 2 =< Len(d)
      <4>1. s.ip \in Nat \ {0} /\ s.ip + 2 =< Len(d)
        BY <1>0, <1>2
      <4> QED
        BY <4>1
    <3>2. IDX(d, i) \in 0 .. (Slots - 1)
      BY <3>1, IdxType
    <3> QED
      BY <3>1, <3>2
  <2> HIDE DEF slot
  <2>2. PICK ref \in Nat : ref = s.htab[slot]
    BY <1>0, <2>1
  <2>3. full \in CState /\ full.ip = s.ip /\ full.out = s.out /\ full.run = s.run /\ full.full = TRUE
    BY <1>0 DEF CState
  <2>4. t \in CState /\ t.ip = s.ip /\ t.out = s.out /\ t.run = s.run
    <3>1. PICK h \in [0 .. (Slots - 1) -> Nat] : h = [s.htab EXCEPT ![slot] = s.ip]
      BY <1>0
    <3>2. t = [s EXCEPT !.htab = h]
      BY <3>1
    <3> HIDE DEF t
    <3> QED
      BY <1>0, <3>2 DEF CState
  <2>5. u = full \/ (u = TakeMatch(d, t, ref) /\ Matches(d, ref, s.ip)) \/ u = AddLiteral(t, d[s.ip])
    BY <1>2, <2>2 DEF CompressStep, slot
  <2> HIDE DEF u, full, t
  <2>6. Packing(d, full, MaxLit - 1)
    BY <2>3, PackingSame
  <2>7. Packing(d, t, MaxLit - 1)
    BY <2>4, PackingSame
  <2>8. CASE u = full
    BY <2>3, <2>6, <2>8 DEF u
  <2>9. CASE u = TakeMatch(d, t, ref) /\ Matches(d, ref, s.ip)
    <3>1. Packing(d, u, MaxLit - 1) /\ u.ip > t.ip
      BY <2>4, <2>7, <2>9, MatchKeeps
    <3> QED
      BY <2>4, <3>1 DEF u
  <2>10. CASE u = AddLiteral(t, d[s.ip])
    <3>1. s.ip =< Len(d)
      BY <1>0, <1>2
    <3>2. Packing(d, u, MaxLit - 1) /\ u.ip = t.ip + 1
      BY <2>4, <2>7, <2>10, <3>1, LiteralKeeps
    <3>3. u.ip > s.ip
      BY <1>0, <2>4, <3>2
    <3> QED
      BY <3>2, <3>3 DEF u
  <2> QED
    BY <2>5, <2>8, <2>9, <2>10
<1> QED
  BY <1>1, <1>2

(* f is the sequence of states that the loop computes. *)
Packer(d, outLen, s, f) ==
    f = [n \in Nat |-> IF n = 0 THEN s ELSE CompressStep(d, outLen, f[n - 1])]

(* CompressLoop takes its result from that sequence. *)
LEMMA PackerIs ==
  ASSUME NEW d, NEW outLen, NEW s, \E f : Packer(d, outLen, s, f)
  PROVE  \E f : Packer(d, outLen, s, f) /\ CompressLoop(d, outLen, s) = f[Len(d)]
  BY DEF Packer, CompressLoop

(* The loop ends with the output full or with two bytes left. *)
LEMMA LoopKeeps ==
  ASSUME NEW d \in Seq(Byte), NEW outLen, NEW s, Packing(d, s, MaxLit - 1)
  PROVE  LET end == CompressLoop(d, outLen, s)
         IN  Packing(d, end, MaxLit - 1) /\ (end.full \/ end.ip >= Len(d) - 1)
<1> DEFINE X == {r \in CState : Packing(d, r, MaxLit - 1)}
           step == [r \in X |-> CompressStep(d, outLen, r)]
<1>0. Len(d) \in Nat /\ s \in X /\ s.ip \in Nat /\ 1 =< s.ip
  BY DEF Packing, CState
<1>1. ASSUME NEW r \in X PROVE CompressStep(d, outLen, r) \in X
  <2>1. Packing(d, CompressStep(d, outLen, r), MaxLit - 1)
    BY StepKeeps
  <2> QED
    BY <2>1 DEF Packing
<1>2. step \in [X -> X] /\ \A r \in X : step[r] = CompressStep(d, outLen, r)
  BY <1>1
<1>3. \A r \in X : Packing(d, r, MaxLit - 1) /\ r.ip \in Nat
  BY DEF CState
<1> HIDE DEF X, step
<1>4. PICK f \in [Nat -> X] : f[0] = s /\ \A n \in Nat : f[n + 1] = step[f[n]]
  <2>1. step \in [X -> X] /\ s \in X
    BY <1>0, <1>2
  <2>2. PICK f : Iteration(X, s, step, f)
    BY <2>1, Iterates
  <2> QED
    BY <2>2 DEF Iteration
<1>5. Packer(d, outLen, s, f)
  <2>1. ASSUME NEW n \in Nat PROVE f[n] = IF n = 0 THEN s ELSE CompressStep(d, outLen, f[n - 1])
    <3>1. CASE n = 0
      BY <1>4, <3>1
    <3>2. CASE n # 0
      <4>1. PICK k \in Nat : k = n - 1 /\ n = k + 1
        BY <3>2
      <4>2. f[k] \in X /\ f[k + 1] = CompressStep(d, outLen, f[k])
        BY <1>2, <1>4
      <4> QED
        BY <3>2, <4>1, <4>2
    <3> QED
      BY <3>1, <3>2
  <2>2. f = [n \in Nat |-> f[n]]
    BY <1>4
  <2> QED
    BY <2>1, <2>2 DEF Packer
<1>6. PICK g : Packer(d, outLen, s, g) /\ CompressLoop(d, outLen, s) = g[Len(d)]
  BY <1>5, PackerIs
<1>7. \A n \in Nat : g[n] = IF n = 0 THEN s ELSE CompressStep(d, outLen, g[n - 1])
  BY <1>6 DEF Packer
<1> DEFINE T == {n \in Nat : Packing(d, g[n], MaxLit - 1) /\ (g[n].full \/ g[n].ip >= Len(d) - 1 \/ g[n].ip >= n + 1)}
<1>8. 0 \in T
  BY <1>0, <1>7
<1>9. ASSUME NEW n \in Nat, n \in T PROVE n + 1 \in T
  <2>1. g[n + 1] = CompressStep(d, outLen, g[n])
    <3>1. PICK k \in Nat : k = n + 1 /\ k # 0 /\ k - 1 = n
      OBVIOUS
    <3>2. g[k] = CompressStep(d, outLen, g[k - 1])
      BY <1>7, <3>1
    <3> QED
      BY <3>1, <3>2
  <2>2. Packing(d, g[n], MaxLit - 1) /\ (g[n].full \/ g[n].ip >= Len(d) - 1 \/ g[n].ip >= n + 1)
    BY <1>9
  <2>3. PICK a, b : a = g[n] /\ b = g[n + 1] /\ b = CompressStep(d, outLen, a)
    BY <2>1
  <2>4. Packing(d, b, MaxLit - 1) /\ (b.full \/ b.ip >= Len(d) - 1 \/ b.ip > a.ip)
    BY <2>2, <2>3, StepKeeps
  <2>5. a.ip \in Nat /\ b.ip \in Nat
    BY <2>2, <2>3, <2>4 DEF Packing, CState
  <2>6. b.full \/ b.ip >= Len(d) - 1 \/ b.ip >= (n + 1) + 1
    <3>1. CASE a.full
      <4>1. b = a
        BY <2>3, <3>1 DEF CompressStep
      <4> QED
        BY <3>1, <4>1
    <3>2. CASE a.ip >= Len(d) - 1
      BY <1>0, <2>4, <2>5, <3>2
    <3>3. CASE a.ip >= n + 1
      BY <1>0, <2>4, <2>5, <3>3
    <3> QED
      BY <2>2, <2>3, <3>1, <3>2, <3>3
  <2>7. n + 1 \in Nat
    OBVIOUS
  <2> QED
    BY <2>3, <2>4, <2>6, <2>7
<1>10. Len(d) \in T
  <2> HIDE DEF T
  <2> QED
    BY <1>0, <1>8, <1>9, NatBySet
<1>11. PICK end : end = CompressLoop(d, outLen, s) /\ end = g[Len(d)]
  BY <1>6
<1>12. Packing(d, end, MaxLit - 1) /\ (end.full \/ end.ip >= Len(d) - 1 \/ end.ip >= Len(d) + 1)
  BY <1>10, <1>11
<1>13. end.ip \in Nat
  BY <1>12 DEF Packing, CState
<1>14. end.full \/ end.ip >= Len(d) - 1
  BY <1>0, <1>12, <1>13
<1> QED
  BY <1>11, <1>12, <1>14

(* One of the bytes that are left. *)
LEMMA OneMoreKeeps ==
  ASSUME NEW d \in Seq(Byte), NEW s, Packing(d, s, MaxLit - 1)
  PROVE  LET u == OneMore(d, s)
         IN  Packing(d, u, MaxLit - 1) /\ (u.ip > Len(d) \/ u.ip = s.ip + 1)
<1>0. s.ip \in Nat /\ Len(d) \in Nat
  BY DEF Packing, CState
<1>1. CASE s.ip > Len(d)
  BY <1>1 DEF OneMore
<1>2. CASE ~(s.ip > Len(d))
  <2>1. OneMore(d, s) = AddLiteral(s, d[s.ip]) /\ s.ip =< Len(d)
    BY <1>0, <1>2 DEF OneMore
  <2>2. Packing(d, AddLiteral(s, d[s.ip]), MaxLit - 1) /\ AddLiteral(s, d[s.ip]).ip = s.ip + 1
    BY <2>1, LiteralKeeps
  <2> QED
    BY <2>1, <2>2
<1> QED
  BY <1>1, <1>2

(* What lzf_compress writes decodes to its input. *)
LEMMA RemainingDecodes ==
  ASSUME NEW d \in Seq(Byte), NEW s, Packing(d, s, MaxLit - 1), s.ip >= Len(d) - 1
  PROVE  Remaining(d, s) \in Seq(Byte) /\ Decodes(Remaining(d, s), Len(d), d)
<1>0. s.ip \in Nat /\ Len(d) \in Nat /\ MaxLit \in Nat
  BY Format DEF Packing, CState
<1>1. PICK a : a = OneMore(d, s)
  OBVIOUS
<1>2. Packing(d, a, MaxLit - 1) /\ (a.ip > Len(d) \/ a.ip = s.ip + 1)
  BY <1>1, OneMoreKeeps
<1>3. PICK b : b = OneMore(d, a)
  OBVIOUS
<1>4. Packing(d, b, MaxLit - 1) /\ (b.ip > Len(d) \/ b.ip = a.ip + 1)
  BY <1>2, <1>3, OneMoreKeeps
<1>5. a.ip \in Nat /\ b.ip \in Nat /\ b.ip =< Len(d) + 1 /\ a.ip =< Len(d) + 1
  BY <1>2, <1>4 DEF Packing, CState
<1>6. b.ip = Len(d) + 1
  BY <1>0, <1>2, <1>4, <1>5
<1>7. Packing(d, b, MaxLit)
  <2>1. Len(b.run) =< MaxLit - 1 /\ Len(b.run) \in Nat
    BY <1>4 DEF Packing, CState
  <2>2. Len(b.run) =< MaxLit
    BY <1>0, <2>1
  <2> QED
    BY <1>4, <2>2 DEF Packing
<1>8. StopRun(b) \in Seq(Byte) /\ Decodes(StopRun(b), Len(d), SubSeq(d, 1, b.ip - 1))
  BY <1>7, RunDecodes
<1>9. SubSeq(d, 1, b.ip - 1) = d
  <2>1. b.ip - 1 = Len(d)
    BY <1>0, <1>6
  <2>2. PICK x \in Seq(Byte) : x = SubSeq(d, 1, Len(d)) /\ Len(x) = Len(d) /\ \A i \in 1 .. Len(d) : x[i] = d[i]
    BY <1>0, FrontIs
  <2>3. x = d
    BY <2>2, SeqEqual
  <2> QED
    BY <2>1, <2>2, <2>3
<1>10. Remaining(d, s) = StopRun(b)
  BY <1>1, <1>3 DEF Remaining
<1> QED
  BY <1>8, <1>9, <1>10

(* The bytes written when a run stops. *)
Measured(s, o, n) ==
    /\ o \in Nat /\ n \in Nat /\ o = Len(s.out) /\ n = Len(s.run) /\ Op(s) = o + 1 + n
    /\ Len(StopRun(s)) = IF n = 0 THEN o ELSE o + 1 + n

(* The lengths are those that Measured says. *)
LEMMA StopLength ==
  ASSUME NEW s \in CState
  PROVE  Measured(s, Len(s.out), Len(s.run))
<1>1. s.out \in Seq(Byte) /\ s.run \in Seq(Byte)
  BY DEF CState
<1>2. PICK c \in Seq(Nat), r \in Seq(Nat), n \in Nat : c = s.out /\ r = s.run /\ n = Len(r)
  <2>1. ASSUME NEW x \in Seq(Byte) PROVE x \in Seq(Nat) /\ Len(x) \in Nat
    <3>1. Byte \subseteq Nat
      BY Format DEF Byte
    <3>2. Len(x) \in Nat /\ x \in [1 .. Len(x) -> Byte]
      OBVIOUS
    <3>3. x \in [1 .. Len(x) -> Nat]
      BY <3>1, <3>2
    <3> QED
      BY <3>2, <3>3, SeqDef
  <2> QED
    BY <1>1, <2>1
<1>5. PICK o \in Nat : o = Len(c)
  OBVIOUS
<1>6. Op(s) = o + 1 + n
  BY <1>2, <1>5 DEF Op
<1>3. CASE r = <<>>
  <2>1. StopRun(s) = c /\ n = 0
    BY <1>2, <1>3 DEF StopRun
  <2> QED
    BY <1>2, <1>5, <1>6, <2>1 DEF Measured
<1>4. CASE r # <<>>
  <2>1. n >= 1
    BY <1>2, <1>4, EmptySeq
  <2>2. PICK m \in Nat : m = n - 1
    BY <2>1
  <2>0. <<m>> \in Seq(Nat) /\ Len(<<m>>) = 1
    OBVIOUS
  <2>3. PICK u \in Seq(Nat) : u = <<m>> /\ Len(u) = 1
    BY <2>0
  <2>4. c \o u \in Seq(Nat) /\ Len(c \o u) = Len(c) + Len(u)
    BY ConcatProperties
  <2>5. PICK v \in Seq(Nat) : v = c \o u /\ Len(v) = o + 1
    BY <1>5, <2>3, <2>4
  <2>6. v \o r \in Seq(Nat) /\ Len(v \o r) = Len(v) + Len(r)
    BY ConcatProperties
  <2>7. StopRun(s) = v \o r
    BY <1>2, <1>4, <2>2, <2>3, <2>5 DEF StopRun
  <2>10. Len(v \o r) = o + 1 + n
    <3>1. Len(v) = o + 1 /\ Len(r) = n
      BY <1>2, <2>5
    <3>2. Len(v \o r) = Len(v) + Len(r)
      BY <2>6
    <3> QED
      BY <3>1, <3>2
  <2>8. Len(StopRun(s)) = o + 1 + n
    BY <2>7, <2>10
  <2>9. n # 0
    BY <2>1
  <2> QED
    BY <1>2, <1>5, <1>6, <2>8, <2>9 DEF Measured
<1> QED
  BY <1>3, <1>4

(* The bytes of a stopped run lie before op. *)
LEMMA Lengths ==
  ASSUME NEW s \in CState
  PROVE  Op(s) \in Nat /\ Len(StopRun(s)) \in Nat /\ Len(StopRun(s)) =< Op(s)
<1>1. Measured(s, Len(s.out), Len(s.run))
  BY StopLength
<1>2. PICK o \in Nat, n \in Nat : Op(s) = o + 1 + n /\ Len(StopRun(s)) = IF n = 0 THEN o ELSE o + 1 + n
  BY <1>1 DEF Measured
<1>3. PICK w : w = Len(StopRun(s))
  OBVIOUS
<1>4. w \in Nat /\ w =< o + 1 + n
  BY <1>2, <1>3
<1> QED
  BY <1>2, <1>3, <1>4

(* A literal takes a byte, and one more when it opens a run or ends one. *)
LEMMA OneMoreLength ==
  ASSUME NEW d \in Seq(Byte), NEW s, Packing(d, s, MaxLit - 1)
  PROVE  Op(OneMore(d, s)) =< Op(s) + 2 /\ Len(StopRun(OneMore(d, s))) =< Op(s) + 1
<1>0. s \in CState /\ s.ip \in Nat /\ Len(d) \in Nat
  BY DEF Packing, CState
<1>1. PICK o \in Nat, n \in Nat : o = Len(s.out) /\ n = Len(s.run) /\ Op(s) = o + 1 + n
  <2>1. Measured(s, Len(s.out), Len(s.run))
    BY <1>0, StopLength
  <2> QED
    BY <2>1 DEF Measured
<1>2. CASE s.ip > Len(d)
  <2>1. OneMore(d, s) = s
    BY <1>2 DEF OneMore
  <2>2. PICK w \in Nat, p \in Nat : w = Len(StopRun(s)) /\ p = Op(s) /\ w =< p
    BY <1>0, Lengths
  <2>3. p =< p + 2 /\ w =< p + 1
    BY <2>2
  <2> QED
    BY <2>1, <2>2, <2>3
<1>3. CASE ~(s.ip > Len(d))
  <2>0. s.ip =< Len(d) /\ OneMore(d, s) = AddLiteral(s, d[s.ip])
    BY <1>0, <1>3 DEF OneMore
  <2>1. PICK t : t = [s EXCEPT !.run = Append(@, d[s.ip]), !.ip = @ + 1]
    OBVIOUS
  <2>2. Packing(d, t, MaxLit)
    BY <2>0, <2>1, LiteralJoins
  <2>3. t \in CState /\ StopRun(t) \in Seq(Byte)
    BY <2>2, RunDecodes DEF Packing
  <2>4. Len(t.out) = o /\ Len(t.run) = n + 1
    <3>1. t.out = s.out /\ t.run = Append(s.run, d[s.ip])
      BY <1>0, <2>1 DEF CState
    <3>2. s.run \in Seq(Byte) /\ d[s.ip] \in Byte
      <4>1. s.ip \in 1 .. Len(d)
        BY <1>0, <2>0 DEF Packing
      <4>2. d[s.ip] \in Byte
        BY <4>1
      <4> QED
        BY <1>0, <4>2 DEF CState
    <3>3. Len(Append(s.run, d[s.ip])) = Len(s.run) + 1
      BY <3>2, AppendProperties
    <3> QED
      BY <1>1, <3>1, <3>3
  <2>5. Op(t) = o + 1 + (n + 1) /\ Len(StopRun(t)) = o + 1 + (n + 1)
    <3>1. n + 1 # 0
      OBVIOUS
    <3>2. Measured(t, Len(t.out), Len(t.run))
      BY <2>3, StopLength
    <3> QED
      BY <2>4, <3>1, <3>2 DEF Measured
  <2>6. AddLiteral(s, d[s.ip]) = IF Len(t.run) = MaxLit THEN [t EXCEPT !.out = StopRun(t), !.run = <<>>] ELSE t
    BY <2>1 DEF AddLiteral
  <2>7. CASE Len(t.run) # MaxLit
    <3>1. OneMore(d, s) = t
      BY <2>0, <2>6, <2>7
    <3>2. o + 1 + (n + 1) =< (o + 1 + n) + 2 /\ o + 1 + (n + 1) =< (o + 1 + n) + 1
      OBVIOUS
    <3> QED
      BY <1>1, <2>5, <3>1, <3>2
  <2>8. CASE Len(t.run) = MaxLit
    <3>1. PICK e \in Seq(Byte), c \in Seq(Byte) : e = <<>> /\ Len(e) = 0 /\ c = StopRun(t)
      <4>1. <<>> \in Seq(Byte) /\ Len(<<>>) = 0
        OBVIOUS
      <4> QED
        BY <2>3, <4>1
    <3>2. PICK u : u = [t EXCEPT !.out = c, !.run = e]
      OBVIOUS
    <3>3. u \in CState /\ u.out = c /\ u.run = e
      BY <2>3, <3>2 DEF CState
    <3>4. OneMore(d, s) = u
      BY <2>0, <2>6, <2>8, <3>1, <3>2
    <3>5. Len(u.out) = o + 1 + (n + 1) /\ Len(u.run) = 0
      BY <2>5, <3>1, <3>3
    <3>6. Op(u) = Len(u.out) + 1 + Len(u.run) /\ Len(StopRun(u)) = Len(u.out)
      <4>1. Measured(u, Len(u.out), Len(u.run))
        BY <3>3, StopLength
      <4> QED
        BY <3>5, <4>1 DEF Measured
    <3>7. Op(u) = (o + 1 + (n + 1)) + 1 /\ Len(StopRun(u)) = o + 1 + (n + 1)
      BY <3>5, <3>6
    <3>8. (o + 1 + (n + 1)) + 1 =< (o + 1 + n) + 2 /\ o + 1 + (n + 1) =< (o + 1 + n) + 1
      OBVIOUS
    <3> QED
      BY <1>1, <3>4, <3>7, <3>8
  <2> QED
    BY <2>7, <2>8
<1> QED
  BY <1>2, <1>3

(* At most three bytes are written after the loop. *)
LEMMA RemainingLength ==
  ASSUME NEW d \in Seq(Byte), NEW s, Packing(d, s, MaxLit - 1)
  PROVE  Len(Remaining(d, s)) =< Op(s) + 3
<1>1. PICK a : a = OneMore(d, s)
  OBVIOUS
<1>2. Packing(d, a, MaxLit - 1)
  BY <1>1, OneMoreKeeps
<1>3. Op(a) =< Op(s) + 2
  BY <1>1, OneMoreLength
<1>4. PICK b : b = OneMore(d, a)
  OBVIOUS
<1>5. Len(StopRun(b)) =< Op(a) + 1
  BY <1>2, <1>4, OneMoreLength
<1>6. Packing(d, b, MaxLit - 1)
  BY <1>2, <1>4, OneMoreKeeps
<1>7. Op(a) \in Nat /\ Op(s) \in Nat /\ Len(StopRun(b)) \in Nat
  <2>1. a \in CState /\ s \in CState /\ b \in CState
    BY <1>2, <1>6 DEF Packing
  <2> QED
    BY <2>1, Lengths
<1>8. Remaining(d, s) = StopRun(b)
  BY <1>1, <1>4 DEF Remaining
<1> QED
  BY <1>3, <1>5, <1>7, <1>8

(* lzf_compress: what fits decodes to the input. *)
LEMMA CompressIs ==
  ASSUME NEW d \in Seq(Byte), NEW outLen \in Int, lzf_compress(d, outLen) # <<>>
  PROVE  LET c == lzf_compress(d, outLen)
         IN  c \in Seq(Byte) /\ Len(c) =< outLen /\ Decodes(c, Len(d), d)
<1> DEFINE start == [ip |-> 1, out |-> <<>>, run |-> <<>>, full |-> FALSE, htab |-> [i \in 0 .. Slots - 1 |-> 0]]
<1>0. Len(d) \in Nat /\ MaxLit \in Nat /\ MaxLit >= 1
  BY Format
<1>1. Packing(d, start, MaxLit - 1)
  <2>1. <<>> \in Seq(Byte) /\ Len(<<>>) = 0
    OBVIOUS
  <2>2. PICK h \in [0 .. (Slots - 1) -> Nat] : h = [i \in 0 .. Slots - 1 |-> 0]
    OBVIOUS
  <2>3. start.ip = 1 /\ start.out = <<>> /\ start.run = <<>>
    OBVIOUS
  <2>4. start \in CState
    BY <2>1 DEF CState
  <2> HIDE DEF start
  <2>5. 1 - 1 - 0 = 0 /\ 1 - 0 = 1 /\ 1 - 1 = 0 /\ 0 =< MaxLit - 1 /\ 1 =< Len(d) + 1
    BY <1>0
  <2>6. SubSeq(d, 1, 0) = <<>>
    <3>1. 0 \in Nat /\ 0 =< Len(d)
      BY <1>0
    <3>2. SubSeq(d, 1, 0) \in Seq(Byte) /\ Len(SubSeq(d, 1, 0)) = 0
      BY <3>1, FrontIs
    <3> QED
      BY <3>2, EmptySeq
  <2>7. Decodes(<<>>, Len(d), <<>>)
    BY <1>0, DecodesNone
  <2>8. Decodes(start.out, Len(d), SubSeq(d, 1, start.ip - 1 - Len(start.run)))
    BY <2>1, <2>3, <2>5, <2>6, <2>7
  <2>9. start.run = SubSeq(d, start.ip - Len(start.run), start.ip - 1)
    BY <2>1, <2>3, <2>5, <2>6
  <2> QED
    BY <2>1, <2>3, <2>4, <2>5, <2>8, <2>9 DEF Packing
<1>2. PICK end : end = CompressLoop(d, outLen, start)
  OBVIOUS
<1>3. lzf_compress(d, outLen) = IF d = <<>> \/ outLen = 0 \/ end.full \/ Op(end) + 3 > outLen THEN <<>> ELSE Remaining(d, end)
  BY <1>2 DEF lzf_compress
<1> HIDE DEF start
<1>4. Packing(d, end, MaxLit - 1) /\ (end.full \/ end.ip >= Len(d) - 1)
  BY <1>1, <1>2, LoopKeeps
<1>5. ~end.full /\ ~(Op(end) + 3 > outLen) /\ lzf_compress(d, outLen) = Remaining(d, end)
  BY <1>3
<1>6. Remaining(d, end) \in Seq(Byte) /\ Decodes(Remaining(d, end), Len(d), d)
  BY <1>4, <1>5, RemainingDecodes
<1>7. Len(Remaining(d, end)) =< Op(end) + 3
  BY <1>4, RemainingLength
<1>8. Op(end) \in Nat
  <2>1. end \in CState
    BY <1>4 DEF Packing
  <2> QED
    BY <2>1, Lengths
<1>9. Len(Remaining(d, end)) \in Nat
  BY <1>6
<1>10. Len(Remaining(d, end)) =< outLen
  BY <1>5, <1>7, <1>8, <1>9
<1> QED
  BY <1>5, <1>6, <1>10

(* A quotient is below what the number is below. *)
LEMMA QuotientBelow ==
  ASSUME NEW b \in Nat \ {0}, NEW x \in Nat, NEW a \in Nat, a < b * x
  PROVE  a \div b \in Nat /\ a \div b < x
<1>1. PICK q \in Nat, r \in Nat : q = a \div b /\ r = a % b /\ a = b * q + r
  BY DivMod
<1>2. SUFFICES ASSUME x =< q PROVE FALSE
  BY <1>1
<1>3. PICK k \in Nat : q = x + k
  <2>1. q - x \in Nat /\ q = x + (q - x)
    BY <1>2
  <2> QED
    BY <2>1
<1>4. b * (x + k) = b * x + b * k
  OBVIOUS
<1>5. b * x \in Nat /\ b * k \in Nat
  OBVIOUS
<1> QED
  BY <1>1, <1>3, <1>4, <1>5

(* The header tells the length that was put into it. *)
HeaderTells(h, size, n) ==
    /\ h \in Seq(Nat) /\ Len(h) = size
    /\ CASE size = 4 -> ((h[1] * Base + h[2]) * Base + h[3]) * Base + h[4] = n
         [] size = 2 -> h[1] * Base + h[2] = n
         [] OTHER -> h[1] = n

(* header_set_data writes such a header. *)
LEMMA HeaderIs ==
  ASSUME NEW n \in Nat, n < Base * (Base * (Base * Base))
  PROVE  DataSize(n) \in {1, 2, 4} /\ HeaderTells(header_set_data(DataSize(n), n), DataSize(n), n)
<1> DEFINE size == DataSize(n)
           h == header_set_data(size, n)
<1>0. Base \in Nat \ {0} /\ OneByte \in Nat /\ TwoBytes \in Nat /\ OneByte < Base /\ TwoBytes < Base * Base
  BY Format, FormatAssumption DEF FormatAssumption
<1>1. PICK v1 \in Nat, r0 \in Nat : v1 = n \div Base /\ r0 = n % Base /\ n = Base * v1 + r0
  BY <1>0, DivMod
<1>2. PICK v2 \in Nat, r1 \in Nat : v2 = v1 \div Base /\ r1 = v1 % Base /\ v1 = Base * v2 + r1
  BY <1>0, DivMod
<1>3. PICK v3 \in Nat, r2 \in Nat : v3 = v2 \div Base /\ r2 = v2 % Base /\ v2 = Base * v3 + r2
  BY <1>0, DivMod
<1>4. PICK r3 \in Nat : r3 = v3 % Base
  BY <1>0, DivMod
<1>5. h = IF size = 4 THEN <<r3, r2, r1, r0>> ELSE IF size = 2 THEN <<r1, r0>> ELSE <<r0>>
  BY <1>1, <1>2, <1>3, <1>4 DEF header_set_data
<1>6. size = IF n > TwoBytes THEN 4 ELSE IF n > OneByte THEN 2 ELSE 1
  BY DEF DataSize
<1> HIDE DEF size, h
<1>7. CASE n > TwoBytes
  <2>1. size = 4 /\ h = <<r3, r2, r1, r0>>
    BY <1>5, <1>6, <1>7
  <2>2. Base * Base \in Nat /\ Base * (Base * Base) \in Nat
    BY <1>0
  <2>3. v1 < Base * (Base * Base)
    BY <1>0, <1>1, <2>2, QuotientBelow
  <2>4. v2 < Base * Base
    BY <1>0, <1>2, <2>2, <2>3, QuotientBelow
  <2>5. v3 < Base
    BY <1>0, <1>3, <2>4, QuotientBelow
  <2>6. r3 = v3
    BY <1>0, <1>4, <2>5, ModSmall
  <2>7. r3 * Base + r2 = v2 /\ v2 * Base + r1 = v1 /\ v1 * Base + r0 = n
    <3>1. v3 * Base = Base * v3 /\ v2 * Base = Base * v2 /\ v1 * Base = Base * v1
      BY <1>0
    <3> QED
      BY <1>1, <1>2, <1>3, <2>6, <3>1
  <2>8. ((r3 * Base + r2) * Base + r1) * Base + r0 = n
    BY <2>7
  <2>9. h \in Seq(Nat) /\ Len(h) = 4 /\ h[1] = r3 /\ h[2] = r2 /\ h[3] = r1 /\ h[4] = r0
    BY <2>1
  <2>10. HeaderTells(h, size, n)
    BY <2>1, <2>8, <2>9 DEF HeaderTells
  <2> QED
    BY <2>1, <2>10 DEF h, size
<1>8. CASE ~(n > TwoBytes) /\ n > OneByte
  <2>1. size = 2 /\ h = <<r1, r0>>
    BY <1>5, <1>6, <1>8
  <2>2. n < Base * Base
    <3>1. Base * Base \in Nat
      BY <1>0
    <3> QED
      BY <1>0, <1>8, <3>1
  <2>3. v1 < Base
    BY <1>0, <1>1, <2>2, QuotientBelow
  <2>4. r1 = v1
    BY <1>0, <1>2, <2>3, ModSmall
  <2>5. v1 * Base = Base * v1
    BY <1>0
  <2>6. r1 * Base + r0 = n
    BY <1>1, <2>4, <2>5
  <2>7. h \in Seq(Nat) /\ Len(h) = 2 /\ h[1] = r1 /\ h[2] = r0
    BY <2>1
  <2>8. HeaderTells(h, size, n)
    BY <2>1, <2>6, <2>7 DEF HeaderTells
  <2> QED
    BY <2>1, <2>8 DEF h, size
<1>9. CASE ~(n > TwoBytes) /\ ~(n > OneByte)
  <2>1. size = 1 /\ h = <<r0>>
    BY <1>5, <1>6, <1>9
  <2>2. n < Base
    BY <1>0, <1>9
  <2>3. r0 = n
    BY <1>0, <1>1, <2>2, ModSmall
  <2>4. h \in Seq(Nat) /\ Len(h) = 1 /\ h[1] = r0
    BY <2>1
  <2>5. HeaderTells(h, size, n)
    BY <2>1, <2>3, <2>4 DEF HeaderTells
  <2> QED
    BY <2>1, <2>5 DEF h, size
<1> QED
  BY <1>7, <1>8, <1>9

(* The parts of a sequence put together from two. *)
LEMMA Joined ==
  ASSUME NEW x \in Seq(Nat), NEW y \in Seq(Nat)
  PROVE  /\ x \o y \in Seq(Nat) /\ Len(x \o y) = Len(x) + Len(y) /\ Len(x) \in Nat /\ Len(y) \in Nat
         /\ \A i \in 1 .. Len(x) : (x \o y)[i] = x[i]
         /\ \A i \in 1 .. Len(y) : (x \o y)[Len(x) + i] = y[i]
<1>1. /\ x \o y \in Seq(Nat) /\ Len(x \o y) = Len(x) + Len(y)
      /\ \A i \in 1 .. (Len(x) + Len(y)) : (x \o y)[i] = IF i =< Len(x) THEN x[i] ELSE y[i - Len(x)]
  BY ConcatProperties
<1>2. Len(x) \in Nat /\ Len(y) \in Nat
  OBVIOUS
<1>3. ASSUME NEW i \in 1 .. Len(x) PROVE (x \o y)[i] = x[i]
  <2>1. i \in 1 .. (Len(x) + Len(y)) /\ i =< Len(x)
    BY <1>2
  <2> QED
    BY <1>1, <2>1
<1>4. ASSUME NEW i \in 1 .. Len(y) PROVE (x \o y)[Len(x) + i] = y[i]
  <2>1. Len(x) + i \in 1 .. (Len(x) + Len(y)) /\ ~(Len(x) + i =< Len(x)) /\ (Len(x) + i) - Len(x) = i
    BY <1>2
  <2> QED
    BY <1>1, <2>1
<1> QED
  BY <1>1, <1>2, <1>3, <1>4

(* What stands behind the first part is the second. *)
LEMMA SecondPart ==
  ASSUME NEW x \in Seq(Nat), NEW y \in Seq(Nat)
  PROVE  SubSeq(x \o y, Len(x) + 1, Len(x \o y)) = y
<1>1. PICK z \in Seq(Nat) : /\ z = x \o y /\ Len(z) = Len(x) + Len(y)
                            /\ \A i \in 1 .. Len(y) : z[Len(x) + i] = y[i]
  BY Joined
<1>2. PICK n \in Nat, m \in Nat : n = Len(x) /\ m = Len(y) /\ Len(z) = n + m
  BY <1>1
<1>3. \A i \in (n + 1) .. (n + m) : z[i] \in Nat
  BY <1>2
<1>4. PICK a \in Int, b \in Int : a = n + 1 /\ b = n + m
  OBVIOUS
<1>5. /\ SubSeq(z, a, b) \in Seq(Nat)
      /\ Len(SubSeq(z, a, b)) = IF a <= b THEN b - a + 1 ELSE 0
      /\ \A i \in 1 .. (b - a + 1) : SubSeq(z, a, b)[i] = z[a + i - 1]
  BY <1>3, <1>4, SubSeqProperties
<1>6. PICK w \in Seq(Nat) : w = SubSeq(z, a, b) /\ Len(w) = m /\ \A i \in 1 .. m : w[i] = z[a + i - 1]
  <2>1. b - a + 1 = m /\ (IF a <= b THEN b - a + 1 ELSE 0) = m
    BY <1>4
  <2> QED
    BY <1>5, <2>1
<1>7. ASSUME NEW i \in 1 .. m PROVE w[i] = y[i]
  <2>1. a + i - 1 = n + i
    BY <1>4
  <2> QED
    BY <1>1, <1>2, <1>6, <2>1
<1>8. w = y
  BY <1>2, <1>6, <1>7, SeqEqual
<1> QED
  BY <1>1, <1>2, <1>4, <1>6, <1>8

(* Bytes are numbers. *)
LEMMA BytesAreNat ==
  ASSUME NEW x \in Seq(Byte)
  PROVE  x \in Seq(Nat) /\ Len(x) \in Nat
<1>1. Byte \subseteq Nat
  BY Format DEF Byte
<1>2. Len(x) \in Nat /\ x \in [1 .. Len(x) -> Byte]
  OBVIOUS
<1>3. x \in [1 .. Len(x) -> Nat]
  BY <1>1, <1>2
<1> QED
  BY <1>2, <1>3, SeqDef

(* The control byte says what was put into it. *)
LEMMA ControlIs ==
  ASSUME NEW size \in {1, 2, 4}
  PROVE  /\ Control(0, size) \in Nat /\ Control(0, size) \div 16 = 0 /\ Control(0, size) % 16 = size
         /\ Control(1, size) \in Nat /\ Control(1, size) \div 16 = 1 /\ Control(1, size) % 16 = size
  BY DEF Control

(* Data that is not compressed. *)
LEMMA StoredIs ==
  ASSUME NEW d \in Seq(Byte), NEW size \in {1, 2, 4}, NEW c, c = <<Control(0, size)>> \o d
  PROVE  decomp_exec(c) = d /\ decomp_getsize(c) = Len(d) /\ Len(c) = Len(d) + 1
<1>1. d \in Seq(Nat) /\ Len(d) \in Nat
  BY BytesAreNat
<1>2. PICK k \in Nat : k = Control(0, size) /\ k \div 16 = 0 /\ k % 16 = size
  BY ControlIs
<1>3. <<k>> \in Seq(Nat) /\ Len(<<k>>) = 1 /\ <<k>>[1] = k
  OBVIOUS
<1>4. PICK u \in Seq(Nat) : u = <<k>> /\ Len(u) = 1 /\ u[1] = k
  BY <1>3
<1>5. c = u \o d
  BY <1>2, <1>4
<1>6. /\ c \in Seq(Nat) /\ Len(c) = Len(u) + Len(d)
      /\ \A i \in 1 .. Len(u) : c[i] = u[i]
      /\ \A i \in 1 .. Len(d) : c[Len(u) + i] = d[i]
  <2>1. PICK y \in Seq(Nat) : y = d
    BY <1>1
  <2>2. /\ u \o y \in Seq(Nat) /\ Len(u \o y) = Len(u) + Len(y)
        /\ \A i \in 1 .. Len(u) : (u \o y)[i] = u[i]
        /\ \A i \in 1 .. Len(y) : (u \o y)[Len(u) + i] = y[i]
    BY Joined
  <2>3. c = u \o y
    BY <1>5, <2>1
  <2> QED
    BY <2>1, <2>2, <2>3
<1>7. PICK n \in Nat : n = Len(d) /\ Len(c) = n + 1
  BY <1>1, <1>4, <1>6
<1>8. c # <<>> /\ c[1] = k
  <2>1. Len(c) # 0
    BY <1>7
  <2>2. 1 \in 1 .. Len(u)
    BY <1>4
  <2>3. c[1] = k
    BY <1>4, <1>6, <2>2
  <2> QED
    BY <2>1, <2>3, EmptySeq
<1>9. ~WrongHeader(c) /\ ~Compressed(c)
  <2>1. LengthBytes(c) = size
    BY <1>2, <1>8 DEF LengthBytes
  <2>2. c[1] \div 16 = 0
    BY <1>2, <1>8
  <2> QED
    BY <1>8, <2>1, <2>2 DEF WrongHeader, Compressed
<1>10. decomp_exec(c) = Tail(c) /\ decomp_getsize(c) = Len(c) - 1
  BY <1>9 DEF decomp_exec, decomp_getsize
<1>11. Len(c) - 1 = n
  BY <1>7
<1>12. PICK t \in Seq(Nat) : t = Tail(c) /\ Len(t) = n /\ \A i \in 1 .. n : t[i] = c[i + 1]
  <2>1. Tail(c) \in Seq(Nat) /\ Len(Tail(c)) = Len(c) - 1 /\ \A i \in 1 .. Len(Tail(c)) : Tail(c)[i] = c[i + 1]
    BY <1>6, <1>8, HeadTailProperties
  <2> QED
    BY <1>11, <2>1
<1>13. ASSUME NEW i \in 1 .. n PROVE t[i] = d[i]
  <2>1. 1 + i = i + 1
    OBVIOUS
  <2> QED
    BY <1>4, <1>6, <1>7, <1>12, <2>1
<1>14. t = d
  BY <1>1, <1>7, <1>12, <1>13, SeqEqual
<1> QED
  BY <1>7, <1>10, <1>11, <1>12, <1>14

(* The header is read where it was written. *)
HeaderAt(c, h, size) == \A i \in 1 .. size : c[1 + i] = h[i]

PackedAs(c, size, h, z) == c = <<Control(1, size)>> \o h \o z

(* header_get_data reads what the header tells. *)
LEMMA HeaderRead ==
  ASSUME NEW n, NEW size \in {1, 2, 4}, NEW h, HeaderTells(h, size, n),
         NEW c, HeaderAt(c, h, size)
  PROVE  header_get_data(c, size) = n
<1>0. 1 + 1 = 2 /\ 1 + 2 = 3 /\ 1 + 3 = 4 /\ 1 + 4 = 5
  OBVIOUS
<1>1. CASE size = 4
  <2>1. 1 \in 1 .. size /\ 2 \in 1 .. size /\ 3 \in 1 .. size /\ 4 \in 1 .. size
    BY <1>1
  <2>2. c[2] = h[1] /\ c[3] = h[2] /\ c[4] = h[3] /\ c[5] = h[4]
    BY <1>0, <2>1 DEF HeaderAt
  <2>3. ((h[1] * Base + h[2]) * Base + h[3]) * Base + h[4] = n
    BY <1>1 DEF HeaderTells
  <2> QED
    BY <1>1, <2>2, <2>3 DEF header_get_data
<1>2. CASE size = 2
  <2>1. 1 \in 1 .. size /\ 2 \in 1 .. size
    BY <1>2
  <2>2. c[2] = h[1] /\ c[3] = h[2]
    BY <1>0, <2>1 DEF HeaderAt
  <2>3. h[1] * Base + h[2] = n
    BY <1>2 DEF HeaderTells
  <2> QED
    BY <1>2, <2>2, <2>3 DEF header_get_data
<1>3. CASE size = 1
  <2>1. 1 \in 1 .. size
    BY <1>3
  <2>2. c[2] = h[1]
    BY <1>0, <2>1 DEF HeaderAt
  <2>3. h[1] = n
    BY <1>3 DEF HeaderTells
  <2> QED
    BY <1>3, <2>2, <2>3 DEF header_get_data
<1> QED
  BY <1>1, <1>2, <1>3

(* Data that is compressed. *)
LEMMA PackedIs ==
  ASSUME NEW d \in Seq(Byte), NEW size \in {1, 2, 4}, NEW h, HeaderTells(h, size, Len(d)),
         NEW z \in Seq(Byte), z # <<>>, Decodes(z, Len(d), d),
         NEW c, PackedAs(c, size, h, z)
  PROVE  decomp_exec(c) = d /\ decomp_getsize(c) = Len(d) /\ Len(c) = 1 + size + Len(z)
<1>0. h \in Seq(Nat) /\ Len(h) = size
  BY DEF HeaderTells
<1>1. z \in Seq(Nat) /\ Len(z) \in Nat /\ Len(d) \in Nat
  BY BytesAreNat
<1>2. PICK k \in Nat : k = Control(1, size) /\ k \div 16 = 1 /\ k % 16 = size
  BY ControlIs
<1>3. <<k>> \in Seq(Nat) /\ Len(<<k>>) = 1 /\ <<k>>[1] = k
  OBVIOUS
<1>4. PICK u \in Seq(Nat) : u = <<k>> /\ Len(u) = 1 /\ u[1] = k
  BY <1>3
<1>5. PICK p \in Seq(Nat) : /\ p = u \o h /\ Len(p) = Len(u) + Len(h)
                            /\ \A i \in 1 .. Len(u) : p[i] = u[i]
                            /\ \A i \in 1 .. Len(h) : p[Len(u) + i] = h[i]
  BY <1>0, Joined
<1>6. Len(p) = 1 + size /\ p[1] = k /\ \A i \in 1 .. size : p[1 + i] = h[i]
  <2>1. 1 \in 1 .. Len(u)
    BY <1>4
  <2>2. p[1] = k
    BY <1>4, <1>5, <2>1
  <2>3. Len(p) = 1 + size
    BY <1>0, <1>4, <1>5
  <2>4. \A i \in 1 .. size : p[1 + i] = h[i]
    BY <1>0, <1>4, <1>5
  <2> QED
    BY <2>2, <2>3, <2>4
<1>7. c = p \o z
  BY <1>2, <1>4, <1>5 DEF PackedAs
<1>8. /\ c \in Seq(Nat) /\ Len(c) = Len(p) + Len(z)
      /\ \A i \in 1 .. Len(p) : c[i] = p[i]
  <2>1. PICK y \in Seq(Nat) : y = z
    BY <1>1
  <2>2. /\ p \o y \in Seq(Nat) /\ Len(p \o y) = Len(p) + Len(y)
        /\ \A i \in 1 .. Len(p) : (p \o y)[i] = p[i]
    BY Joined
  <2>3. c = p \o y
    BY <1>7, <2>1
  <2> QED
    BY <2>1, <2>2, <2>3
<1>9. Len(c) = 1 + size + Len(z)
  BY <1>6, <1>8
<1>10. c[1] = k /\ \A i \in 1 .. size : c[1 + i] = h[i]
  <2>1. 1 \in 1 .. Len(p)
    BY <1>6
  <2>2. ASSUME NEW i \in 1 .. size PROVE c[1 + i] = h[i]
    <3>1. 1 + i \in 1 .. Len(p)
      BY <1>6
    <3> QED
      BY <1>6, <1>8, <3>1
  <2> QED
    BY <1>6, <1>8, <2>1, <2>2
<1>11. c # <<>>
  <2>1. Len(c) # 0
    BY <1>1, <1>9
  <2> QED
    BY <2>1, EmptySeq
<1>12. LengthBytes(c) = size /\ c[1] \div 16 = 1
  BY <1>2, <1>10 DEF LengthBytes
<1>13. ~WrongHeader(c) /\ Compressed(c)
  BY <1>11, <1>12 DEF WrongHeader, Compressed
<1>14. header_get_data(c, size) = Len(d)
  <2>1. HeaderAt(c, h, size)
    BY <1>10 DEF HeaderAt
  <2> QED
    BY <2>1, HeaderRead
<1>15. SubSeq(c, size + 2, Len(c)) = z
  <2>1. SubSeq(p \o z, Len(p) + 1, Len(p \o z)) = z
    BY <1>1, SecondPart
  <2>2. Len(p) + 1 = size + 2
    BY <1>6
  <2> QED
    BY <1>7, <2>1, <2>2
<1>16. lzf_decompress(z, Len(d)) = d
  BY <1>1, DecodesIs
<1>17. decomp_exec(c) = lzf_decompress(SubSeq(c, size + 2, Len(c)), header_get_data(c, size))
  BY <1>12, <1>13 DEF decomp_exec
<1>18. decomp_getsize(c) = header_get_data(c, size)
  BY <1>12, <1>13 DEF decomp_getsize
<1> QED
  BY <1>9, <1>14, <1>15, <1>16, <1>17, <1>18

(* Unpacking what was packed. *)
LEMMA PackUnpack ==
  ASSUME NEW d \in Seq(Byte), Len(d) < Base * (Base * (Base * Base))
  PROVE  /\ decomp_exec(comp_exec(d)) = d
         /\ decomp_getsize(comp_exec(d)) = Len(d)
         /\ Len(comp_exec(d)) =< Len(d) + 1
<1> DEFINE size == DataSize(Len(d))
           z == IF Len(d) > 2 THEN lzf_compress(d, Len(d) - (1 + size) - 1) ELSE <<>>
<1>0. Len(d) \in Nat
  OBVIOUS
<1>1. size \in {1, 2, 4} /\ HeaderTells(header_set_data(size, Len(d)), size, Len(d))
  BY <1>0, HeaderIs
<1>2. comp_exec(d) = IF z = <<>> THEN <<Control(0, size)>> \o d
                     ELSE <<Control(1, size)>> \o header_set_data(size, Len(d)) \o z
  BY DEF comp_exec
<1> HIDE DEF size
<1>3. CASE z = <<>>
  <2>1. PICK c : c = comp_exec(d) /\ c = <<Control(0, size)>> \o d
    BY <1>2, <1>3
  <2>2. decomp_exec(c) = d /\ decomp_getsize(c) = Len(d) /\ Len(c) = Len(d) + 1
    BY <1>1, <2>1, StoredIs
  <2> QED
    BY <1>0, <2>1, <2>2
<1>4. CASE z # <<>>
  <2>0. PICK n \in Nat, m \in Nat : n = Len(d) /\ m = size
    BY <1>0, <1>1
  <2>1. PICK outLen \in Int : outLen = Len(d) - (1 + size) - 1
    <3>1. n - (1 + m) - 1 \in Int
      OBVIOUS
    <3> QED
      BY <2>0, <3>1
  <2>2. z = lzf_compress(d, outLen) /\ lzf_compress(d, outLen) # <<>>
    BY <1>4, <2>1
  <2>3. z \in Seq(Byte) /\ Len(z) =< outLen /\ Decodes(z, Len(d), d)
    BY <2>2, CompressIs
  <2> HIDE DEF z
  <2>4. PICK c : c = comp_exec(d) /\ c = <<Control(1, size)>> \o header_set_data(size, Len(d)) \o z
    BY <1>2, <1>4
  <2>8. PICK h : h = header_set_data(size, Len(d)) /\ HeaderTells(h, size, Len(d))
    BY <1>1
  <2>9. PackedAs(c, size, h, z) /\ size \in {1, 2, 4}
    BY <1>1, <2>4, <2>8 DEF PackedAs
  <2>5. decomp_exec(c) = d /\ decomp_getsize(c) = Len(d) /\ Len(c) = 1 + size + Len(z)
    BY <1>4, <2>3, <2>8, <2>9, PackedIs
  <2>6. Len(z) \in Nat
    BY <2>3
  <2>7. Len(c) =< Len(d) + 1
    BY <1>0, <1>1, <2>1, <2>3, <2>5, <2>6
  <2> QED
    BY <2>4, <2>5, <2>7
<1> QED
  BY <1>3, <1>4

-----------------------------------------------------------------------------
(* The file library: a block is packed by Pack only, and out holds it until *)
(* the next call.                                                           *)

(* No other step leaves a packed block in out. *)
LEMMA NotPacked ==
  ASSUME LibNext, ~\E block \in Packable : Pack(block), out' # out
  PROVE  out'.op # "pack"
<1>1. ASSUME NEW dev, NEW path, scf_size(dev, path) PROVE out'.op # "pack"
  BY <1>1 DEF scf_size
<1>2. ASSUME NEW dev, NEW path, NEW offset, NEW size, scf_read(dev, path, offset, size) PROVE out'.op # "pack"
  BY <1>2 DEF scf_read, Got
<1>3. ASSUME NEW path, NEW offset, NEW size, ScfReadPc(path, offset, size) PROVE out'.op # "pack"
  BY <1>3 DEF ScfReadPc, Got
<1>4. CASE ScfReadPcPart
  BY <1>4 DEF ScfReadPcPart, Got
<1>5. ASSUME NEW dev, NEW path, scf_delete(dev, path) PROVE out'.op # "pack"
  BY <1>5 DEF scf_delete, Change
<1>6. ASSUME NEW dev, NEW path, scf_mkdir(dev, path) PROVE out'.op # "pack"
  BY <1>6 DEF scf_mkdir, Change
<1>7. ASSUME NEW dev, NEW path, NEW bytes, scf_write(dev, path, bytes) \/ scf_append(dev, path, bytes)
      PROVE  out'.op # "pack"
  BY <1>7 DEF scf_write, scf_append, Change
<1>8. ASSUME NEW dev, NEW path, NEW count, NEW offset, NEW sort, NEW all, NEW filter,
             scf_filelist(dev, path, count, offset, sort, all, filter)
      PROVE  out'.op # "pack"
  BY <1>8 DEF scf_filelist
<1>9. CASE scf_dev_list
  BY <1>9 DEF scf_dev_list
<1>10. ASSUME NEW image, sc_romfs_setdata(image) PROVE out'.op # "pack"
  BY <1>10 DEF sc_romfs_setdata
<1>11. ASSUME NEW path, sc_romfs_get_dataptr(path) PROVE out'.op # "pack"
  BY <1>11 DEF sc_romfs_get_dataptr
<1>12. ASSUME NEW names, GoUp(names) PROVE out'.op # "pack"
  BY <1>12 DEF GoUp
<1>13. CASE Boot \/ World \/ PcReturns
  BY <1>13 DEF Boot, World, PcReturns
<1>14. CASE Return
  BY <1>14 DEF Return, Idle
<1> QED
  BY <1>1, <1>2, <1>3, <1>4, <1>5, <1>6, <1>7, <1>8, <1>9, <1>10, <1>11, <1>12, <1>13, <1>14 DEF LibNext

(* Whatever is packed, and whatever the widths of the format: unpacking     *)
(* gives it back, its length is known before, and packing costs one byte at *)
(* most.  (comp_exec, decomp_exec, decomp_getsize of sc_compress.c.)        *)
THEOREM UnpackingRestores == LibSpec => []RoundTrip
<1>1. LibInit => RoundTrip
  BY DEF LibInit, RoundTrip, Idle
<1>2. ASSUME RoundTrip, [LibNext]_libVars PROVE RoundTrip'
  <2>1. ASSUME NEW block \in Packable, Pack(block) PROVE RoundTrip'
    <3>1. out'.op = "pack" /\ out'.block = block /\ out'.packed = comp_exec(block)
      BY <2>1 DEF Pack
    <3>2. block \in Seq(Byte) /\ Len(block) < Base * (Base * (Base * Base))
      BY FileAssumption DEF FileAssumption, Byte
    <3>3. /\ decomp_exec(comp_exec(block)) = block /\ decomp_getsize(comp_exec(block)) = Len(block)
          /\ Len(comp_exec(block)) =< Len(block) + 1
      BY <3>2, PackUnpack
    <3> QED
      BY <3>1, <3>3 DEF RoundTrip
  <2>2. CASE out' = out
    BY <1>2, <2>2 DEF RoundTrip
  <2>3. CASE LibNext /\ out' # out /\ ~\E block \in Packable : Pack(block)
    <3>1. out'.op # "pack"
      BY <2>3, NotPacked
    <3> QED
      BY <3>1 DEF RoundTrip
  <2>4. LibNext \/ out' = out
    BY <1>2 DEF libVars
  <2> QED
    BY <2>1, <2>2, <2>3, <2>4
<1> QED
  BY <1>1, <1>2, PTL DEF LibSpec

=============================================================================
