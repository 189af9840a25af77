------------------------ MODULE MemoryTransferProofs ------------------------
(***************************************************************************)
(* Proofs about MemoryTransfer, for every alphabet, memory, CRC, set of    *)
(* files and FIFO capacity.                                                *)
(***************************************************************************)
EXTENDS MemoryTransfer, SequenceTheorems, TLAPS

(* Bytes are naturals, and 0 is one. *)
LEMMA ByteFacts == Width \in Nat /\ Width > 6 /\ Byte \subseteq Nat /\ 0 \in Byte /\ 1 \in Byte
  BY WidthAssumption DEF Byte, EXEC_EXT

(* Wrapping an address at Width yields an address. *)
LEMMA WrapType == \A x \in Int : Wrap(x) \in Byte
  BY WidthAssumption DEF Wrap, Byte, EXEC_EXT

(* The checksum is a byte, whatever Crc is. *)
LEMMA ChecksumType == \A s : Checksum(s) \in Byte
  BY WidthAssumption DEF Checksum, Byte, EXEC_EXT

(* The aligned address of a 2- or 4-byte access is an address. *)
LEMMA AlignType == \A a \in Byte, n \in Nat : Align(a, n) \in Byte
  BY WidthAssumption DEF Align, Rw4, Byte, EXEC_EXT

(* Single writes keep the memory well typed. *)
LEMMA StoreType ==
  ASSUME NEW m \in [Byte -> Byte], NEW a \in Byte, NEW b \in Byte
  PROVE  Store(m, a, b) \in [Byte -> Byte]
  BY DEF Store

(* Wide writes keep the memory well typed. *)
LEMMA StoreWordType ==
  ASSUME NEW m \in [Byte -> Byte], NEW a \in Byte, NEW s \in Seq(Byte)
  PROVE  StoreWord(m, a, s) \in [Byte -> Byte]
<1>1. ASSUME NEW c \in Byte, InRange(c, a, Len(s))
      PROVE  s[Wrap(c - a) + 1] \in Byte
  <2>1. c - a \in Int
    BY WidthAssumption DEF Byte, EXEC_EXT
  <2>2. Wrap(c - a) \in Nat
    BY <2>1, WrapType, ByteFacts
  <2>3. Wrap(c - a) + 1 \in 1 .. Len(s)
    BY <1>1, <2>2, LenProperties DEF InRange
  <2> QED
    BY <2>3
<1> QED
  BY <1>1 DEF StoreWord

(* Moving and clearing keep the memory well typed. *)
LEMMA CopystubType ==
  ASSUME NEW m \in [Byte -> Byte], NEW src \in Byte, NEW dst \in Byte,
         NEW n, NEW flags
  PROVE  Copystub(m, src, n, dst, flags) \in [Byte -> Byte]
<1>1. 0 \in Byte
  BY WidthAssumption DEF Byte, EXEC_EXT
<1>2. ASSUME NEW c \in Byte PROVE m[Wrap(src + (c - dst))] \in Byte
  <2>1. src + (c - dst) \in Int
    BY WidthAssumption DEF Byte, EXEC_EXT
  <2> QED
    BY <2>1, WrapType
<1> QED
  BY <1>1, <1>2 DEF Copystub

(* What a download sends is a sequence of dlen bytes. *)
LEMMA SourceType ==
  ASSUME NEW m \in [Byte -> Byte], NEW a \in Byte, NEW n \in Byte
  PROVE  /\ Source(m, a, n) \in Seq(Byte)
         /\ Len(Source(m, a, n)) = n
<1>1. n \in Nat
  BY WidthAssumption DEF Byte, EXEC_EXT
<1>2. ASSUME NEW b \in Byte
      PROVE Slice(m, b, n) \in Seq(Byte) /\ Len(Slice(m, b, n)) = n
  <2>1. \A i \in 1 .. n : m[Wrap(b + i - 1)] \in Byte
    <3>1. \A i \in 1 .. n : b + i - 1 \in Int
      BY <1>1, WidthAssumption DEF Byte
    <3> QED
      BY <3>1, WrapType
  <2> QED
    BY <1>1, <2>1 DEF Slice
<1> QED
  BY <1>1, <1>2, AlignType, MemoryAssumption DEF Source

(***************************************************************************)
(* Type correctness, an invariant that is inductive as it stands: one step *)
(* per action.                                                             *)
(***************************************************************************)
LEMMA InitTypeOK == Init => TypeOK
<1> SUFFICES ASSUME Init PROVE TypeOK
  OBVIOUS
<1>1. 0 \in Byte
  BY WidthAssumption DEF Byte, EXEC_EXT
<1> QED
  BY <1>1, MemoryAssumption, BoundAssumption, EmptySeq
     DEF Init, TypeOK, HostPcs, HostOps, DevPcs

(* The command that a host in its command step sends is a sequence of bytes. *)
LEMMA CommandType ==
  ASSUME TypeOK, hpc = "command"
  PROVE  Command \in Seq(Byte)
<1>1. {addr, size, 0, DOWNLOAD, UPLOAD, EXEC, EXEC_EXT} \subseteq Byte
  BY ByteFacts DEF TypeOK, DOWNLOAD, UPLOAD, EXEC, EXEC_EXT, Byte
<1> QED
  BY <1>1 DEF Command

(* What the host is writing is a sequence of bytes. *)
LEMMA OutgoingType ==
  ASSUME TypeOK
  PROVE  Outgoing \in Seq(Byte)
<1>1. SubSeq(file, sent + 1, Len(file)) \in Seq(Byte)
  BY DEF TypeOK
<1>2. <<Checksum(file)>> \in Seq(Byte)
  BY ChecksumType
<1> QED
  BY <1>1, <1>2, CommandType DEF Outgoing

(* Accepted bytes keep the FIFO well typed and within its capacity. *)
LEMMA AcceptType ==
  ASSUME TypeOK, NEW s \in Seq(Byte), Accept(s)
  PROVE  toDev' \in Seq(Byte) /\ Len(toDev') =< FifoCap
BY DEF TypeOK, Accept

(* Taking a byte from a FIFO keeps it well typed and within its capacity. *)
LEMMA TailType ==
  ASSUME NEW s \in Seq(Byte), s # << >>, Len(s) =< FifoCap
  PROVE  Head(s) \in Byte /\ Tail(s) \in Seq(Byte) /\ Len(Tail(s)) =< FifoCap
BY HeadTailProperties, LenProperties, BoundAssumption

(* The steps of the host process keep every variable in its type. *)
LEMMA HostTypeOK ==
  ASSUME TypeOK, InitComms \/ HostStep \/ WriteError \/ ReadError \/ Signal
  PROVE  TypeOK'
<1> USE DEF HostPcs, HostOps
<1> USE DEF link, work, device
<1>1. CASE InitComms
  <2>1. PICK o \in HostOps, f \in Files \cup {<< >>}, a \in Addresses :
          \E n \in Sizes \cup {0, Len(f)} : Request(o, f, a, n) /\ Begin(o, f, a, n)
    BY <1>1 DEF InitComms
  <2>2. PICK n \in Sizes \cup {0, Len(f)} : Request(o, f, a, n) /\ Begin(o, f, a, n)
    BY <2>1
  <2>3. f \in Seq(Byte) /\ Len(f) \in Nat
    <3>1. f \in Seq(Byte)
      BY InputAssumption, EmptySeq
    <3> QED
      BY <3>1, LenProperties
  <2>4. n \in Nat
    BY <2>3, InputAssumption, ByteFacts
  <2>5. o \in {"upload", "exec"} => n = Len(f)
    BY <2>2 DEF Request
  <2>6. hpc' # "exit" => n \in Byte
    BY <2>2, <2>3, InputAssumption, ByteFacts DEF Begin, Request, Uploadable, Byte
  <2>7. session' \in 0 .. MaxSessions
    BY <1>1, <2>2, BoundAssumption DEF InitComms, Begin, TypeOK
  <2>8. << >> \in Seq(Byte) /\ Len(<< >>) = 0
    BY EmptySeq
  <2>9. /\ hpc' \in HostPcs /\ op' \in HostOps /\ addr' \in Byte
        /\ interrupt' \in BOOLEAN /\ result' \in {0, 1}
    BY <2>2, InputAssumption DEF Begin
  <2>10. synced' \in BOOLEAN /\ started' = {}
    BY <1>1 DEF InitComms
  <2> QED
    BY <1>1, <2>2, <2>3, <2>4, <2>5, <2>6, <2>7, <2>8, <2>9, <2>10, BoundAssumption
       DEF InitComms, Begin, TypeOK
<1>2. CASE SendCommandWithAddressAndLength
  <2>1. toDev' \in Seq(Byte) /\ Len(toDev') =< FifoCap
    BY <1>2, CommandType, AcceptType DEF SendCommandWithAddressAndLength
  <2> QED
    BY <1>2, <2>1 DEF SendCommandWithAddressAndLength, AfterCommand, TypeOK
<1>3. CASE WriteData
  <2>1. PICK n \in 1 .. (Len(file) - sent) :
               Accept(SubSeq(file, sent + 1, sent + n)) /\ sent' = sent + n
    BY <1>3 DEF WriteData
  <2>2. SubSeq(file, sent + 1, sent + n) \in Seq(Byte)
    BY DEF TypeOK
  <2>3. toDev' \in Seq(Byte) /\ Len(toDev') =< FifoCap
    BY <2>1, <2>2, AcceptType
  <2>4. sent' \in 0 .. Len(file)
    BY <2>1 DEF TypeOK
  <2> QED
    BY <1>3, <2>3, <2>4 DEF WriteData, TypeOK
<1>4. CASE WriteChecksum
  <2>1. toDev' \in Seq(Byte) /\ Len(toDev') =< FifoCap
    <3>1. <<Checksum(file)>> \in Seq(Byte)
      BY ChecksumType
    <3> QED
      BY <1>4, <3>1, AcceptType DEF WriteChecksum
  <2> QED
    BY <1>4, <2>1 DEF WriteChecksum, TypeOK
<1>5. CASE ReadResult
  <2>1. fromDev' \in Seq(Byte) /\ Len(fromDev') =< FifoCap
    BY <1>5, TailType DEF ReadResult, TypeOK
  <2>2. hpc' = "exit" /\ result' \in {0, 1}
    BY <1>5 DEF ReadResult, Finish
  <2> QED
    BY <1>5, <2>1, <2>2 DEF ReadResult, TypeOK
<1>6. CASE ReadData
  <2>1. PICK n \in 1 .. Len(fromDev) :
             /\ n =< size - Len(local)
             /\ local' = local \o SubSeq(fromDev, 1, n)
             /\ fromDev' = SubSeq(fromDev, n + 1, Len(fromDev))
    BY <1>6 DEF ReadData
  <2>2. SubSeq(fromDev, 1, n) \in Seq(Byte) /\ Len(SubSeq(fromDev, 1, n)) = n
    BY DEF TypeOK
  <2>3. local' \in Seq(Byte) /\ Len(local') =< size
    BY <2>1, <2>2 DEF TypeOK
  <2>4. fromDev' \in Seq(Byte) /\ Len(fromDev') =< FifoCap
    <3>1. SubSeq(fromDev, n + 1, Len(fromDev)) \in Seq(Byte)
      BY DEF TypeOK
    <3>2. Len(SubSeq(fromDev, n + 1, Len(fromDev))) = Len(fromDev) - n
      BY DEF TypeOK
    <3> QED
      BY <2>1, <3>1, <3>2, BoundAssumption DEF TypeOK
  <2> QED
    BY <1>6, <2>3, <2>4 DEF ReadData, TypeOK
<1>7. CASE ReadChecksum
  <2>1. fromDev' \in Seq(Byte) /\ Len(fromDev') =< FifoCap
    BY <1>7, TailType DEF ReadChecksum, TypeOK
  <2>2. hpc' = "exit" /\ result' \in {0, 1}
    BY <1>7 DEF ReadChecksum, Finish
  <2> QED
    BY <1>7, <2>1, <2>2 DEF ReadChecksum, TypeOK
<1>8. CASE CloseComms
  <2>1. << >> \in Seq(Byte) /\ Len(<< >>) =< FifoCap
    BY EmptySeq, BoundAssumption
  <2>2. hpc' = "closed"
    BY <1>8 DEF CloseComms
  <2>3. /\ toDev' \in Seq(Byte) /\ Len(toDev') =< FifoCap
        /\ fromDev' \in Seq(Byte) /\ Len(fromDev') =< FifoCap
    BY <1>8, <2>1 DEF CloseComms, TypeOK
  <2> QED
    BY <1>8, <2>2, <2>3 DEF CloseComms, TypeOK
<1>9. CASE WriteError
  <2>1. PICK k \in 0 .. Len(Outgoing) : Accept(SubSeq(Outgoing, 1, k))
    BY <1>9 DEF WriteError
  <2>2. SubSeq(Outgoing, 1, k) \in Seq(Byte)
    BY OutgoingType
  <2>3. toDev' \in Seq(Byte) /\ Len(toDev') =< FifoCap
    BY <2>1, <2>2, AcceptType
  <2> QED
    BY <1>9, <2>3 DEF WriteError, Finish, TypeOK
<1>10. CASE ReadError
  BY <1>10 DEF ReadError, Finish, TypeOK
<1>11. CASE Signal
  BY <1>11 DEF Signal, TypeOK
<1> QED
  BY <1>1, <1>2, <1>3, <1>4, <1>5, <1>6, <1>7, <1>8, <1>9, <1>10, <1>11 DEF HostStep

(* The steps of the console keep every variable in its type. *)
LEMMA DeviceTypeOK ==
  ASSUME TypeOK, DeviceStep \/ PowerCycle
  PROVE  TypeOK'
<1> USE DEF host, link, work, DevPcs
<1> DEFINE Read == /\ toDev' \in Seq(Byte) /\ Len(toDev') =< FifoCap
                   /\ Head(toDev) \in Byte
                   /\ fromDev' = fromDev
           Wrote == /\ fromDev' \in Seq(Byte) /\ Len(fromDev') =< FifoCap
                    /\ toDev' = toDev
<1>r. ASSUME RecvByte PROVE Read
  BY <1>r, TailType DEF RecvByte, TypeOK
<1>w. ASSUME NEW b \in Byte, SendByte(b) PROVE Wrote
  BY <1>w, BoundAssumption DEF SendByte, TypeOK
<1> HIDE DEF Read, Wrote
<1>1. CASE CheckUsbdc
  <2>1. Read
    BY <1>1, <1>r DEF CheckUsbdc
  <2> QED
    BY <1>1, <2>1, ByteFacts, MemoryAssumption, EmptySeq DEF CheckUsbdc, Read, TypeOK
<1>2. CASE RecvAddress
  <2>1. Read
    BY <1>2, <1>r DEF RecvAddress
  <2> QED
    BY <1>2, <2>1 DEF RecvAddress, Start, Read, TypeOK
<1>3. CASE RecvLength
  <2>1. Read
    BY <1>3, <1>r DEF RecvLength
  <2> QED
    <3>1. dlen' \in Byte /\ di' = di /\ di = 0
      BY <1>3, <2>1 DEF RecvLength, Read, TypeOK
    <3>2. di' =< dlen'
      BY <3>1, ByteFacts
    <3>3. dpc' \in {"send", "data", "flags"}
      BY <1>3 DEF RecvLength
    <3> QED
      BY <1>3, <2>1, <3>1, <3>2, <3>3 DEF RecvLength, Read, TypeOK
<1>4. CASE RecvFlags
  <2>1. Read
    BY <1>4, <1>r DEF RecvFlags
  <2>2. mem' \in [Byte -> Byte]
    <3>1. mem \in [Byte -> Byte] /\ daddr \in Byte /\ Head(toDev) \in Byte
      BY <2>1 DEF Read, TypeOK
    <3>2. Copystub(mem, daddr, dlen, Head(toDev), 3) \in [Byte -> Byte]
      BY <3>1, CopystubType
    <3> QED
      BY <1>4, <3>1, <3>2 DEF RecvFlags
  <2>3. /\ dpc' \in {"running", "data"} /\ di' = 0 /\ dlen' = dlen
        /\ dlen \in Byte /\ 0 =< dlen
    BY <1>4, ByteFacts DEF RecvFlags, Start, TypeOK
  <2>4. started' \subseteq ({"EXEC", "COPYEXEC", "EXEC_EXT"} \X Byte)
    BY <1>4, <2>1 DEF RecvFlags, Start, Read, TypeOK
  <2> QED
    BY <1>4, <2>1, <2>2, <2>3, <2>4, ByteFacts DEF RecvFlags, Read, TypeOK
<1>5. CASE RecvData
  <2>1. Read
    BY <1>5, <1>r DEF RecvData
  <2>2. di' \in Byte /\ di' =< dlen
    <3>1. di \in Nat /\ dlen \in 0 .. (Width - 1) /\ di < dlen /\ di' = di + 1
      BY <1>5, ByteFacts DEF RecvData, TypeOK, Byte
    <3> QED
      BY <3>1, ByteFacts DEF Byte
  <2>3. dbuf' \in Seq(Byte) /\ mem' \in [Byte -> Byte]
    <3>1. CASE Buffered
      <4>1. Append(dbuf, Head(toDev)) \in Seq(Byte)
        BY <2>1 DEF Read, TypeOK
      <4>2. Align(daddr, dlen) \in Byte
        BY AlignType, ByteFacts DEF TypeOK
      <4> QED
        <5>1. mem \in [Byte -> Byte]
          BY DEF TypeOK
        <5>2. StoreWord(mem, Align(daddr, dlen), Append(dbuf, Head(toDev))) \in [Byte -> Byte]
          BY <4>1, <4>2, <5>1, StoreWordType
        <5> QED
          BY <1>5, <3>1, <4>1, <5>1, <5>2 DEF RecvData
    <3>2. CASE ~Buffered
      <4>1. Target \in Byte
        BY MemoryAssumption DEF Target, LoadAddress, TypeOK
      <4>2. Wrap(Target + di) \in Byte
        BY <4>1, WrapType, ByteFacts DEF TypeOK
      <4> QED
        <5>1. mem \in [Byte -> Byte] /\ dbuf \in Seq(Byte) /\ Head(toDev) \in Byte
          BY <2>1 DEF Read, TypeOK
        <5>2. Store(mem, Wrap(Target + di), Head(toDev)) \in [Byte -> Byte]
          BY <4>2, <5>1, StoreType
        <5> QED
          BY <1>5, <3>2, <5>1, <5>2 DEF RecvData
    <3> QED
      BY <3>1, <3>2
  <2> QED
    BY <1>5, <2>1, <2>2, <2>3 DEF RecvData, Read, TypeOK
<1>6. CASE RecvChecksum
  <2>1. Read
    BY <1>6, <1>r DEF RecvChecksum
  <2> QED
    BY <1>6, <2>1, ByteFacts DEF RecvChecksum, Read, TypeOK
<1>7. CASE SendReply
  <2>1. Wrote
    BY <1>7, <1>w DEF SendReply, TypeOK
  <2>2. mem' \in [Byte -> Byte]
    <3>1. Target \in Byte
      BY MemoryAssumption DEF Target, LoadAddress, TypeOK
    <3>2. mem \in [Byte -> Byte] /\ daddr \in Byte
      BY DEF TypeOK
    <3>3. Copystub(mem, Target, dlen, daddr, dflags) \in [Byte -> Byte]
      BY <3>1, <3>2, CopystubType
    <3> QED
      BY <1>7, <3>2, <3>3 DEF SendReply
  <2> QED
    BY <1>7, <2>1, <2>2 DEF SendReply, Start, Wrote, TypeOK
<1>8. CASE SendData
  <2>1. Source(mem, daddr, dlen)[di + 1] \in Byte
    <3>1. /\ Source(mem, daddr, dlen) \in Seq(Byte)
          /\ Len(Source(mem, daddr, dlen)) = dlen
      BY SourceType DEF TypeOK
    <3>2. di + 1 \in 1 .. dlen
      BY <1>8, ByteFacts DEF SendData, TypeOK
    <3> QED
      BY <3>1, <3>2, ElementOfSeq
  <2>2. Wrote
    BY <1>8, <2>1, <1>w DEF SendData
  <2>3. di' \in Byte /\ di' =< dlen
    BY <1>8, ByteFacts DEF SendData, TypeOK, Byte
  <2> QED
    BY <1>8, <2>2, <2>3 DEF SendData, Wrote, TypeOK
<1>9. CASE SendChecksum
  <2>1. Wrote
    BY <1>9, <1>w, ChecksumType DEF SendChecksum
  <2> QED
    BY <1>9, <2>1 DEF SendChecksum, Wrote, TypeOK
<1>10. CASE Poll
  BY <1>10 DEF Poll, TypeOK
<1>11. CASE PowerCycle
  BY <1>11, ByteFacts, MemoryAssumption, EmptySeq DEF PowerCycle, TypeOK
<1> QED
  BY <1>1, <1>2, <1>3, <1>4, <1>5, <1>6, <1>7, <1>8, <1>9, <1>10, <1>11 DEF DeviceStep

(***************************************************************************)
(* In every behaviour, for every value of the constants, each variable     *)
(* keeps its type: no FIFO overruns its capacity, no loop of the console   *)
(* indexes past the length it received, no download grows past its size.   *)
(***************************************************************************)
THEOREM TypeCorrect == Spec => []TypeOK
<1>1. Init => TypeOK
  BY InitTypeOK
<1>2. TypeOK /\ [Next]_vars => TypeOK'
  <2> SUFFICES ASSUME TypeOK, [Next]_vars PROVE TypeOK'
    OBVIOUS
  <2>1. CASE Next
    BY <2>1, HostTypeOK, DeviceTypeOK DEF Next
  <2>2. CASE UNCHANGED vars
    BY <2>2 DEF TypeOK, vars, host, link, work, device
  <2> QED
    BY <2>1, <2>2
<1> QED
  BY <1>1, <1>2, PTL DEF Spec

-----------------------------------------------------------------------------
(* Address arithmetic. *)

(* Remainders of the numbers that occur as sums and differences of addresses. *)
LEMMA WrapValue ==
  /\ \A x \in 0 .. (Width - 1) : Wrap(x) = x
  /\ \A x \in Width .. (2 * Width - 1) : Wrap(x) = x - Width
  /\ \A x \in (-Width) .. (-1) : Wrap(x) = x + Width
<1>1. Width \in Nat /\ Width > 0
  BY ByteFacts
<1>2. \A x \in 0 .. (Width - 1) : x % Width = x
  BY <1>1
<1>3. \A x \in Width .. (2 * Width - 1) : x % Width = x - Width
  BY <1>1
<1>4. \A x \in (-Width) .. (-1) : x % Width = x + Width
  BY <1>1
<1> QED
  BY <1>2, <1>3, <1>4 DEF Wrap

(* Cell k of a range of addresses is at distance k from its start. *)
LEMMA WrapBack ==
  ASSUME NEW a \in Byte, NEW k \in Byte
  PROVE  Wrap(a + k) \in Byte /\ Wrap(Wrap(a + k) - a) = k
<1>1. Width \in Nat /\ Width > 0 /\ a \in 0 .. (Width - 1) /\ k \in 0 .. (Width - 1)
  BY ByteFacts DEF Byte
<1>2. Wrap(a + k) = a + k \/ Wrap(a + k) = (a + k) - Width
  BY <1>1, WrapValue
<1>3. Wrap(k) = k /\ Wrap(k - Width) = k
  BY <1>1, WrapValue
<1>4. a + k \in Int
  BY <1>1
<1> QED
  BY <1>1, <1>2, <1>3, <1>4, WrapType

(* Different cells of a range have different addresses, and lie in it. *)
LEMMA RangeCells ==
  ASSUME NEW a \in Byte, NEW n \in Byte, NEW k \in 0 .. (n - 1)
  PROVE  /\ k \in Byte
         /\ Wrap(a + k) \in Byte
         /\ InRange(Wrap(a + k), a, n)
         /\ \A j \in 0 .. (n - 1) : Wrap(a + j) = Wrap(a + k) => j = k
<1>1. n \in Nat /\ \A j \in 0 .. (n - 1) : j \in Byte
  BY ByteFacts DEF Byte
<1>2. \A j \in 0 .. (n - 1) : Wrap(Wrap(a + j) - a) = j
  BY <1>1, WrapBack
<1> QED
  BY <1>1, <1>2, WrapBack DEF InRange

(* A wide write to writable memory stores the sequence. *)
LEMMA StoreWordStores ==
  ASSUME NEW m \in [Byte -> Byte], NEW a \in Byte, NEW s \in Seq(Byte),
         Len(s) \in Byte, Writable(a, Len(s))
  PROVE  Slice(StoreWord(m, a, s), a, Len(s)) = s
<1> DEFINE t == Slice(StoreWord(m, a, s), a, Len(s))
<1>1. Len(s) \in Nat
  BY LenProperties
<1>2. ASSUME NEW i \in 1 .. Len(s) PROVE t[i] = s[i]
  <2>1. i - 1 \in 0 .. (Len(s) - 1) /\ a + (i - 1) = a + i - 1
    BY <1>1, ByteFacts
  <2> DEFINE c == Wrap(a + i - 1)
  <2>2. c \in Byte /\ InRange(c, a, Len(s)) /\ Wrap(c - a) = i - 1
    BY <2>1, RangeCells, WrapBack
  <2>3. c \notin Rom
    BY <2>2 DEF Writable
  <2>4. StoreWord(m, a, s)[c] = s[Wrap(c - a) + 1]
    BY <2>2, <2>3 DEF StoreWord
  <2>5. t[i] = StoreWord(m, a, s)[c]
    BY DEF Slice
  <2> QED
    BY <1>1, <2>2, <2>4, <2>5
<1>3. t = [i \in 1 .. Len(s) |-> t[i]]
  BY DEF Slice
<1>4. s = [i \in 1 .. Len(s) |-> s[i]]
  BY LenProperties
<1> QED
  BY <1>2, <1>3, <1>4

-----------------------------------------------------------------------------
(* The upload stream. *)

(* The items of the stream, and how much of it the host has put in. *)
LEMMA StreamFacts ==
  ASSUME TypeOK, op = "upload", ~Done, hpc # "receive"
  PROVE  /\ size \in Byte /\ size \in Nat /\ Len(file) = size
         /\ Stream \in Seq(Byte) /\ Len(Stream) = size + 4
         /\ Stream[1] = UPLOAD /\ Stream[2] = addr /\ Stream[3] = size
         /\ \A k \in 1 .. size : Stream[k + 3] = file[k]
         /\ Stream[size + 4] = Checksum(file)
         /\ Put \in 0 .. (size + 4)
<1>1. size \in Byte /\ size \in Nat /\ Len(file) = size /\ file \in Seq(Byte) /\ addr \in Byte
  BY ByteFacts DEF TypeOK, Done
<1>2. UPLOAD \in Byte
  BY ByteFacts DEF UPLOAD, Byte
<1> DEFINE c == <<UPLOAD, addr, size>>
           d == Append(file, Checksum(file))
<1>3. c \in Seq(Byte) /\ Len(c) = 3 /\ c[1] = UPLOAD /\ c[2] = addr /\ c[3] = size
  BY <1>1, <1>2
<1>4. /\ d \in Seq(Byte) /\ Len(d) = size + 1 /\ d[size + 1] = Checksum(file)
      /\ \A k \in 1 .. size : d[k] = file[k]
  BY <1>1, ChecksumType
<1>5. Stream = c \o d
  BY DEF Stream
<1> HIDE DEF c, d
<1>6. /\ Stream \in Seq(Byte) /\ Len(Stream) = 3 + (size + 1)
      /\ \A i \in 1 .. (3 + (size + 1)) :
            Stream[i] = IF i =< 3 THEN c[i] ELSE d[i - 3]
  <2>1. /\ c \o d \in Seq(Byte) /\ Len(c \o d) = Len(c) + Len(d)
        /\ \A i \in 1 .. (Len(c) + Len(d)) :
              (c \o d)[i] = IF i =< Len(c) THEN c[i] ELSE d[i - Len(c)]
    BY <1>3, <1>4, ConcatProperties
  <2> QED
    BY <1>3, <1>4, <1>5, <2>1
<1>7. \A k \in 1 .. (size + 1) : Stream[k + 3] = d[k]
  BY <1>1, <1>6
<1>8. Stream[1] = c[1] /\ Stream[2] = c[2] /\ Stream[3] = c[3]
  BY <1>1, <1>6
<1>9. Stream[size + 4] = d[size + 1]
  BY <1>1, <1>7
<1>10. Put \in 0 .. (size + 4)
  BY <1>1 DEF Put, TypeOK
<1> QED
  BY <1>1, <1>3, <1>4, <1>6, <1>7, <1>8, <1>9, <1>10

(* What the FIFO holds when the console reads from it. *)
LEMMA TakeItem ==
  ASSUME TypeOK, op = "upload", ~Done, hpc # "receive",
         NEW g \in 0 .. Put, toDev = SubSeq(Stream, g + 1, Put), toDev # << >>
  PROVE  /\ g + 1 \in 1 .. Put
         /\ Head(toDev) = Stream[g + 1]
         /\ Tail(toDev) = SubSeq(Stream, g + 2, Put)
<1>1. Stream \in Seq(Byte) /\ Len(Stream) \in Nat /\ Put \in 0 .. Len(Stream) /\ g \in Nat
  BY StreamFacts
<1>2. g < Put
  <2>1. SUFFICES ASSUME ~(g < Put) PROVE FALSE
    OBVIOUS
  <2>2. Put < g + 1 /\ Put \in Int /\ g + 1 \in Int
    BY <1>1, <2>1
  <2> QED
    BY <2>2, SubSeqEmpty
<1>3. g + 1 \in 1 .. Len(Stream) /\ Put \in (g + 1) .. Len(Stream)
  BY <1>1, <1>2
<1>4. Head(SubSeq(Stream, g + 1, Put)) = Stream[g + 1]
  BY <1>1, <1>3, HeadTailOfSubSeq
<1>5. Tail(SubSeq(Stream, g + 1, Put)) = SubSeq(Stream, (g + 1) + 1, Put)
  BY <1>1, <1>3, HeadTailOfSubSeq
<1>6. (g + 1) + 1 = g + 2
  BY <1>1
<1> QED
  BY <1>1, <1>2, <1>4, <1>5, <1>6

(* What the host adds continues the part of the stream in the FIFO. *)
LEMMA PutItems ==
  ASSUME TypeOK, op = "upload", ~Done, hpc # "receive",
         NEW g \in 0 .. Put, toDev = SubSeq(Stream, g + 1, Put),
         NEW q \in Put .. (size + 4),
         NEW s, s = SubSeq(Stream, Put + 1, q)
  PROVE  toDev \o s = SubSeq(Stream, g + 1, q)
<1>1. Stream \in Seq(Byte) /\ Len(Stream) = size + 4 /\ size \in Nat /\ Put \in 0 .. (size + 4)
  BY StreamFacts
<1>2. /\ g + 1 \in 1 .. (Len(Stream) + 1)
      /\ Put \in ((g + 1) - 1) .. Len(Stream)
      /\ q \in Put .. Len(Stream)
  BY <1>1
<1> QED
  BY <1>1, <1>2, ConcatAdjacentSubSeq

(* A position of the console does not depend on the host's own variables. *)
LEMMA AtStable ==
  ASSUME NEW g, At(g), UNCHANGED <<op, file, addr, size, fromDev, device>>
  PROVE  At(g)'
BY DEF At, Progress, Stored, Verified, device, work

(* The steps of the host keep UploadInv. *)
LEMMA HostUploadInv ==
  ASSUME TypeOK, UploadInv,
         InitComms \/ HostStep \/ WriteError \/ ReadError \/ Signal
  PROVE  UploadInv'
<1> SUFFICES ASSUME synced', op' = "upload", ~interrupt'
             PROVE  /\ hpc' # "receive"
                    /\ hpc' = "command" => sent' = 0
                    /\ ~Done' => \E g \in 0 .. Put' :
                          toDev' = SubSeq(Stream', g + 1, Put') /\ At(g)'
                    /\ Done' /\ result' = 1 =>
                          Stored' /\ Verified' /\ dpc' = "idle" /\ toDev' = << >>
  BY DEF UploadInv
<1>1. CASE InitComms
  <2>1. /\ hpc' \in {"command", "exit"} /\ result' = 0 /\ sent' = 0
        /\ toDev' = << >> /\ fromDev' = << >>
        /\ dpc \in {"idle", "running"} /\ dpc' = dpc
    BY <1>1 DEF InitComms, Begin
  <2>2. CASE hpc' = "command"
    <3>1. Put' = 0
      BY <2>2 DEF Put
    <3>2. SubSeq(Stream', 0 + 1, 0) = << >>
      BY SubSeqEmpty
    <3>3. At(0)'
      BY <2>1 DEF At
    <3> QED
      BY <2>1, <2>2, <3>1, <3>2, <3>3 DEF Done
  <2> QED
    BY <2>1, <2>2 DEF Done
<1>2. CASE SendCommandWithAddressAndLength
  <2>1. /\ hpc = "command" /\ hpc' = "data" /\ sent' = sent /\ sent = 0
        /\ synced /\ op = "upload" /\ ~interrupt /\ ~Done
        /\ toDev' = toDev \o <<UPLOAD, addr, size>>
        /\ UNCHANGED <<op, file, addr, size, fromDev, device>>
    BY <1>2 DEF SendCommandWithAddressAndLength, Accept, Command, AfterCommand, UploadInv, Done
  <2>2. PICK g \in 0 .. Put : toDev = SubSeq(Stream, g + 1, Put) /\ At(g)
    BY <2>1 DEF UploadInv
  <2>3. Put = 0 /\ Put' = 3 /\ g = 0
    BY <2>1, <2>2 DEF Put
  <2>4. /\ Stream \in Seq(Byte) /\ Len(Stream) = size + 4 /\ size \in Nat
        /\ Stream[1] = UPLOAD /\ Stream[2] = addr /\ Stream[3] = size
    BY <2>1, StreamFacts
  <2>5. <<UPLOAD, addr, size>> = SubSeq(Stream, 0 + 1, 3)
    BY <2>4
  <2>6. toDev' = SubSeq(Stream, g + 1, 3)
    BY <2>1, <2>2, <2>3, <2>4, <2>5, PutItems
  <2>7. Stream' = Stream /\ At(g)'
    BY <2>1, <2>2, AtStable DEF Stream
  <2>8. g \in 0 .. Put'
    BY <2>3
  <2> QED
    BY <2>1, <2>3, <2>6, <2>7, <2>8 DEF Done
<1>3. CASE WriteData
  <2>1. PICK n \in 1 .. (Len(file) - sent) :
             Accept(SubSeq(file, sent + 1, sent + n)) /\ sent' = sent + n
    BY <1>3 DEF WriteData
  <2>2. /\ hpc = "data" /\ hpc' = "data" /\ synced /\ op = "upload" /\ ~interrupt /\ ~Done
        /\ UNCHANGED <<op, file, addr, size, fromDev, device>>
    BY <1>3 DEF WriteData, Done
  <2>3. PICK g \in 0 .. Put : toDev = SubSeq(Stream, g + 1, Put) /\ At(g)
    BY <2>2 DEF UploadInv
  <2>4. Put = 3 + sent /\ Put' = 3 + (sent + n)
    BY <2>1, <2>2 DEF Put
  <2>5. /\ Stream \in Seq(Byte) /\ Len(Stream) = size + 4 /\ size \in Nat /\ Len(file) = size
        /\ \A k \in 1 .. size : Stream[k + 3] = file[k]
    BY <2>2, StreamFacts
  <2>6. sent \in Nat /\ n \in Nat /\ sent + n =< size
    BY <2>5 DEF TypeOK
  <2>7. SubSeq(file, sent + 1, sent + n) = SubSeq(Stream, Put + 1, Put')
    <3> DEFINE s == SubSeq(file, sent + 1, sent + n)
               t == SubSeq(Stream, Put + 1, Put')
    <3>1. file \in Seq(Byte)
      BY DEF TypeOK
    <3>2. s \in Seq(Byte) /\ Len(s) = n /\ \A i \in 1 .. n : s[i] = file[sent + i]
      <4>1. \A i \in (sent + 1) .. (sent + n) : file[i] \in Byte
        BY <2>5, <2>6, <3>1
      <4>2. /\ s \in Seq(Byte)
            /\ Len(s) = IF sent + 1 <= sent + n THEN (sent + n) - (sent + 1) + 1 ELSE 0
            /\ \A i \in 1 .. ((sent + n) - (sent + 1) + 1) : s[i] = file[(sent + 1) + i - 1]
        BY <2>6, <4>1, SubSeqProperties
      <4> QED
        BY <2>6, <4>2
    <3>3. t \in Seq(Byte) /\ Len(t) = n /\ \A i \in 1 .. n : t[i] = Stream[(sent + i) + 3]
      BY <2>4, <2>5, <2>6
    <3>4. \A i \in 1 .. n : sent + i \in 1 .. size
      BY <2>6, <2>5
    <3>5. \A i \in 1 .. n : s[i] = t[i]
      BY <2>5, <3>2, <3>3, <3>4
    <3> HIDE DEF s, t
    <3>6. s = t
      BY <3>2, <3>3, <3>5, SeqEqual
    <3> QED
      BY <3>6 DEF s, t
  <2>8. toDev' = SubSeq(Stream, g + 1, Put')
    <3>1. Put' \in Put .. (size + 4)
      BY <2>4, <2>5, <2>6
    <3>2. toDev' = toDev \o SubSeq(Stream, Put + 1, Put')
      BY <2>1, <2>7 DEF Accept
    <3> QED
      BY <2>2, <2>3, <3>1, <3>2, PutItems
  <2>9. Stream' = Stream /\ At(g)'
    BY <2>2, <2>3, AtStable DEF Stream
  <2>10. g \in 0 .. Put'
    BY <2>3, <2>4, <2>6
  <2> QED
    BY <2>2, <2>8, <2>9, <2>10 DEF Done
<1>4. CASE WriteChecksum
  <2>1. /\ hpc = "data" /\ hpc' = "result" /\ synced /\ op = "upload" /\ ~interrupt /\ ~Done
        /\ sent = Len(file)
        /\ toDev' = toDev \o <<Checksum(file)>>
        /\ UNCHANGED <<op, file, addr, size, fromDev, device>>
    BY <1>4 DEF WriteChecksum, Accept, Done
  <2>2. PICK g \in 0 .. Put : toDev = SubSeq(Stream, g + 1, Put) /\ At(g)
    BY <2>1 DEF UploadInv
  <2>3. /\ Stream \in Seq(Byte) /\ Len(Stream) = size + 4 /\ size \in Nat /\ Len(file) = size
        /\ Stream[size + 4] = Checksum(file)
    BY <2>1, StreamFacts
  <2>4. Put = size + 3 /\ Put' = size + 4
    BY <2>1, <2>3 DEF Put
  <2>5. <<Checksum(file)>> = SubSeq(Stream, Put + 1, size + 4)
    BY <2>3, <2>4
  <2>6. toDev' = SubSeq(Stream, g + 1, size + 4)
    BY <2>1, <2>2, <2>3, <2>4, <2>5, PutItems
  <2>7. Stream' = Stream /\ At(g)'
    BY <2>1, <2>2, AtStable DEF Stream
  <2>8. g \in 0 .. Put'
    BY <2>2, <2>3, <2>4
  <2> QED
    BY <2>1, <2>4, <2>6, <2>7, <2>8 DEF Done
<1>5. CASE ReadResult
  <2>1. /\ hpc = "result" /\ hpc' = "exit" /\ synced /\ op = "upload" /\ ~interrupt /\ ~Done
        /\ fromDev # << >> /\ result' = (IF Head(fromDev) = 0 THEN 1 ELSE 0)
        /\ UNCHANGED <<op, file, addr, size, toDev, device>>
    BY <1>5 DEF ReadResult, Finish, Done
  <2>2. PICK g \in 0 .. Put : toDev = SubSeq(Stream, g + 1, Put) /\ At(g)
    BY <2>1 DEF UploadInv
  <2>3. /\ g = size + 4 /\ Stored /\ dpc = "idle"
        /\ \E r \in Byte : fromDev = <<r>> /\ (r = 0 => Verified)
    BY <2>1, <2>2 DEF At
  <2>4. Put = size + 4 /\ size \in Nat
    BY <2>1, StreamFacts DEF Put
  <2>5. toDev = << >>
    BY <2>2, <2>3, <2>4, SubSeqEmpty
  <2>6. result' = 1 => Verified
    BY <2>1, <2>3
  <2>7. (Stored <=> Stored') /\ (Verified <=> Verified') /\ dpc' = dpc
    BY <2>1 DEF Stored, Verified, device
  <2> QED
    BY <2>1, <2>3, <2>5, <2>6, <2>7 DEF Done
<1>6. CASE ReadData \/ ReadChecksum
  BY <1>6 DEF ReadData, ReadChecksum, UploadInv
<1>7. CASE CloseComms
  <2>1. /\ hpc = "exit" /\ hpc' = "closed" /\ result' = result
        /\ synced /\ op = "upload" /\ ~interrupt /\ Done
        /\ toDev' = << >> \/ toDev' = toDev
        /\ UNCHANGED <<op, file, addr, size, device>>
    BY <1>7 DEF CloseComms, Done, link
  <2>2. (Stored <=> Stored') /\ (Verified <=> Verified') /\ dpc' = dpc
    BY <2>1 DEF Stored, Verified, device
  <2> QED
    BY <2>1, <2>2 DEF UploadInv, Done
<1>8. CASE WriteError \/ ReadError
  <2>1. hpc' = "exit" /\ result' = 0
    BY <1>8 DEF WriteError, ReadError, Finish
  <2> QED
    BY <2>1 DEF Done
<1>9. CASE Signal
  BY <1>9 DEF Signal
<1> QED
  BY <1>1, <1>2, <1>3, <1>4, <1>5, <1>6, <1>7, <1>8, <1>9 DEF HostStep

(* The last data byte of the byte loop completes the file in memory. *)
LEMMA ProgressStored ==
  ASSUME TypeOK, size \in Byte, Len(file) = size, Progress(size)
  PROVE  Stored
<1>1. CASE Rw4(size)
  BY <1>1 DEF Progress
<1>2. CASE ~Rw4(size)
  <2>1. Align(addr, size) = addr
    BY <1>2 DEF Align
  <2>2. ASSUME Writable(addr, size) PROVE Slice(mem, addr, size) = file
    <3>1. \A i \in 1 .. size : mem[Wrap(addr + i - 1)] = file[i]
      BY <1>2, <2>2 DEF Progress
    <3>2. file = [i \in 1 .. size |-> file[i]]
      BY LenProperties DEF TypeOK
    <3> QED
      BY <3>1, <3>2 DEF Slice
  <2> QED
    BY <2>1, <2>2 DEF Stored
<1> QED
  BY <1>1, <1>2

(* One more data byte. *)
LEMMA ProgressStep ==
  ASSUME TypeOK, op = "upload", size \in Byte, Len(file) = size,
         RecvData, dcmd = UPLOAD, daddr = addr, dlen = size, Progress(di),
         Head(toDev) = file[di + 1]
  PROVE  Progress(di)'
<1>1. /\ UNCHANGED <<file, addr, size>> /\ di \in Nat /\ di < size /\ size \in Nat
      /\ file \in Seq(Byte) /\ addr \in Byte /\ mem \in [Byte -> Byte]
  BY ByteFacts DEF RecvData, TypeOK, host
<1>d. di' = di + 1
  BY DEF RecvData
<1>2. CASE Rw4(size)
  <2>1. /\ dbuf = SubSeq(file, 1, di) /\ dbuf' = Append(dbuf, file[di + 1])
        /\ mem' = IF di + 1 = size
                  THEN StoreWord(mem, Align(addr, size), Append(dbuf, file[di + 1]))
                  ELSE mem
    BY <1>2 DEF Progress, RecvData, Buffered
  <2>2. dbuf' = SubSeq(file, 1, di + 1)
    <3>1. /\ di + 1 \in 1 .. Len(file) /\ 1 \in 1 .. Len(file)
          /\ (di + 1) - 1 = di
      BY <1>1
    <3>2. SubSeq(file, 1, di + 1) = SubSeq(file, 1, di) \o <<file[di + 1]>>
      BY <1>1, <3>1, SubSeqRecursiveSecond
    <3>3. SubSeq(file, 1, di) \in Seq(Byte) /\ file[di + 1] \in Byte
      BY <1>1, <3>1
    <3> QED
      BY <2>1, <3>2, <3>3
  <2>3. ASSUME di + 1 = size PROVE Stored'
    <3>1. dbuf' = file
      BY <1>1, <2>2, <2>3, SubSeqFull
    <3>2. mem' = StoreWord(mem, Align(addr, size), file)
      BY <2>1, <2>3, <3>1
    <3>3. Align(addr, size) \in Byte
      BY <1>1, AlignType
    <3>4. Writable(Align(addr, size), size) => Slice(mem', Align(addr, size), size) = file
      <4>1. Len(file) \in Byte
        OBVIOUS
      <4>2. Writable(Align(addr, size), Len(file))
               => Slice(StoreWord(mem, Align(addr, size), file), Align(addr, size), Len(file)) = file
        BY <1>1, <3>3, <4>1, StoreWordStores
      <4> QED
        BY <3>2, <4>2
    <3>5. Align(addr', size') = Align(addr, size)
      BY <1>1
    <3> QED
      BY <1>1, <3>4, <3>5 DEF Stored
  <2> QED
    BY <1>1, <1>d, <1>2, <2>2, <2>3 DEF Progress
<1>3. CASE ~Rw4(size)
  <2>1. mem' = Store(mem, Wrap(addr + di), file[di + 1])
    BY <1>3, <1>1 DEF RecvData, Buffered, Target, UPLOAD, EXEC_EXT
  <2>2. ASSUME Writable(addr, size), NEW i \in 1 .. (di + 1)
        PROVE  mem'[Wrap(addr + i - 1)] = file[i]
    <3>1. /\ Wrap(addr + di) \in Byte
          /\ InRange(Wrap(addr + di), addr, size)
          /\ \A j \in 0 .. (size - 1) : Wrap(addr + j) = Wrap(addr + di) => j = di
      <4>1. di \in 0 .. (size - 1)
        BY <1>1
      <4> QED
        BY <1>1, <4>1, RangeCells
    <3>2. mem' = [mem EXCEPT ![Wrap(addr + di)] = file[di + 1]]
      BY <2>1, <2>2, <3>1 DEF Store, Writable
    <3>3. i - 1 \in 0 .. (size - 1) /\ addr + i - 1 = addr + (i - 1)
      BY <1>1, ByteFacts
    <3>4. Wrap(addr + (i - 1)) \in Byte
      BY <1>1, <3>3, RangeCells
    <3>5. CASE i = di + 1
      <4>1. addr + (i - 1) = addr + di
        BY <3>5, <1>1, ByteFacts
      <4> QED
        BY <1>1, <3>1, <3>2, <3>3, <3>5, <4>1
    <3>6. CASE i # di + 1
      <4>1. i \in 1 .. di /\ i - 1 # di
        BY <1>1, <3>6
      <4>2. mem[Wrap(addr + i - 1)] = file[i]
        BY <1>3, <2>2, <4>1 DEF Progress
      <4>3. Wrap(addr + (i - 1)) # Wrap(addr + di)
        BY <3>1, <3>3, <4>1
      <4> QED
        BY <1>1, <3>2, <3>3, <3>4, <4>2, <4>3
    <3> QED
      BY <3>5, <3>6
  <2>3. Writable(addr, size) => \A i \in 1 .. (di + 1) : mem'[Wrap(addr + i - 1)] = file[i]
    BY <2>2
  <2> QED
    BY <1>1, <1>d, <1>3, <2>3 DEF Progress
<1> QED
  BY <1>2, <1>3

(* The steps of the console keep UploadInv. *)
LEMMA DeviceUploadInv ==
  ASSUME TypeOK, UploadInv, DeviceStep \/ PowerCycle
  PROVE  UploadInv'
<1> SUFFICES ASSUME synced', op' = "upload", ~interrupt'
             PROVE  /\ hpc' # "receive"
                    /\ hpc' = "command" => sent' = 0
                    /\ ~Done' => \E g \in 0 .. Put' :
                          toDev' = SubSeq(Stream', g + 1, Put') /\ At(g)'
                    /\ Done' /\ result' = 1 =>
                          Stored' /\ Verified' /\ dpc' = "idle" /\ toDev' = << >>
  BY DEF UploadInv
<1>1. DeviceStep /\ UNCHANGED <<hpc, op, file, addr, size, sent, result, interrupt, synced>>
  BY DEF DeviceStep, PowerCycle, CheckUsbdc, RecvAddress, RecvLength, RecvFlags, RecvData,
         RecvChecksum, SendReply, SendData, SendChecksum, Poll, host
<1>2. synced /\ op = "upload" /\ ~interrupt /\ hpc # "receive" /\ (Done' <=> Done)
  BY <1>1 DEF UploadInv, Done
<1>3. Stream' = Stream /\ Put' = Put
  BY <1>1 DEF Stream, Put
<1>4. CASE Done
  <2>1. CASE result = 1
    <3>1. dpc = "idle" /\ toDev = << >>
      BY <1>2, <1>4, <2>1 DEF UploadInv
    <3>2. FALSE
      BY <1>1, <3>1
         DEF DeviceStep, CheckUsbdc, RecvAddress, RecvLength, RecvFlags, RecvData,
             RecvChecksum, SendReply, SendData, SendChecksum, Poll, RecvByte
    <3> QED
      BY <3>2
  <2> QED
    BY <1>1, <1>2, <1>4, <2>1 DEF UploadInv, Done
<1>5. CASE ~Done
  <2> SUFFICES \E g \in 0 .. Put : toDev' = SubSeq(Stream, g + 1, Put) /\ At(g)'
    BY <1>1, <1>2, <1>3, <1>5 DEF UploadInv
  <2>1. PICK g \in 0 .. Put : toDev = SubSeq(Stream, g + 1, Put) /\ At(g)
    BY <1>2, <1>5 DEF UploadInv
  <2>2. /\ size \in Byte /\ size \in Nat /\ Len(file) = size
        /\ Stream[1] = UPLOAD /\ Stream[2] = addr /\ Stream[3] = size
        /\ \A k \in 1 .. size : Stream[k + 3] = file[k]
        /\ Stream[size + 4] = Checksum(file)
        /\ Put \in 0 .. (size + 4)
    BY <1>2, <1>5, StreamFacts
  <2>3. ASSUME RecvByte
        PROVE  /\ g + 1 \in 0 .. Put /\ g + 1 \in 1 .. (size + 4)
               /\ Head(toDev) = Stream[g + 1]
               /\ toDev' = SubSeq(Stream, (g + 1) + 1, Put)
               /\ fromDev' = fromDev
    <3>1. toDev # << >> /\ toDev' = Tail(toDev) /\ fromDev' = fromDev
      BY <2>3 DEF RecvByte
    <3>2. g + 1 \in 1 .. Put /\ Head(toDev) = Stream[g + 1] /\ Tail(toDev) = SubSeq(Stream, g + 2, Put)
      BY <1>2, <1>5, <2>1, <3>1, TakeItem
    <3>3. g + 2 = (g + 1) + 1 /\ g + 1 \in 0 .. Put /\ g + 1 \in 1 .. (size + 4)
      BY <2>2, <3>2
    <3> QED
      BY <3>1, <3>2, <3>3
  <2>4. CASE CheckUsbdc
    <3>1. RecvByte /\ dpc = "idle"
      BY <2>4 DEF CheckUsbdc
    <3>2. g = 0
      BY <2>1, <2>2, <2>3, <3>1 DEF At
    <3>3. Head(toDev) = UPLOAD /\ fromDev = << >>
      BY <2>1, <2>2, <2>3, <3>1, <3>2 DEF At
    <3>4. dcmd' = UPLOAD /\ dpc' = "addr" /\ dbuf' = << >> /\ fromDev' = << >>
      BY <2>4, <2>3, <3>1, <3>3 DEF CheckUsbdc, UPLOAD, GET_BUFF_ADDR
    <3>5. At(1)'
      BY <1>1, <2>2, <3>4 DEF At
    <3> QED
      BY <2>3, <3>1, <3>2, <3>5
  <2>5. CASE RecvAddress
    <3>1. RecvByte /\ dpc = "addr"
      BY <2>5 DEF RecvAddress
    <3>2. g = 1 /\ dcmd = UPLOAD /\ dbuf = << >> /\ fromDev = << >>
      BY <2>1, <3>1 DEF At
    <3>3. Head(toDev) = addr
      BY <2>2, <2>3, <3>1, <3>2
    <3>4. /\ dcmd' = UPLOAD /\ dpc' = "len" /\ dbuf' = << >> /\ fromDev' = << >>
          /\ daddr' = addr
      BY <2>5, <2>3, <3>1, <3>2, <3>3 DEF RecvAddress, UPLOAD, EXEC
    <3>5. At(2)'
      BY <1>1, <2>2, <3>4 DEF At
    <3> QED
      BY <2>3, <3>1, <3>2, <3>5
  <2>6. CASE RecvLength
    <3>1. RecvByte /\ dpc = "len"
      BY <2>6 DEF RecvLength
    <3>2. g = 2 /\ dcmd = UPLOAD /\ dbuf = << >> /\ fromDev = << >> /\ daddr = addr
      BY <2>1, <3>1 DEF At
    <3>3. Head(toDev) = size
      BY <2>2, <2>3, <3>1, <3>2
    <3>4. /\ dcmd' = UPLOAD /\ dpc' = "data" /\ dbuf' = << >> /\ fromDev' = << >>
          /\ daddr' = addr /\ dlen' = size /\ di' = 0
      BY <2>6, <2>3, <3>1, <3>2, <3>3 DEF RecvLength, UPLOAD, DOWNLOAD, TypeOK
    <3>5. Progress(di)'
      <4>1. SubSeq(file, 1, 0) = << >>
        BY SubSeqEmpty
      <4>2. size # 0 \/ ~Rw4(size)
        BY DEF Rw4
      <4> QED
        BY <1>1, <3>4, <4>1, <4>2 DEF Progress
    <3>6. At(3)'
      BY <1>1, <2>2, <3>4, <3>5 DEF At
    <3> QED
      BY <2>3, <3>1, <3>2, <3>6
  <2>7. CASE RecvFlags
    BY <2>1, <2>7 DEF RecvFlags, At
  <2>8. CASE RecvData
    <3>1. RecvByte /\ dpc = "data" /\ di < dlen
      BY <2>8 DEF RecvData
    <3>2. /\ g >= 3 /\ dcmd = UPLOAD /\ fromDev = << >> /\ daddr = addr
          /\ dlen = size /\ di = g - 3 /\ Progress(di)
      BY <2>1, <3>1 DEF At
    <3>3. di + 1 \in 1 .. size /\ g + 1 = (di + 1) + 3
      BY <2>1, <2>2, <3>1, <3>2
    <3>4. Head(toDev) = file[di + 1]
      BY <2>2, <2>3, <3>1, <3>3
    <3>5. Progress(di)'
      BY <1>2, <2>2, <2>8, <3>2, <3>4, ProgressStep
    <3>6. /\ dcmd' = UPLOAD /\ dpc' = "data" /\ fromDev' = << >>
          /\ daddr' = addr /\ dlen' = size /\ di' = di + 1
      BY <2>8, <2>3, <3>1, <3>2 DEF RecvData
    <3>7. g + 1 \in 1 .. (size + 3) /\ g + 1 >= 3 /\ di' = (g + 1) - 3
      BY <2>1, <2>2, <3>2, <3>3, <3>6
    <3>8. At(g + 1)'
      BY <1>1, <2>1, <3>5, <3>6, <3>7 DEF At
    <3> QED
      BY <2>3, <3>1, <3>8
  <2>9. CASE RecvChecksum
    <3>1. RecvByte /\ dpc = "data" /\ di = dlen
      BY <2>9 DEF RecvChecksum
    <3>2. /\ g >= 3 /\ dcmd = UPLOAD /\ fromDev = << >> /\ daddr = addr
          /\ dlen = size /\ di = g - 3 /\ Progress(di)
      BY <2>1, <3>1 DEF At
    <3>3. g + 1 = size + 4 /\ Progress(size)
      BY <2>1, <2>2, <3>1, <3>2
    <3>4. Head(toDev) = Checksum(file)
      BY <2>2, <2>3, <3>1, <3>3
    <3>5. /\ dcmd' = UPLOAD /\ dpc' = "reply" /\ fromDev' = << >> /\ mem' = mem
          /\ dreply' = 0 => Checksum(file) = Checksum(Received)
      BY <2>9, <2>3, <3>1, <3>2, <3>4 DEF RecvChecksum
    <3>6. Stored'
      <4>1. Stored
        BY <2>2, <3>3, ProgressStored
      <4> QED
        BY <1>1, <3>5, <4>1 DEF Stored
    <3>7. dreply' = 0 => Verified'
      <4>1. ~Rw4(size) => Received = Slice(mem, addr, size)
        BY <3>2 DEF Received, Buffered, Target, UPLOAD, EXEC_EXT
      <4> QED
        BY <1>1, <3>5, <4>1 DEF Verified
    <3>8. At(size + 4)'
      BY <1>1, <3>5, <3>6, <3>7 DEF At
    <3>9. At(g + 1)'
      BY <1>1, <3>3, <3>8
    <3> QED
      BY <2>3, <3>1, <3>9
  <2>10. CASE SendReply
    <3>1. g = size + 4 /\ Stored /\ dcmd = UPLOAD /\ fromDev = << >> /\ (dreply = 0 => Verified)
      BY <2>1, <2>10 DEF SendReply, At
    <3>2. /\ dpc' = "idle" /\ mem' = mem /\ toDev' = toDev
          /\ fromDev' = <<dreply>> /\ dreply \in Byte
      BY <2>10, <3>1 DEF SendReply, SendByte, UPLOAD, EXEC_EXT, TypeOK
    <3>3. Stored' /\ (dreply = 0 => Verified')
      BY <1>1, <3>1, <3>2 DEF Stored, Verified
    <3>4. At(size + 4)'
      BY <1>1, <3>2, <3>3 DEF At
    <3>5. At(g)'
      BY <1>1, <3>1, <3>4
    <3> QED
      BY <2>1, <3>2, <3>5
  <2>11. CASE SendData \/ SendChecksum
    BY <2>1, <2>11 DEF SendData, SendChecksum, At
  <2>12. CASE Poll
    <3>1. g = 0 /\ fromDev = << >> /\ dpc' = "idle" /\ toDev' = toDev /\ fromDev' = fromDev
      BY <2>1, <2>12 DEF Poll, At, link
    <3>2. At(0)'
      BY <3>1 DEF At
    <3> QED
      BY <2>1, <3>1, <3>2
  <2> QED
    BY <1>1, <2>4, <2>5, <2>6, <2>7, <2>8, <2>9, <2>10, <2>11, <2>12 DEF DeviceStep
<1> QED
  BY <1>4, <1>5

(* Init is between sessions, where UploadInv says nothing of an upload. *)
LEMMA InitUploadInv == Init => UploadInv
  BY DEF Init, UploadInv

(***************************************************************************)
(* For every memory map, checksum function, file, address and FIFO size,   *)
(* and every interleaving of host and console: an upload that reports      *)
(* success, was not interrupted and found the console ready has stored the *)
(* file, and memory reads back with the file's checksum.                   *)
(***************************************************************************)
THEOREM UploadCorrect == Spec => []UploadTrue
<1>1. Init => TypeOK /\ UploadInv
  BY InitTypeOK, InitUploadInv
<1>2. TypeOK /\ UploadInv /\ [Next]_vars => UploadInv'
  <2> SUFFICES ASSUME TypeOK, UploadInv, [Next]_vars PROVE UploadInv'
    OBVIOUS
  <2>1. CASE Next
    BY <2>1, HostUploadInv, DeviceUploadInv DEF Next
  <2>2. CASE UNCHANGED vars
    BY <2>2 DEF UploadInv, Done, Put, Stream, At, Progress, Stored, Verified,
                vars, host, link, work, device
  <2> QED
    BY <2>1, <2>2
<1>3. UploadInv => UploadTrue
  BY DEF UploadInv, UploadTrue, UploadStored, UploadVerified, Success, Stored,
         Verified
<1> QED
  BY <1>1, <1>2, <1>3, TypeCorrect, PTL DEF Spec

-----------------------------------------------------------------------------
(***************************************************************************)
(* The inductive invariant behind the other properties of a session, which *)
(* hold also when the session is interrupted or fails.  What a session has *)
(* to say is numbered: the command, the file, the checksum.  The console   *)
(* has taken g items, and the FIFO holds the ones that follow.  The        *)
(* exception is an interrupted transfer, whose checksum stands where the   *)
(* console still expects data: it is the last item, and it is bad.         *)
(***************************************************************************)
Sends == op \in {"upload", "exec"}

Item(k) ==
    IF k =< Len(Command) THEN Command[k]
    ELSE IF k =< Len(Command) + Len(file) THEN file[k - Len(Command)]
    ELSE Checksum(file)

Total == IF Sends THEN Len(Command) + Len(file) + 1 ELSE Len(Command)

(* Item number p, the last one put in, is the checksum, and too early. *)
Bad(p) == Sends /\ Len(Command) < p /\ p < Total /\ hpc \notin {"command", "data"}

(* The items in the FIFO, after the g ones that the console took. *)
Queued(g, bad) ==
    \A i \in 1 .. Len(toDev) :
        toDev[i] = Item(g + i) \/ (bad /\ i = Len(toDev))

HostAt(p) ==
    /\ hpc = "command" => p = 0 /\ sent = 0
    /\ hpc = "data" => Sends /\ p = Len(Command) + sent
    /\ hpc = "result" => Sends
    /\ hpc = "receive" => op = "download"
    /\ p > 0 => size \in Byte

(* The first k bytes of a program are where EXEC_EXT loads them. *)
LoadedUpTo(k) ==
    Writable(LoadAddress(addr), size) =>
        \A i \in 1 .. k : mem[Wrap(LoadAddress(addr) + i - 1)] = file[i]

LoadChecked ==
    Checksum(Slice(mem, LoadAddress(addr), size)) = Checksum(file)

(* The console knows the command and its arguments. *)
Told(n) ==
    /\ n >= 1 => dcmd = Command[1]
    /\ n >= 2 => daddr = addr
    /\ n >= 3 => dlen = size
    /\ n >= 4 => dflags = 0

(* Where g items bring the console. *)
ConsoleAt(g) ==
    \/ g = 0 /\ dpc \in {"idle", "running"}
    \/ g = 1 /\ dpc = "addr" /\ Told(1) /\ dbuf = << >>
    \/ g = 2 /\ op # "run" /\ dpc = "len" /\ Told(2) /\ dbuf = << >>
    \/ g = 3 /\ op = "exec" /\ dpc = "flags" /\ Told(3)
    \/ g = 3 /\ op = "download" /\ dpc = "send" /\ Told(3)
    \/ /\ Sends /\ g \in Len(Command) .. (Len(Command) + Len(file))
       /\ dpc = "data" /\ Told(Len(Command)) /\ di = g - Len(Command)
       /\ op = "upload" /\ Rw4(size) => Len(dbuf) = di
    \/ /\ Sends /\ g = Total
       /\ dpc = "reply" /\ Told(Len(Command))
       /\ op = "exec" => LoadedUpTo(size) /\ (dreply = 0 => LoadChecked)
    \/ g = Total /\ dpc \in {"idle", "running"}

(* What a download has received, and what is on the way. *)
Answer == Append(Source(mem, addr, size), Checksum(Source(mem, addr, size)))

Answered(g) == IF g < 3 THEN 0 ELSE IF dpc = "send" THEN di ELSE size + 1

(* What the host has put in, and what of it is in the FIFO. *)
LinkAt(g, bad) ==
    /\ g + Len(toDev) =< Total
    /\ bad => Bad(g + Len(toDev))
    /\ Queued(g, bad)
    /\ HostAt(g + Len(toDev))

SessionAt(g, bad) ==
    /\ LinkAt(g, bad)
    /\ ConsoleAt(g)
    /\ op = "exec" /\ dpc = "data" /\ ~(bad /\ toDev = << >>) => LoadedUpTo(di)
    /\ op = "download" /\ ~Done => local \o fromDev = SubSeq(Answer, 1, Answered(g))

SessionInv ==
    synced =>
        /\ \E g \in 0 .. Total, bad \in BOOLEAN : SessionAt(g, bad)
        /\ op = "download" /\ Done /\ result = 1 /\ ~interrupt
             => local = Source(mem, addr, size)

(* The commands and their lengths. *)
LEMMA CommandFacts ==
  ASSUME TypeOK
  PROVE  /\ op \in HostOps
         /\ op = "exec" => Len(Command) = 4 /\ Command[1] = EXEC_EXT /\ Command[4] = 0
         /\ op = "upload" => Len(Command) = 3 /\ Command[1] = UPLOAD
         /\ op = "download" => Len(Command) = 3 /\ Command[1] = DOWNLOAD
         /\ op = "run" => Len(Command) = 2 /\ Command[1] = EXEC
         /\ Command[2] = addr
         /\ op # "run" => Command[3] = size
<1>1. op \in HostOps
  BY DEF TypeOK
<1> QED
  BY <1>1 DEF Command, HostOps

(* The items that a session has to say, by their number. *)
LEMMA ItemFacts ==
  ASSUME TypeOK
  PROVE  /\ Len(Command) \in 2 .. 4 /\ size \in Nat
         /\ Sends => Len(file) = size /\ Total = Len(Command) + size + 1
         /\ ~Sends => Total = Len(Command)
         /\ Total \in Nat
         /\ \A k \in 1 .. Len(Command) : Item(k) = Command[k]
         /\ Sends => \A k \in 1 .. size : Item(Len(Command) + k) = file[k]
         /\ Sends => Item(Total) = Checksum(file)
<1>1. Len(Command) \in 2 .. 4 /\ size \in Nat
  BY CommandFacts DEF HostOps, TypeOK
<1>2. Sends => Len(file) = size /\ Total = Len(Command) + size + 1
  BY DEF Sends, Total, TypeOK
<1>3. ~Sends => Total = Len(Command)
  BY DEF Total
<1>4. \A k \in 1 .. Len(Command) : Item(k) = Command[k]
  BY DEF Item
<1>5. Sends => \A k \in 1 .. size : Item(Len(Command) + k) = file[k]
  BY <1>1, <1>2 DEF Item
<1>6. Sends => Item(Total) = Checksum(file)
  BY <1>1, <1>2 DEF Item
<1> QED
  BY <1>1, <1>2, <1>3, <1>4, <1>5, <1>6

(* Items that the host adds in their order keep the queue in order. *)
LEMMA PutInOrder ==
  ASSUME TypeOK, NEW g \in Nat, Queued(g, FALSE),
         NEW s \in Seq(Byte), toDev' = toDev \o s,
         UNCHANGED <<op, file, addr, size>>,
         \A i \in 1 .. Len(s) : s[i] = Item(g + Len(toDev) + i)
  PROVE  /\ Len(toDev') = Len(toDev) + Len(s)
         /\ Queued(g, FALSE)'
<1>1. toDev \in Seq(Byte) /\ Len(toDev) \in Nat /\ Len(s) \in Nat
  BY LenProperties DEF TypeOK
<1>2. /\ Len(toDev') = Len(toDev) + Len(s)
      /\ \A i \in 1 .. (Len(toDev) + Len(s)) :
            toDev'[i] = IF i =< Len(toDev) THEN toDev[i] ELSE s[i - Len(toDev)]
  BY <1>1, ConcatProperties
<1>3. \A k : Item(k)' = Item(k)
  BY DEF Item, Command
<1>4. ASSUME NEW i \in 1 .. Len(toDev') PROVE toDev'[i] = Item(g + i)
  <2>1. CASE i =< Len(toDev)
    BY <1>1, <1>2, <2>1 DEF Queued
  <2>2. CASE i > Len(toDev)
    <3>1. i - Len(toDev) \in 1 .. Len(s) /\ g + Len(toDev) + (i - Len(toDev)) = g + i
      BY <1>1, <1>2, <2>2
    <3> QED
      BY <1>1, <1>2, <2>2, <3>1
  <2> QED
    BY <1>1, <2>1, <2>2
<1> QED
  BY <1>2, <1>3, <1>4 DEF Queued

(* A checksum that the host sends too early is the last item of the queue. *)
LEMMA PutTooEarly ==
  ASSUME TypeOK, NEW g \in Nat, Queued(g, FALSE),
         NEW b \in Byte, toDev' = toDev \o <<b>>,
         UNCHANGED <<op, file, addr, size>>
  PROVE  /\ Len(toDev') = Len(toDev) + 1
         /\ Queued(g, TRUE)'
<1>1. toDev \in Seq(Byte) /\ Len(toDev) \in Nat /\ <<b>> \in Seq(Byte) /\ Len(<<b>>) = 1
  BY LenProperties DEF TypeOK
<1>2. /\ Len(toDev') = Len(toDev) + 1
      /\ \A i \in 1 .. Len(toDev) : toDev'[i] = toDev[i]
  BY <1>1, ConcatProperties
<1>3. \A k : Item(k)' = Item(k)
  BY DEF Item, Command
<1>4. \A i \in 1 .. Len(toDev') : i \in 1 .. Len(toDev) \/ i = Len(toDev')
  BY <1>1, <1>2
<1> QED
  BY <1>2, <1>3, <1>4 DEF Queued

(* The console's place does not depend on the host's own variables. *)
LEMMA ConsoleStays ==
  ASSUME NEW g, ConsoleAt(g), UNCHANGED <<op, file, addr, size, device>>
  PROVE  /\ ConsoleAt(g)'
         /\ \A k : LoadedUpTo(k)' <=> LoadedUpTo(k)
         /\ Total' = Total /\ Sends' = Sends /\ Command' = Command
         /\ Answer' = Answer /\ Answered(g)' = Answered(g)
<1>1. UNCHANGED <<op, file, addr, size, dpc, dcmd, daddr, dlen, dflags, di, dbuf, dreply, mem>>
  BY DEF device, work
<1>2. Total' = Total /\ Sends' = Sends /\ Command' = Command
  BY <1>1 DEF Total, Sends, Command
<1>3. \A k : LoadedUpTo(k)' <=> LoadedUpTo(k)
  BY <1>1 DEF LoadedUpTo
<1>4. LoadChecked' <=> LoadChecked
  BY <1>1 DEF LoadChecked
<1>5. \A n : Told(n)' <=> Told(n)
  BY <1>1, <1>2 DEF Told
<1>6. ConsoleAt(g)'
  BY <1>1, <1>2, <1>3, <1>4, <1>5 DEF ConsoleAt
<1>7. Answer' = Answer /\ Answered(g)' = Answered(g)
  BY <1>1 DEF Answer, Answered
<1> QED
  BY <1>2, <1>3, <1>6, <1>7

(***************************************************************************)
(* A host step that only adds items in their order, and leaves the local   *)
(* file alone, moves the session on.                                       *)
(***************************************************************************)
LEMMA HostPuts ==
  ASSUME TypeOK, NEW g \in 0 .. Total, SessionAt(g, FALSE),
         NEW s \in Seq(Byte), toDev' = toDev \o s,
         UNCHANGED <<op, file, addr, size, local, fromDev, device>>,
         \A i \in 1 .. Len(s) : s[i] = Item(g + Len(toDev) + i),
         NEW p, p = g + Len(toDev) + Len(s), p =< Total,
         HostAt(p)',
         ~Done
  PROVE  g \in 0 .. Total' /\ SessionAt(g, FALSE)'
<1>0. g \in Nat /\ Len(toDev) \in Nat /\ Len(s) \in Nat
  BY ItemFacts, LenProperties DEF TypeOK
<1>1. Len(toDev') = Len(toDev) + Len(s) /\ Queued(g, FALSE)'
  BY <1>0, PutInOrder DEF SessionAt, LinkAt
<1>2. ConsoleAt(g)
  BY DEF SessionAt, LinkAt
<1>3. /\ ConsoleAt(g)' /\ Total' = Total
      /\ \A k : LoadedUpTo(k)' <=> LoadedUpTo(k)
      /\ Answer' = Answer /\ Answered(g)' = Answered(g)
  BY <1>2, ConsoleStays
<1>4. g + Len(toDev') = p
  BY <1>0, <1>1
<1>5. /\ op' = op /\ dpc' = dpc /\ di' = di /\ local' = local /\ fromDev' = fromDev
  BY DEF device, work
<1>6. op' = "exec" /\ dpc' = "data" => LoadedUpTo(di)'
  BY <1>3, <1>5 DEF SessionAt, LinkAt
<1>7. op' = "download" /\ ~Done' => local' \o fromDev' = SubSeq(Answer', 1, Answered(g)')
  BY <1>3, <1>5 DEF SessionAt, LinkAt
<1> QED
  BY <1>1, <1>3, <1>4, <1>6, <1>7 DEF SessionAt, LinkAt

(* A part of the file, by its bytes. *)
LEMMA FilePart ==
  ASSUME NEW f \in Seq(Byte), NEW k \in Nat, NEW n \in Nat, k + n =< Len(f)
  PROVE  /\ SubSeq(f, k + 1, k + n) \in Seq(Byte)
         /\ Len(SubSeq(f, k + 1, k + n)) = n
         /\ \A i \in 1 .. n : SubSeq(f, k + 1, k + n)[i] = f[k + i]
<1>1. Len(f) \in Nat
  BY LenProperties
<1>2. \A i \in (k + 1) .. (k + n) : f[i] \in Byte
  BY <1>1
<1>3. /\ SubSeq(f, k + 1, k + n) \in Seq(Byte)
      /\ Len(SubSeq(f, k + 1, k + n)) = IF k + 1 <= k + n THEN (k + n) - (k + 1) + 1 ELSE 0
      /\ \A i \in 1 .. ((k + n) - (k + 1) + 1) :
            SubSeq(f, k + 1, k + n)[i] = f[(k + 1) + i - 1]
  BY <1>2, SubSeqProperties
<1>4. (k + n) - (k + 1) + 1 = n /\ (~(k + 1 <= k + n) => n = 0)
  OBVIOUS
<1>5. Len(SubSeq(f, k + 1, k + n)) = n
  BY <1>3, <1>4
<1>6. ASSUME NEW i \in 1 .. n PROVE SubSeq(f, k + 1, k + n)[i] = f[k + i]
  <2>1. (k + 1) + i - 1 = k + i
    OBVIOUS
  <2> QED
    BY <1>3, <1>4, <2>1
<1> QED
  BY <1>3, <1>5, <1>6

(* A session begins with nothing said and nothing in the FIFOs. *)
LEMMA InitCommsSession ==
  ASSUME TypeOK, TypeOK', InitComms
  PROVE  SessionInv'
<1> SUFFICES ASSUME synced' PROVE
        /\ \E g \in 0 .. Total', bad \in BOOLEAN : SessionAt(g, bad)'
        /\ op' = "download" /\ Done' /\ result' = 1 /\ ~interrupt'
             => local' = Source(mem', addr', size')
  BY DEF SessionInv
<1>1. /\ hpc' \in {"command", "exit"} /\ result' = 0 /\ local' = << >>
      /\ toDev' = << >> /\ fromDev' = << >>
      /\ dpc \in {"idle", "running"} /\ dpc' = dpc
  BY DEF InitComms, Begin
<1>2. Len(toDev') = 0 /\ 0 + Len(toDev') = 0 /\ 0 \in 0 .. Total' /\ 0 =< Total'
  <2>1. Len(Command') \in Nat
    BY DEF Command
  <2>2. Len(file') \in Nat
    BY LenProperties DEF TypeOK
  <2>3. Total' \in Nat
    BY <2>1, <2>2 DEF Total
  <2> QED
    BY <1>1, <2>3
<1>3. Queued(0, FALSE)'
  BY <1>2 DEF Queued
<1>4. HostAt(0 + Len(toDev))'
  BY <1>1, <1>2 DEF HostAt, InitComms, Begin
<1>5. ConsoleAt(0)'
  BY <1>1 DEF ConsoleAt
<1>6. local' \o fromDev' = SubSeq(Answer', 1, Answered(0)')
  <2>1. Answered(0)' = 0
    BY DEF Answered
  <2>2. SubSeq(Answer', 1, 0) = << >>
    BY SubSeqEmpty
  <2> QED
    BY <1>1, <2>1, <2>2
<1>7. SessionAt(0, FALSE)'
  BY <1>1, <1>2, <1>3, <1>4, <1>5, <1>6 DEF SessionAt, LinkAt
<1>8. FALSE \in BOOLEAN
  OBVIOUS
<1>9. \E g \in 0 .. Total', bad \in BOOLEAN : SessionAt(g, bad)'
  BY <1>2, <1>7, <1>8
<1> QED
  BY <1>1, <1>9

(* The host writes the command. *)
LEMMA CommandSession ==
  ASSUME TypeOK, SessionInv, SendCommandWithAddressAndLength
  PROVE  SessionInv'
<1> SUFFICES ASSUME synced' PROVE
        /\ \E g \in 0 .. Total', bad \in BOOLEAN : SessionAt(g, bad)'
        /\ op' = "download" /\ Done' /\ result' = 1 /\ ~interrupt'
             => local' = Source(mem', addr', size')
  BY DEF SessionInv
<1>1. /\ hpc = "command" /\ hpc' = AfterCommand /\ synced /\ ~Done
      /\ toDev' = toDev \o Command
      /\ UNCHANGED <<op, file, addr, size, sent, local, fromDev, device>>
  BY DEF SendCommandWithAddressAndLength, Accept, Done
<1>2. PICK g \in 0 .. Total, bad \in BOOLEAN : SessionAt(g, bad)
  BY <1>1 DEF SessionInv
<1>3. ~bad /\ g + Len(toDev) = 0 /\ SessionAt(g, FALSE)
  <2>1. ~bad
    BY <1>1, <1>2 DEF SessionAt, LinkAt, Bad
  <2>2. bad = FALSE
    BY <2>1
  <2> QED
    BY <1>1, <1>2, <2>2 DEF SessionAt, LinkAt, HostAt
<1>4. Command \in Seq(Byte) /\ size \in Byte
  BY <1>1, CommandType DEF TypeOK
<1>5. /\ Len(Command) \in Nat /\ Total \in Nat /\ Len(Command) =< Total
      /\ \A i \in 1 .. Len(Command) : Command[i] = Item(i)
  BY ItemFacts
<1>6. \A i \in 1 .. Len(Command) : Command[i] = Item(g + Len(toDev) + i)
  BY <1>3, <1>5
<1>7. HostAt(Len(Command))'
  <2>1. sent = 0
    BY <1>1, <1>3 DEF SessionAt, LinkAt, HostAt
  <2>2. hpc' \notin {"command", "result"} /\ (hpc' = "data" => Sends) /\ (hpc' = "receive" => op = "download")
    BY <1>1 DEF AfterCommand, Sends, TypeOK, HostOps
  <2>3. Len(Command)' = Len(Command) /\ Sends' = Sends
    BY <1>1 DEF Command, Sends
  <2> QED
    BY <1>1, <1>4, <1>5, <2>1, <2>2, <2>3 DEF HostAt
<1>8. g \in 0 .. Total' /\ SessionAt(g, FALSE)'
  <2>1. Len(Command) = g + Len(toDev) + Len(Command)
    BY <1>3, <1>5
  <2>2. PICK n : n = Len(Command)
    OBVIOUS
  <2>3. HostAt(n)'
    BY <1>1, <1>7, <2>2 DEF Command
  <2>4. PICK s \in Seq(Byte) : s = Command
    BY <1>4
  <2> QED
    BY <1>1, <1>3, <1>5, <1>6, <2>1, <2>2, <2>3, <2>4, HostPuts
<1>9. ~(op' = "download" /\ Done')
  BY <1>1 DEF AfterCommand, Done
<1> QED
  BY <1>8, <1>9

(* The host writes a part of the file. *)
LEMMA DataSession ==
  ASSUME TypeOK, SessionInv, WriteData
  PROVE  SessionInv'
<1> SUFFICES ASSUME synced' PROVE
        /\ \E g \in 0 .. Total', bad \in BOOLEAN : SessionAt(g, bad)'
        /\ op' = "download" /\ Done' /\ result' = 1 /\ ~interrupt'
             => local' = Source(mem', addr', size')
  BY DEF SessionInv
<1>1. /\ hpc = "data" /\ hpc' = "data" /\ synced /\ ~Done /\ ~Done'
      /\ UNCHANGED <<op, file, addr, size, local, fromDev, device>>
  BY DEF WriteData, Done
<1>2. PICK n \in 1 .. (Len(file) - sent) :
        Accept(SubSeq(file, sent + 1, sent + n)) /\ sent' = sent + n
  BY DEF WriteData
<1>3. PICK g \in 0 .. Total, bad \in BOOLEAN : SessionAt(g, bad)
  BY <1>1 DEF SessionInv
<1>4. Sends /\ g + Len(toDev) = Len(Command) + sent /\ SessionAt(g, FALSE)
  <2>1. ~bad
    BY <1>1, <1>3 DEF SessionAt, LinkAt, Bad
  <2>2. bad = FALSE
    BY <2>1
  <2> QED
    BY <1>1, <1>3, <2>2 DEF SessionAt, LinkAt, HostAt
<1>5. /\ Len(Command) \in Nat /\ Total = Len(Command) + size + 1 /\ Len(file) = size
      /\ \A k \in 1 .. size : Item(Len(Command) + k) = file[k]
      /\ size \in Nat /\ sent \in Nat /\ n \in Nat /\ sent + n =< size /\ file \in Seq(Byte)
  BY <1>2, <1>4, ItemFacts DEF TypeOK
<1>6. PICK s : s = SubSeq(file, sent + 1, sent + n)
  OBVIOUS
<1>7. s \in Seq(Byte) /\ Len(s) = n /\ \A i \in 1 .. n : s[i] = file[sent + i]
  BY <1>5, <1>6, FilePart
<1>8. \A i \in 1 .. n : s[i] = Item(g + Len(toDev) + i)
  <2>1. ASSUME NEW i \in 1 .. n PROVE s[i] = Item(g + Len(toDev) + i)
    <3>1. sent + i \in 1 .. size /\ g + Len(toDev) + i = Len(Command) + (sent + i)
      BY <1>4, <1>5
    <3> QED
      BY <1>5, <1>7, <3>1
  <2> QED
    BY <2>1
<1>9. PICK p : p = g + Len(toDev) + n
  OBVIOUS
<1>10. p = Len(Command) + sent' /\ p =< Total /\ toDev' = toDev \o s
  <2>1. toDev' = toDev \o s
    BY <1>2, <1>6 DEF Accept
  <2>2. p = (Len(Command) + sent) + n
    BY <1>4, <1>9
  <2>3. sent' = sent + n
    BY <1>2
  <2> QED
    BY <1>5, <2>1, <2>2, <2>3
<1>11. HostAt(p)'
  BY <1>1, <1>4, <1>10 DEF HostAt, Command, Sends, TypeOK
<1>12. g \in 0 .. Total' /\ SessionAt(g, FALSE)'
  BY <1>1, <1>4, <1>7, <1>8, <1>9, <1>10, <1>11, HostPuts
<1> QED
  BY <1>1, <1>12

(* A checksum that comes too early leaves the session with a bad last item. *)
LEMMA HostPutsEarly ==
  ASSUME TypeOK, NEW g \in 0 .. Total, SessionAt(g, FALSE), Sends,
         NEW b \in Byte, toDev' = toDev \o <<b>>,
         UNCHANGED <<op, file, addr, size, local, fromDev, device>>,
         Len(Command) < g + Len(toDev) + 1, g + Len(toDev) + 1 < Total,
         size \in Byte, hpc' \in {"result", "exit"}
  PROVE  g \in 0 .. Total' /\ SessionAt(g, TRUE)'
<1>0. g \in Nat /\ Len(toDev) \in Nat /\ Total \in Nat
  <2>1. Total \in Nat
    BY ItemFacts
  <2>2. Len(toDev) \in Nat
    BY LenProperties DEF TypeOK
  <2> QED
    BY <2>1, <2>2
<1>1. Len(toDev') = Len(toDev) + 1 /\ Queued(g, TRUE)'
  BY <1>0, PutTooEarly DEF SessionAt, LinkAt
<1>2. ConsoleAt(g)
  BY DEF SessionAt, LinkAt
<1>3. /\ ConsoleAt(g)' /\ Total' = Total /\ Command' = Command /\ Sends' = Sends
      /\ \A k : LoadedUpTo(k)' <=> LoadedUpTo(k)
  BY <1>2, ConsoleStays
<1>4. g + Len(toDev') = g + Len(toDev) + 1 /\ g + Len(toDev') =< Total
  <2>1. PICK l \in Nat : l = Len(toDev)
    BY <1>0
  <2> QED
    BY <1>0, <1>1, <2>1
<1>5. op' = op /\ dpc' = dpc /\ di' = di /\ size' = size
  BY DEF device, work
<1>6. op' = "exec" /\ dpc' = "data" => LoadedUpTo(di)'
  BY <1>3, <1>5 DEF SessionAt, LinkAt
<1>7. op' # "download"
  BY DEF Sends
<1>8. Bad(g + Len(toDev))'
  BY <1>3, <1>4 DEF Bad
<1>9. HostAt(g + Len(toDev))'
  BY <1>3, <1>5 DEF HostAt
<1> QED
  BY <1>1, <1>3, <1>4, <1>6, <1>7, <1>8, <1>9 DEF SessionAt, LinkAt

(* A host step that adds nothing keeps the session where it is. *)
LEMMA HostKeeps ==
  ASSUME TypeOK, NEW g \in 0 .. Total, NEW bad \in BOOLEAN, SessionAt(g, bad),
         UNCHANGED <<op, file, addr, size, sent, toDev, device>>,
         hpc' = hpc \/ hpc' \in {"exit", "closed"},
         op = "download" /\ ~Done' => ~Done /\ local' \o fromDev' = local \o fromDev
  PROVE  g \in 0 .. Total' /\ SessionAt(g, bad)'
<1>2. ConsoleAt(g)
  BY DEF SessionAt, LinkAt
<1>3. /\ ConsoleAt(g)' /\ Total' = Total /\ Command' = Command /\ Sends' = Sends
      /\ \A k : LoadedUpTo(k)' <=> LoadedUpTo(k)
      /\ Answer' = Answer /\ Answered(g)' = Answered(g)
  BY <1>2, ConsoleStays
<1>4. \A k : Item(k)' = Item(k)
  BY <1>3 DEF Item
<1>5. op' = op /\ dpc' = dpc /\ di' = di /\ size' = size /\ toDev' = toDev
  BY DEF device, work
<1>6. Queued(g, bad)'
  BY <1>4, <1>5 DEF SessionAt, LinkAt, Queued
<1>7. bad => Bad(g + Len(toDev))'
  BY <1>3, <1>5 DEF SessionAt, LinkAt, Bad
<1>8. HostAt(g + Len(toDev))'
  BY <1>3, <1>5 DEF SessionAt, LinkAt, HostAt
<1>9. op' = "exec" /\ dpc' = "data" /\ ~(bad /\ toDev' = << >>) => LoadedUpTo(di)'
  BY <1>3, <1>5 DEF SessionAt, LinkAt
<1>10. op' = "download" /\ ~Done' => local' \o fromDev' = SubSeq(Answer', 1, Answered(g)')
  BY <1>3, <1>5 DEF SessionAt, LinkAt
<1>11. g + Len(toDev') =< Total'
  BY <1>3, <1>5 DEF SessionAt, LinkAt
<1> QED
  BY <1>3, <1>6, <1>7, <1>8, <1>9, <1>10, <1>11 DEF SessionAt, LinkAt

(* The host writes the checksum, in its place or, after Ctrl+C, too early. *)
LEMMA ChecksumPut ==
  ASSUME TypeOK, NEW g \in 0 .. Total, SessionAt(g, FALSE), hpc = "data",
         sent = Len(file) \/ interrupt,
         toDev' = toDev \o <<Checksum(file)>>, hpc' \in {"result", "exit"},
         UNCHANGED <<op, file, addr, size, local, fromDev, device>>
  PROVE  \E bad \in BOOLEAN : g \in 0 .. Total' /\ SessionAt(g, bad)'
<1>1. Sends /\ g + Len(toDev) = Len(Command) + sent
  BY DEF SessionAt, LinkAt, HostAt
<1>2. /\ Len(Command) \in Nat /\ Total = Len(Command) + size + 1 /\ Len(file) = size
      /\ Item(Total) = Checksum(file)
      /\ size \in Nat /\ sent \in 0 .. size /\ size \in Byte
  BY <1>1, ItemFacts DEF TypeOK
<1>3. Checksum(file) \in Byte
  BY ChecksumType
<1>4. CASE sent = size
  <2>0. <<Checksum(file)>> \in Seq(Byte)
    BY <1>3
  <2>1. PICK s \in Seq(Byte) : s = <<Checksum(file)>>
    BY <2>0
  <2>2. Len(s) = 1 /\ s[1] = Checksum(file)
    BY <2>1
  <2>3. g + Len(toDev) + 1 = Total
    <3>1. (g + Len(toDev)) + 1 = (Len(Command) + sent) + 1
      BY <1>1
    <3> QED
      BY <1>2, <1>4, <3>1
  <2>4. \A i \in 1 .. Len(s) : s[i] = Item(g + Len(toDev) + i)
    BY <1>2, <2>2, <2>3
  <2>5. PICK p : p = g + Len(toDev) + Len(s)
    OBVIOUS
  <2>6. p =< Total
    BY <1>2, <2>2, <2>3, <2>5
  <2>7. HostAt(p)'
    BY <1>1, <1>2 DEF HostAt, Sends
  <2>8. ~Done
    BY DEF Done
  <2>9. g \in 0 .. Total' /\ SessionAt(g, FALSE)'
    BY <2>1, <2>4, <2>5, <2>6, <2>7, <2>8, HostPuts
  <2> QED
    BY <2>9
<1>5. CASE sent # size
  <2>1. Len(Command) < g + Len(toDev) + 1 /\ g + Len(toDev) + 1 < Total
    <3>1. (g + Len(toDev)) + 1 = (Len(Command) + sent) + 1
      BY <1>1
    <3> QED
      BY <1>2, <1>5, <3>1
  <2>2. g \in 0 .. Total' /\ SessionAt(g, TRUE)'
    BY <1>1, <1>2, <1>3, <2>1, HostPutsEarly
  <2> QED
    BY <2>2
<1> QED
  BY <1>4, <1>5

(* The host writes the checksum. *)
LEMMA ChecksumSession ==
  ASSUME TypeOK, SessionInv, WriteChecksum
  PROVE  SessionInv'
<1> SUFFICES ASSUME synced' PROVE
        /\ \E g \in 0 .. Total', bad \in BOOLEAN : SessionAt(g, bad)'
        /\ op' = "download" /\ Done' /\ result' = 1 /\ ~interrupt'
             => local' = Source(mem', addr', size')
  BY DEF SessionInv
<1>1. /\ hpc = "data" /\ hpc' = "result" /\ synced /\ ~Done'
      /\ sent = Len(file) \/ interrupt
      /\ toDev' = toDev \o <<Checksum(file)>>
      /\ UNCHANGED <<op, file, addr, size, local, fromDev, device>>
  BY DEF WriteChecksum, Accept, Done
<1>2. PICK g \in 0 .. Total, bad \in BOOLEAN : SessionAt(g, bad)
  BY <1>1 DEF SessionInv
<1>3. bad = FALSE
  BY <1>1, <1>2 DEF SessionAt, LinkAt, Bad
<1>4. \E b \in BOOLEAN : g \in 0 .. Total' /\ SessionAt(g, b)'
  BY <1>1, <1>2, <1>3, ChecksumPut
<1> QED
  BY <1>1, <1>4

(* A write fails after the chip took a part of the buffer. *)
LEMMA WriteErrorSession ==
  ASSUME TypeOK, SessionInv, WriteError
  PROVE  SessionInv'
<1> SUFFICES ASSUME synced' PROVE
        /\ \E g \in 0 .. Total', bad \in BOOLEAN : SessionAt(g, bad)'
        /\ op' = "download" /\ Done' /\ result' = 1 /\ ~interrupt'
             => local' = Source(mem', addr', size')
  BY DEF SessionInv
<1>1. /\ hpc \in {"command", "data"} /\ hpc' = "exit" /\ synced /\ result' = 0
      /\ UNCHANGED <<op, file, addr, size, sent, local, fromDev, device>>
  BY DEF WriteError, Finish
<1>2. PICK k \in 0 .. Len(Outgoing) : toDev' = toDev \o SubSeq(Outgoing, 1, k)
  BY DEF WriteError, Accept
<1>3. PICK g \in 0 .. Total, bad \in BOOLEAN : SessionAt(g, bad)
  BY <1>1 DEF SessionInv
<1>4. bad = FALSE
  BY <1>1, <1>3 DEF SessionAt, LinkAt, Bad
<1>5. SessionAt(g, FALSE) /\ ~Done
  BY <1>1, <1>3, <1>4 DEF Done
<1>6. PICK s : s = SubSeq(Outgoing, 1, k)
  OBVIOUS
<1>7. Outgoing \in Seq(Byte) /\ Len(Outgoing) \in Nat /\ k \in Nat /\ k =< Len(Outgoing)
  BY OutgoingType, LenProperties
<1>8. s \in Seq(Byte) /\ Len(s) = k /\ \A i \in 1 .. k : s[i] = Outgoing[i]
  <2>1. /\ 0 \in Nat /\ 0 + k =< Len(Outgoing) /\ 0 + 1 = 1 /\ 0 + k = k
        /\ \A i \in 1 .. k : 0 + i = i
    BY <1>7
  <2>2. /\ SubSeq(Outgoing, 0 + 1, 0 + k) \in Seq(Byte)
        /\ Len(SubSeq(Outgoing, 0 + 1, 0 + k)) = k
        /\ \A i \in 1 .. k : SubSeq(Outgoing, 0 + 1, 0 + k)[i] = Outgoing[0 + i]
    BY <1>7, <2>1, FilePart
  <2> QED
    BY <1>6, <2>1, <2>2
<1>9. size \in Byte /\ size \in Nat /\ sent \in 0 .. Len(file) /\ file \in Seq(Byte)
  BY <1>1 DEF TypeOK
<1>10. \A p : HostAt(p)'
  BY <1>1, <1>9 DEF HostAt
<1> SUFFICES \E b \in BOOLEAN : g \in 0 .. Total' /\ SessionAt(g, b)'
  BY <1>1
<1>11. ASSUME \A i \in 1 .. k : s[i] = Item(g + Len(toDev) + i),
              g + Len(toDev) + k =< Total
       PROVE  \E b \in BOOLEAN : g \in 0 .. Total' /\ SessionAt(g, b)'
  <2>1. PICK p : p = g + Len(toDev) + Len(s)
    OBVIOUS
  <2>2. p =< Total /\ HostAt(p)'
    BY <1>8, <1>10, <1>11, <2>1
  <2>3. g \in 0 .. Total' /\ SessionAt(g, FALSE)'
    BY <1>1, <1>2, <1>5, <1>6, <1>8, <1>11, <2>1, <2>2, HostPuts
  <2> QED
    BY <2>3
<1>12. CASE hpc = "command"
  <2>1. g + Len(toDev) = 0
    BY <1>5, <1>12 DEF SessionAt, LinkAt, HostAt
  <2>2. Outgoing = Command
    BY <1>12 DEF Outgoing
  <2>3. /\ Len(Command) \in Nat /\ Total \in Nat /\ Len(Command) =< Total
        /\ \A i \in 1 .. Len(Command) : Command[i] = Item(i)
    BY ItemFacts
  <2>4. \A i \in 1 .. k : i \in 1 .. Len(Command) /\ 0 + i = i
    BY <1>7, <2>2, <2>3
  <2>5. \A i \in 1 .. k : s[i] = Item((g + Len(toDev)) + i)
    BY <1>8, <2>1, <2>2, <2>3, <2>4
  <2>6. (g + Len(toDev)) + k =< Total
    BY <1>7, <2>1, <2>2, <2>3
  <2> QED
    BY <1>11, <2>5, <2>6
<1>13. CASE hpc = "data" /\ sent < Len(file) /\ ~interrupt
  <2>1. Sends /\ g + Len(toDev) = Len(Command) + sent
    BY <1>5, <1>13 DEF SessionAt, LinkAt, HostAt
  <2>2. Outgoing = SubSeq(file, sent + 1, Len(file))
    BY <1>13 DEF Outgoing
  <2>3. /\ Len(Command) \in Nat /\ Total = Len(Command) + size + 1 /\ Len(file) = size
        /\ \A j \in 1 .. size : Item(Len(Command) + j) = file[j]
    BY <2>1, ItemFacts
  <2>4. PICK n : n = size - sent
    OBVIOUS
  <2>5. n \in Nat /\ sent \in Nat /\ sent + n = size
    BY <1>9, <1>13, <2>3, <2>4
  <2>6. Len(Outgoing) = n /\ \A i \in 1 .. n : Outgoing[i] = file[sent + i]
    <3>1. /\ Len(SubSeq(file, sent + 1, sent + n)) = n
          /\ \A i \in 1 .. n : SubSeq(file, sent + 1, sent + n)[i] = file[sent + i]
      BY <1>9, <2>3, <2>5, FilePart
    <3> QED
      BY <2>2, <2>3, <2>5, <3>1
  <2>7. ASSUME NEW i \in 1 .. k PROVE s[i] = Item((g + Len(toDev)) + i)
    <3>1. i \in 1 .. n /\ sent + i \in 1 .. size /\ (Len(Command) + sent) + i = Len(Command) + (sent + i)
      BY <1>7, <2>3, <2>5, <2>6
    <3>2. s[i] = file[sent + i]
      BY <1>8, <2>6, <3>1
    <3> QED
      BY <2>1, <2>3, <3>1, <3>2
  <2>8. (g + Len(toDev)) + k =< Total
    <3>1. (Len(Command) + sent) + k =< Total
      BY <1>7, <1>9, <2>3, <2>5, <2>6
    <3> QED
      BY <2>1, <3>1
  <2> QED
    BY <1>11, <2>7, <2>8
<1>14. CASE hpc = "data" /\ ~(sent < Len(file) /\ ~interrupt)
  <2>1. Outgoing = <<Checksum(file)>>
    BY <1>14 DEF Outgoing
  <2>2. Len(Outgoing) = 1
    BY <2>1
  <2>3. sent = Len(file) \/ interrupt
    BY <1>9, <1>14
  <2>4. CASE k = 1
    <3>1. s = <<Checksum(file)>>
      <4>1. SubSeq(Outgoing, 1, Len(Outgoing)) = Outgoing
        BY <1>7, SubSeqFull
      <4> QED
        BY <1>6, <2>1, <2>2, <2>4, <4>1
    <3>2. toDev' = toDev \o <<Checksum(file)>>
      BY <1>2, <1>6, <3>1
    <3> QED
      BY <1>1, <1>5, <1>14, <2>3, <3>2, ChecksumPut
  <2>5. CASE k = 0
    <3>1. \A i \in 1 .. k : s[i] = Item(g + Len(toDev) + i)
      BY <2>5
    <3>2. g + Len(toDev) + k =< Total
      <4>1. g + Len(toDev) =< Total
        BY <1>5 DEF SessionAt, LinkAt
      <4>2. g + Len(toDev) \in Int
        BY ItemFacts, LenProperties DEF TypeOK
      <4> QED
        BY <2>5, <4>1, <4>2
    <3> QED
      BY <1>11, <3>1, <3>2
  <2> QED
    BY <1>7, <2>2, <2>4, <2>5
<1> QED
  BY <1>1, <1>12, <1>13, <1>14

(* The reply, an error or a signal ends or marks the command, no more. *)
LEMMA HostEndsSession ==
  ASSUME TypeOK, SessionInv, ReadResult \/ ReadError \/ Signal
  PROVE  SessionInv'
<1> SUFFICES ASSUME synced' PROVE
        /\ \E g \in 0 .. Total', bad \in BOOLEAN : SessionAt(g, bad)'
        /\ op' = "download" /\ Done' /\ result' = 1 /\ ~interrupt'
             => local' = Source(mem', addr', size')
  BY DEF SessionInv
<1>1. /\ UNCHANGED <<op, file, addr, size, sent, toDev, device>> /\ synced
      /\ local' = local /\ ~Done
      /\ hpc' = hpc \/ hpc' \in {"exit", "closed"}
      /\ ~Done' => fromDev' = fromDev
  BY DEF ReadResult, ReadError, Signal, Finish, Done, link
<1>2. PICK g \in 0 .. Total, bad \in BOOLEAN : SessionAt(g, bad)
  BY <1>1 DEF SessionInv
<1>3. g \in 0 .. Total' /\ SessionAt(g, bad)'
  BY <1>1, <1>2, HostKeeps
<1>4. ~(op' = "download" /\ Done' /\ result' = 1 /\ ~interrupt')
  <2>1. CASE ReadResult
    <3>1. Sends
      BY <1>2, <2>1 DEF ReadResult, SessionAt, LinkAt, HostAt
    <3> QED
      BY <1>1, <3>1 DEF Sends
  <2>2. CASE ReadError
    BY <2>2 DEF ReadError, Finish
  <2>3. CASE Signal
    BY <2>3 DEF Signal
  <2> QED
    BY <2>1, <2>2, <2>3
<1> QED
  BY <1>3, <1>4

(* Concatenation of byte sequences is associative. *)
LEMMA ConcatBytes ==
  \A s, t, u \in Seq(Byte) : (s \o t) \o u = s \o (t \o u)
BY ConcatAssociative

(* The host moves bytes of a download from the FIFO to the local file. *)
LEMMA ReadDataSession ==
  ASSUME TypeOK, SessionInv, ReadData
  PROVE  SessionInv'
<1> SUFFICES ASSUME synced' PROVE
        /\ \E g \in 0 .. Total', bad \in BOOLEAN : SessionAt(g, bad)'
        /\ op' = "download" /\ Done' /\ result' = 1 /\ ~interrupt'
             => local' = Source(mem', addr', size')
  BY DEF SessionInv
<1>1. /\ UNCHANGED <<op, file, addr, size, sent, toDev, device>> /\ synced
      /\ hpc' = hpc /\ ~Done /\ ~Done'
  BY DEF ReadData, Done
<1>2. PICK n \in 1 .. Len(fromDev) :
        /\ local' = local \o SubSeq(fromDev, 1, n)
        /\ fromDev' = SubSeq(fromDev, n + 1, Len(fromDev))
  BY DEF ReadData
<1>3. local' \o fromDev' = local \o fromDev
  <2>1. fromDev \in Seq(Byte) /\ local \in Seq(Byte) /\ Len(fromDev) \in Nat
    BY LenProperties DEF TypeOK
  <2>2. /\ SubSeq(fromDev, 1, n) \in Seq(Byte)
        /\ SubSeq(fromDev, n + 1, Len(fromDev)) \in Seq(Byte)
    <3>1. SubSeq(fromDev, 1, n) \in Seq(Byte)
      BY <2>1
    <3>2. SubSeq(fromDev, n + 1, Len(fromDev)) \in Seq(Byte)
      BY <2>1
    <3> QED
      BY <3>1, <3>2
  <2>3. SubSeq(fromDev, 1, n) \o SubSeq(fromDev, n + 1, Len(fromDev))
          = SubSeq(fromDev, 1, Len(fromDev))
    <3>1. /\ 1 \in 1 .. (Len(fromDev) + 1)
          /\ n \in (1 - 1) .. Len(fromDev)
          /\ Len(fromDev) \in n .. Len(fromDev)
      BY <2>1
    <3> QED
      BY <2>1, <3>1, ConcatAdjacentSubSeq
  <2>4. SubSeq(fromDev, 1, Len(fromDev)) = fromDev
    BY <2>1, SubSeqFull
  <2>5. (local \o SubSeq(fromDev, 1, n)) \o SubSeq(fromDev, n + 1, Len(fromDev))
          = local \o (SubSeq(fromDev, 1, n) \o SubSeq(fromDev, n + 1, Len(fromDev)))
    BY <2>1, <2>2, ConcatBytes
  <2> QED
    BY <1>2, <2>3, <2>4, <2>5
<1>4. PICK g \in 0 .. Total, bad \in BOOLEAN : SessionAt(g, bad)
  BY <1>1 DEF SessionInv
<1>5. g \in 0 .. Total' /\ SessionAt(g, bad)'
  BY <1>1, <1>3, <1>4, HostKeeps
<1> QED
  BY <1>1, <1>5

(* A download that has size bytes, and one more to read, has the source. *)
LEMMA DownloadComplete ==
  ASSUME TypeOK, op = "download", ~Done, NEW g \in 0 .. Total, NEW bad \in BOOLEAN,
         SessionAt(g, bad), Len(local) = size, fromDev # << >>
  PROVE  local = Source(mem, addr, size)
<1>1. /\ size \in Byte /\ size \in Nat /\ local \in Seq(Byte) /\ fromDev \in Seq(Byte)
      /\ mem \in [Byte -> Byte] /\ addr \in Byte
  BY ByteFacts DEF TypeOK, Done
<1> DEFINE src == Source(mem, addr, size)
<1>2. src \in Seq(Byte) /\ Len(src) = size
  BY <1>1, SourceType
<1>3. Checksum(src) \in Byte
  BY ChecksumType
<1>4. Answer = Append(src, Checksum(src))
  BY DEF Answer
<1> HIDE DEF src
<1>5. /\ Answer \in Seq(Byte) /\ Len(Answer) = size + 1
      /\ \A i \in 1 .. size : Answer[i] = src[i]
  BY <1>1, <1>2, <1>3, <1>4
<1>6. local \o fromDev = SubSeq(Answer, 1, Answered(g))
  BY DEF SessionAt, LinkAt
<1>7. Len(fromDev) \in Nat /\ Len(fromDev) > 0
  BY <1>1, LenProperties, EmptySeq
<1>8. /\ Len(local \o fromDev) = size + Len(fromDev)
      /\ \A i \in 1 .. size : (local \o fromDev)[i] = local[i]
  <2>1. /\ Len(local \o fromDev) = Len(local) + Len(fromDev)
        /\ \A i \in 1 .. (Len(local) + Len(fromDev)) :
             (local \o fromDev)[i] = IF i <= Len(local) THEN local[i] ELSE fromDev[i - Len(local)]
    BY <1>1, ConcatProperties
  <2> QED
    BY <1>1, <1>7, <2>1
<1>9. Answered(g) \in 0 .. (size + 1) /\ (dpc = "send" \/ g < 3 => Answered(g) =< size)
  <2>1. CASE g < 3
    BY <1>1, <2>1 DEF Answered
  <2>2. CASE g >= 3 /\ dpc = "send"
    <3>1. dlen = size
      <4>1. Total = 3
        BY ItemFacts, CommandFacts DEF Sends
      <4>2. g = 3
        BY <2>2, <4>1
      <4> QED
        BY <2>2, <4>1, <4>2 DEF SessionAt, LinkAt, ConsoleAt, Told
    <3>2. di \in Nat /\ di =< size
      BY <2>2, <3>1, ByteFacts DEF TypeOK
    <3> QED
      BY <1>1, <2>2, <3>2 DEF Answered
  <2>3. CASE g >= 3 /\ dpc # "send"
    BY <1>1, <2>3 DEF Answered
  <2> QED
    BY <2>1, <2>2, <2>3
<1>10. Len(SubSeq(Answer, 1, Answered(g))) = Answered(g)
  <2>1. 0 \in Nat /\ 0 + Answered(g) =< Len(Answer) /\ Answered(g) \in Nat
        /\ 0 + Answered(g) = Answered(g) /\ 0 + 1 = 1
    BY <1>1, <1>5, <1>9
  <2>2. Len(SubSeq(Answer, 0 + 1, 0 + Answered(g))) = Answered(g)
    BY <1>5, <2>1, FilePart
  <2> QED
    BY <2>1, <2>2
<1>11. Answered(g) = size + 1
  BY <1>1, <1>6, <1>7, <1>8, <1>9, <1>10
<1>12. SubSeq(Answer, 1, Answered(g)) = Answer
  BY <1>5, <1>11, SubSeqFull
<1>13. \A i \in 1 .. size : local[i] = src[i]
  BY <1>5, <1>6, <1>8, <1>12
<1>14. local = src
  BY <1>1, <1>2, <1>13, SeqEqual
<1> QED
  BY <1>14 DEF src

(* The host reads the checksum of a download, or gives it up. *)
LEMMA ReadChecksumSession ==
  ASSUME TypeOK, SessionInv, ReadChecksum
  PROVE  SessionInv'
<1> SUFFICES ASSUME synced' PROVE
        /\ \E g \in 0 .. Total', bad \in BOOLEAN : SessionAt(g, bad)'
        /\ op' = "download" /\ Done' /\ result' = 1 /\ ~interrupt'
             => local' = Source(mem', addr', size')
  BY DEF SessionInv
<1>1. /\ UNCHANGED <<op, file, addr, size, sent, toDev, device, local, interrupt>> /\ synced
      /\ hpc' = "exit" /\ ~Done /\ Done'
      /\ ~interrupt => Len(local) = size /\ fromDev # << >>
  BY DEF ReadChecksum, Finish, Done
<1>2. PICK g \in 0 .. Total, bad \in BOOLEAN : SessionAt(g, bad)
  BY <1>1 DEF SessionInv
<1>3. g \in 0 .. Total' /\ SessionAt(g, bad)'
  BY <1>1, <1>2, HostKeeps
<1>4. ASSUME op' = "download", ~interrupt' PROVE local' = Source(mem', addr', size')
  <2>1. op = "download" /\ Len(local) = size /\ fromDev # << >>
    BY <1>1, <1>4
  <2>2. local = Source(mem, addr, size)
    BY <1>1, <1>2, <2>1, DownloadComplete
  <2>3. mem' = mem
    BY <1>1 DEF device
  <2> QED
    BY <1>1, <2>2, <2>3
<1> QED
  BY <1>3, <1>4

(* The host closes the link, with or without a purge. *)
LEMMA CloseSession ==
  ASSUME TypeOK, SessionInv, CloseComms
  PROVE  SessionInv'
<1> SUFFICES ASSUME synced' PROVE
        /\ \E g \in 0 .. Total', bad \in BOOLEAN : SessionAt(g, bad)'
        /\ op' = "download" /\ Done' /\ result' = 1 /\ ~interrupt'
             => local' = Source(mem', addr', size')
  BY DEF SessionInv
<1>1. /\ UNCHANGED <<op, file, addr, size, sent, device, local, result, interrupt>> /\ synced
      /\ hpc' = "closed" /\ hpc = "exit" /\ Done /\ Done'
      /\ toDev' = << >> \/ toDev' = toDev
  BY DEF CloseComms, Done, link
<1>2. PICK g \in 0 .. Total, bad \in BOOLEAN : SessionAt(g, bad)
  BY <1>1 DEF SessionInv
<1>3. op' = "download" /\ result' = 1 /\ ~interrupt' => local' = Source(mem', addr', size')
  BY <1>1 DEF SessionInv, device
<1>4. CASE toDev' = toDev
  <2>1. g \in 0 .. Total' /\ SessionAt(g, bad)'
    BY <1>1, <1>2, <1>4, HostKeeps
  <2> QED
    BY <1>3, <2>1
<1>5. CASE toDev # << >> /\ toDev' = << >>
  <2>1. ConsoleAt(g)
    BY <1>2 DEF SessionAt, LinkAt
  <2>2. /\ ConsoleAt(g)' /\ Total' = Total
        /\ \A k : LoadedUpTo(k)' <=> LoadedUpTo(k)
    BY <1>1, <2>1, ConsoleStays
  <2>3. Total \in Nat /\ Len(toDev) \in Nat /\ g \in Nat
    <3>1. Total \in Nat
      BY ItemFacts
    <3>2. Len(toDev) \in Nat
      BY LenProperties DEF TypeOK
    <3> QED
      BY <3>1, <3>2
  <2>4. Len(toDev') = 0 /\ g + Len(toDev') = g
    BY <1>5, <2>3
  <2>5. g + Len(toDev') =< Total'
    BY <2>2, <2>3, <2>4
  <2>6. Queued(g, FALSE)'
    BY <2>4 DEF Queued
  <2>7. HostAt(g + Len(toDev))'
    <3>1. g > 0 => g + Len(toDev) > 0
      BY <2>3
    <3>2. g > 0 => size \in Byte
      BY <1>2, <3>1 DEF SessionAt, LinkAt, HostAt
    <3> QED
      BY <1>1, <2>4, <3>2 DEF HostAt
  <2>8. op' = "exec" /\ dpc' = "data" => LoadedUpTo(di)'
    <3>1. dpc' = dpc /\ di' = di /\ op' = op
      BY <1>1 DEF device, work
    <3> QED
      BY <1>2, <1>5, <2>2, <3>1 DEF SessionAt, LinkAt
  <2>9. SessionAt(g, FALSE)'
    BY <1>1, <2>2, <2>5, <2>6, <2>7, <2>8 DEF SessionAt, LinkAt
  <2>10. \E b \in BOOLEAN : g \in 0 .. Total' /\ SessionAt(g, b)'
    BY <2>2, <2>9
  <2> QED
    BY <1>3, <2>10
<1> QED
  BY <1>1, <1>4, <1>5

(* The steps of the host keep the session's invariant. *)
LEMMA HostSession ==
  ASSUME TypeOK, TypeOK', SessionInv,
         InitComms \/ HostStep \/ WriteError \/ ReadError \/ Signal
  PROVE  SessionInv'
BY InitCommsSession, CommandSession, DataSession, ChecksumSession, WriteErrorSession,
   HostEndsSession, ReadDataSession, ReadChecksumSession, CloseSession DEF HostStep

-----------------------------------------------------------------------------
(* The steps of the console in a session. *)

(* The console takes the next item of the session. *)
LEMMA ConsoleTakes ==
  ASSUME TypeOK, NEW g \in 0 .. Total, NEW bad \in BOOLEAN, LinkAt(g, bad),
         RecvByte, UNCHANGED host
  PROVE  /\ g + 1 \in 0 .. Total /\ g < Total
         /\ Total' = Total /\ Command' = Command /\ Sends' = Sends
         /\ LinkAt(g + 1, bad)'
         /\ Head(toDev) = Item(g + 1) \/ (bad /\ toDev' = << >>)
         /\ g < Len(Command) => Head(toDev) = Command[g + 1]
         /\ g + 1 = Total => Head(toDev) = Item(Total)
         /\ toDev # << >> /\ fromDev' = fromDev
<1>1. /\ toDev # << >> /\ toDev' = Tail(toDev) /\ fromDev' = fromDev
      /\ UNCHANGED <<hpc, op, file, addr, size, sent>>
  BY DEF RecvByte, host
<1>2. /\ Total \in Nat /\ g \in Nat /\ toDev \in Seq(Byte) /\ Len(Command) \in Nat
      /\ \A k \in 1 .. Len(Command) : Item(k) = Command[k]
  <2>1. /\ Total \in Nat /\ Len(Command) \in Nat
        /\ \A k \in 1 .. Len(Command) : Item(k) = Command[k]
    BY ItemFacts
  <2>2. toDev \in Seq(Byte)
    BY DEF TypeOK
  <2> QED
    BY <2>1, <2>2
<1>3. PICK l \in Nat : l = Len(toDev)
  BY <1>2, LenProperties
<1>4. l >= 1 /\ Len(toDev') = l - 1 /\ \A i \in 1 .. (l - 1) : toDev'[i] = toDev[i + 1]
  <2>1. l # 0
    BY <1>1, <1>2, <1>3, EmptySeq
  <2>2. Len(Tail(toDev)) = Len(toDev) - 1
    BY <1>1, <1>2, HeadTailProperties
  <2>3. \A i \in 1 .. Len(Tail(toDev)) : Tail(toDev)[i] = toDev[i + 1]
    BY <1>1, <1>2, HeadTailProperties
  <2> QED
    BY <1>1, <1>3, <2>1, <2>2, <2>3
<1>5. Head(toDev) = toDev[1]
  BY <1>1, <1>2
<1>6. Total' = Total /\ Command' = Command /\ Sends' = Sends /\ (\A k : Item(k)' = Item(k))
  BY <1>1 DEF Total, Command, Sends, Item
<1>7. (g + 1) + Len(toDev') = g + l /\ g + l =< Total /\ g + 1 =< Total /\ g < Total
  BY <1>2, <1>3, <1>4 DEF LinkAt
<1>8. toDev' = << >> <=> l = 1
  <2>1. toDev' \in Seq(Byte)
    BY <1>1, <1>2, HeadTailProperties
  <2>2. toDev' = << >> <=> Len(toDev') = 0
    BY <2>1, EmptySeq
  <2> QED
    BY <1>4, <2>2
<1>9. Head(toDev) = Item(g + 1) \/ (bad /\ toDev' = << >>)
  BY <1>3, <1>4, <1>5, <1>8 DEF LinkAt, Queued
<1>10. bad => Len(Command) < g + l /\ g + l < Total
  BY <1>3 DEF LinkAt, Bad
<1>11. g < Len(Command) => Head(toDev) = Command[g + 1]
  <2>1. SUFFICES ASSUME g < Len(Command) PROVE Head(toDev) = Command[g + 1]
    OBVIOUS
  <2>2. g + 1 \in 1 .. Len(Command)
    BY <1>2, <2>1
  <2>3. ~(bad /\ toDev' = << >>)
    BY <1>2, <1>8, <1>10, <2>1
  <2> QED
    BY <1>2, <1>9, <2>2, <2>3
<1>12. g + 1 = Total => Head(toDev) = Item(Total)
  BY <1>2, <1>7, <1>8, <1>9, <1>10
<1>13. Queued(g + 1, bad)'
  <2>1. ASSUME NEW i \in 1 .. Len(toDev')
        PROVE  toDev'[i] = Item((g + 1) + i) \/ (bad /\ i = Len(toDev'))
    <3>1. /\ i + 1 \in 1 .. l /\ toDev'[i] = toDev[i + 1] /\ g + (i + 1) = (g + 1) + i
          /\ (i + 1 = l <=> i = Len(toDev'))
      BY <1>2, <1>4
    <3>2. toDev[i + 1] = Item(g + (i + 1)) \/ (bad /\ i + 1 = l)
      BY <1>3, <3>1 DEF LinkAt, Queued
    <3> QED
      BY <3>1, <3>2
  <2> QED
    BY <1>6, <2>1 DEF Queued
<1>14. bad => Bad((g + 1) + Len(toDev))'
  <2>1. bad => Bad(g + l)
    BY <1>3 DEF LinkAt
  <2> QED
    BY <1>1, <1>6, <1>7, <2>1 DEF Bad
<1>15. HostAt((g + 1) + Len(toDev))'
  <2>1. HostAt(g + l)
    BY <1>3 DEF LinkAt
  <2> QED
    BY <1>1, <1>6, <1>7, <2>1 DEF HostAt
<1>16. LinkAt(g + 1, bad)'
  BY <1>6, <1>7, <1>13, <1>14, <1>15 DEF LinkAt
<1> QED
  BY <1>1, <1>2, <1>6, <1>7, <1>9, <1>11, <1>12, <1>16

(* A step of the console that takes nothing leaves the link as it is. *)
LEMMA LinkStays ==
  ASSUME NEW g, NEW bad, LinkAt(g, bad), UNCHANGED host, toDev' = toDev
  PROVE  /\ Total' = Total /\ Command' = Command /\ Sends' = Sends
         /\ LinkAt(g, bad)'
<1>1. UNCHANGED <<hpc, op, file, addr, size, sent, toDev>>
  BY DEF host
<1>2. Total' = Total /\ Command' = Command /\ Sends' = Sends /\ (\A k : Item(k)' = Item(k))
  BY <1>1 DEF Total, Command, Sends, Item
<1>3. Queued(g, bad)'
  BY <1>1, <1>2 DEF LinkAt, Queued
<1>4. bad => Bad(g + Len(toDev))'
  BY <1>1, <1>2 DEF LinkAt, Bad
<1>5. HostAt(g + Len(toDev))'
  BY <1>1, <1>2 DEF LinkAt, HostAt
<1> QED
  BY <1>1, <1>2, <1>3, <1>4, <1>5 DEF LinkAt

(* The console takes the command byte. *)
LEMMA CheckUsbdcSession ==
  ASSUME TypeOK, NEW g \in 0 .. Total, NEW bad \in BOOLEAN, SessionAt(g, bad), CheckUsbdc
  PROVE  \E h \in 0 .. Total' : SessionAt(h, bad)'
<1>1. dpc = "idle" /\ RecvByte /\ UNCHANGED host /\ LinkAt(g, bad) /\ ConsoleAt(g)
  BY DEF CheckUsbdc, SessionAt
<1>2. /\ g + 1 \in 0 .. Total /\ g < Total /\ Total' = Total /\ Command' = Command
      /\ LinkAt(g + 1, bad)' /\ fromDev' = fromDev
      /\ g < Len(Command) => Head(toDev) = Command[g + 1]
  BY <1>1, ConsoleTakes
<1>3. g = 0
  BY <1>1, <1>2 DEF ConsoleAt
<1>4. Head(toDev) = Command[1]
  BY <1>2, <1>3, ItemFacts
<1>5. Command[1] \in {DOWNLOAD, UPLOAD, EXEC, EXEC_EXT}
  BY CommandFacts DEF HostOps
<1>6. dpc' = "addr" /\ dcmd' = Command[1] /\ dbuf' = << >> /\ mem' = mem
  BY <1>4, <1>5 DEF CheckUsbdc, DOWNLOAD, UPLOAD, EXEC, EXEC_EXT, COPYEXEC, GET_BUFF_ADDR
<1>7. ConsoleAt(1)'
  BY <1>2, <1>6 DEF ConsoleAt, Told
<1>8. op' = op /\ (Done' <=> Done) /\ local' = local /\ Answer' = Answer
  BY <1>1, <1>6 DEF host, Done, Answer
<1>9. Answered(1)' = 0 /\ Answered(0) = 0
  BY DEF Answered
<1>10. op' = "download" /\ ~Done' => local' \o fromDev' = SubSeq(Answer', 1, Answered(1)')
  BY <1>2, <1>3, <1>8, <1>9 DEF SessionAt
<1>11. SessionAt(1, bad)'
  <2>1. g + 1 = 1
    BY <1>3
  <2>2. LinkAt(1, bad)'
    BY <1>2, <2>1
  <2> QED
    BY <1>6, <1>7, <1>10, <2>2 DEF SessionAt
<1> QED
  BY <1>2, <1>3, <1>11

(* The console takes the address; EXEC starts the program there. *)
LEMMA RecvAddressSession ==
  ASSUME TypeOK, NEW g \in 0 .. Total, NEW bad \in BOOLEAN, SessionAt(g, bad), RecvAddress
  PROVE  /\ \E h \in 0 .. Total' : SessionAt(h, bad)'
         /\ \A p \in started' \ started : op = "run" /\ p = <<"EXEC", addr>>
<1>1. dpc = "addr" /\ RecvByte /\ UNCHANGED host /\ LinkAt(g, bad) /\ ConsoleAt(g) /\ mem' = mem
  BY DEF RecvAddress, SessionAt
<1>2. /\ g + 1 \in 0 .. Total /\ g < Total /\ Total' = Total /\ Command' = Command
      /\ LinkAt(g + 1, bad)' /\ fromDev' = fromDev
      /\ g < Len(Command) => Head(toDev) = Command[g + 1]
  BY <1>1, ConsoleTakes
<1>3. g = 1 /\ dcmd = Command[1] /\ dbuf = << >>
  BY <1>1 DEF ConsoleAt, Told
<1>4. Head(toDev) = addr
  BY <1>2, <1>3, ItemFacts, CommandFacts
<1>5. /\ dcmd' = Command[1] /\ daddr' = addr /\ dbuf' = << >>
      /\ op' = op /\ addr' = addr /\ size' = size /\ local' = local
  BY <1>1, <1>3, <1>4 DEF RecvAddress, host
<1>6. dcmd = EXEC <=> op = "run"
  BY <1>3, CommandFacts DEF HostOps, DOWNLOAD, UPLOAD, EXEC, EXEC_EXT
<1>7. ConsoleAt(2)'
  <2>1. CASE op = "run"
    <3>1. Total = 2
      BY <2>1, ItemFacts, CommandFacts DEF Sends
    <3>2. dpc' = "running"
      BY <1>6, <2>1 DEF RecvAddress, Start
    <3> QED
      BY <1>2, <3>1, <3>2 DEF ConsoleAt
  <2>2. CASE op # "run"
    <3>1. dpc' = "len"
      BY <1>6, <2>2 DEF RecvAddress
    <3>2. Told(2)'
      BY <1>2, <1>5 DEF Told
    <3> QED
      BY <1>5, <2>2, <3>1, <3>2 DEF ConsoleAt
  <2> QED
    BY <2>1, <2>2
<1>8. dpc' # "data"
  BY DEF RecvAddress, Start
<1>9. (Done' <=> Done) /\ Answer' = Answer /\ Answered(2)' = 0 /\ Answered(1) = 0
  BY <1>1, <1>5 DEF host, Done, Answer, Answered
<1>10. op' = "download" /\ ~Done' => local' \o fromDev' = SubSeq(Answer', 1, Answered(2)')
  BY <1>2, <1>3, <1>5, <1>9 DEF SessionAt
<1>11. SessionAt(2, bad)'
  <2>1. g + 1 = 2
    BY <1>3
  <2>2. LinkAt(2, bad)'
    BY <1>2, <2>1
  <2> QED
    BY <1>7, <1>8, <1>10, <2>2 DEF SessionAt
<1>12. \A p \in started' \ started : op = "run" /\ p = <<"EXEC", addr>>
  BY <1>4, <1>6 DEF RecvAddress, Start
<1> QED
  BY <1>2, <1>3, <1>11, <1>12

(* The console takes the length. *)
LEMMA RecvLengthSession ==
  ASSUME TypeOK, NEW g \in 0 .. Total, NEW bad \in BOOLEAN, SessionAt(g, bad), RecvLength
  PROVE  \E h \in 0 .. Total' : SessionAt(h, bad)'
<1>1. /\ dpc = "len" /\ RecvByte /\ UNCHANGED host /\ LinkAt(g, bad) /\ ConsoleAt(g)
      /\ mem' = mem /\ di = 0 /\ di' = 0
  BY DEF RecvLength, SessionAt, TypeOK
<1>2. /\ g + 1 \in 0 .. Total /\ g < Total /\ Total' = Total /\ Command' = Command
      /\ Sends' = Sends /\ LinkAt(g + 1, bad)' /\ fromDev' = fromDev
      /\ g < Len(Command) => Head(toDev) = Command[g + 1]
  BY <1>1, ConsoleTakes
<1>3. g = 2 /\ op # "run" /\ dcmd = Command[1] /\ daddr = addr /\ dbuf = << >>
  BY <1>1 DEF ConsoleAt, Told
<1>4. Head(toDev) = size
  BY <1>2, <1>3, ItemFacts, CommandFacts DEF HostOps
<1>5. /\ dcmd' = Command[1] /\ daddr' = addr /\ dlen' = size /\ dbuf' = << >>
      /\ op' = op /\ addr' = addr /\ size' = size /\ local' = local /\ file' = file
  BY <1>1, <1>3, <1>4 DEF RecvLength, host
<1>6. Told(3)'
  BY <1>2, <1>5 DEF Told
<1>7. /\ op = "download" => dpc' = "send"
      /\ op = "upload" => dpc' = "data"
      /\ op = "exec" => dpc' = "flags"
  BY <1>3, CommandFacts DEF RecvLength, DOWNLOAD, UPLOAD, EXEC_EXT
<1>8. ConsoleAt(3)'
  <2>1. CASE op = "upload"
    <3>1. Sends /\ Len(Command) = 3 /\ Len(file) \in Nat
      BY <2>1, CommandFacts, LenProperties DEF Sends, TypeOK
    <3>2. 3 \in Len(Command') .. (Len(Command') + Len(file')) /\ di' = 3 - Len(Command')
      BY <1>1, <1>2, <1>5, <3>1
    <3>3. Len(dbuf') = di'
      BY <1>1, <1>5
    <3> QED
      BY <1>2, <1>6, <1>7, <2>1, <3>1, <3>2, <3>3 DEF ConsoleAt
  <2>2. CASE op = "exec" \/ op = "download"
    BY <1>5, <1>6, <1>7, <2>2 DEF ConsoleAt
  <2> QED
    BY <1>3, <2>1, <2>2, CommandFacts DEF HostOps
<1>9. ~(op' = "exec" /\ dpc' = "data")
  BY <1>5, <1>7
<1>10. op = "download" => Answered(3)' = 0
  BY <1>1, <1>7 DEF Answered
<1>11. (Done' <=> Done) /\ Answer' = Answer /\ Answered(2) = 0
  BY <1>1, <1>5 DEF host, Done, Answer, Answered
<1>12. op' = "download" /\ ~Done' => local' \o fromDev' = SubSeq(Answer', 1, Answered(3)')
  BY <1>2, <1>3, <1>5, <1>10, <1>11 DEF SessionAt
<1>13. SessionAt(3, bad)'
  <2>1. g + 1 = 3
    BY <1>3
  <2>2. LinkAt(3, bad)'
    BY <1>2, <2>1
  <2> QED
    BY <1>8, <1>9, <1>12, <2>2 DEF SessionAt
<1> QED
  BY <1>2, <1>3, <1>13

(* The console takes the flags word of EXEC_EXT. *)
LEMMA RecvFlagsSession ==
  ASSUME TypeOK, NEW g \in 0 .. Total, NEW bad \in BOOLEAN, SessionAt(g, bad), RecvFlags
  PROVE  /\ \E h \in 0 .. Total' : SessionAt(h, bad)'
         /\ UNCHANGED <<mem, started>>
<1>1. /\ dpc = "flags" /\ RecvByte /\ UNCHANGED host /\ LinkAt(g, bad) /\ ConsoleAt(g)
      /\ di = 0 /\ di' = 0
  BY DEF RecvFlags, SessionAt, TypeOK
<1>2. /\ g + 1 \in 0 .. Total /\ g < Total /\ Total' = Total /\ Command' = Command
      /\ Sends' = Sends /\ LinkAt(g + 1, bad)' /\ fromDev' = fromDev
      /\ g < Len(Command) => Head(toDev) = Command[g + 1]
  BY <1>1, ConsoleTakes
<1>3. g = 3 /\ op = "exec" /\ dcmd = Command[1] /\ daddr = addr /\ dlen = size
  BY <1>1 DEF ConsoleAt, Told
<1>4. Len(Command) = 4 /\ Command[1] = EXEC_EXT /\ Command[4] = 0 /\ Sends
  BY <1>3, CommandFacts DEF Sends
<1>5. Head(toDev) = 0
  BY <1>2, <1>3, <1>4
<1>6. /\ dcmd' = Command[1] /\ daddr' = addr /\ dlen' = size /\ dflags' = 0
      /\ op' = op /\ addr' = addr /\ size' = size /\ file' = file
  BY <1>1, <1>3, <1>5 DEF RecvFlags, host
<1>7. dpc' = "data" /\ UNCHANGED <<mem, started>>
  BY <1>3, <1>4 DEF RecvFlags, EXEC_EXT, COPYEXEC
<1>8. ConsoleAt(4)'
  <2>1. Told(4)'
    BY <1>2, <1>6 DEF Told
  <2>2. Len(file) \in Nat
    BY LenProperties DEF TypeOK
  <2>3. 4 \in Len(Command') .. (Len(Command') + Len(file')) /\ di' = 4 - Len(Command')
    BY <1>1, <1>2, <1>4, <1>6, <2>2
  <2> QED
    BY <1>2, <1>3, <1>4, <1>6, <1>7, <2>1, <2>3 DEF ConsoleAt
<1>9. LoadedUpTo(di)'
  BY <1>1 DEF LoadedUpTo
<1>10. SessionAt(4, bad)'
  BY <1>2, <1>3, <1>6, <1>8, <1>9 DEF SessionAt
<1> QED
  BY <1>2, <1>3, <1>7, <1>10

(* A console that receives data knows where they go and how many there are. *)
LEMMA DataFacts ==
  ASSUME TypeOK, NEW g \in 0 .. Total, NEW bad \in BOOLEAN, SessionAt(g, bad), dpc = "data"
  PROVE  /\ Sends /\ dcmd = Command[1] /\ daddr = addr /\ dlen = size
         /\ op = "exec" => dflags = 0
         /\ op = "upload" /\ Rw4(size) => Len(dbuf) = di
         /\ di = g - Len(Command) /\ g = Len(Command) + di /\ di \in Nat /\ di =< size
         /\ Len(Command) \in Nat /\ Len(file) = size /\ size \in Nat /\ size \in Byte
         /\ Total = Len(Command) + size + 1
         /\ addr \in Byte /\ LoadAddress(addr) \in Byte
         /\ op = "exec" => Target = LoadAddress(addr) /\ ~Buffered
         /\ op = "upload" => Target = addr /\ (Buffered <=> Rw4(size))
<1>1. /\ Sends /\ g \in Len(Command) .. (Len(Command) + Len(file))
      /\ Told(Len(Command)) /\ di = g - Len(Command)
      /\ op = "upload" /\ Rw4(size) => Len(dbuf) = di
  BY DEF SessionAt, ConsoleAt
<1>2. /\ Len(Command) \in Nat /\ Len(file) = size /\ size \in Nat
      /\ Total = Len(Command) + size + 1
  BY <1>1, ItemFacts
<1>3. /\ op \in {"upload", "exec"} /\ Len(Command) >= 3 /\ (op = "exec" => Len(Command) = 4)
      /\ op = "exec" => Command[1] = EXEC_EXT
      /\ op = "upload" => Command[1] = UPLOAD
  BY <1>1, CommandFacts DEF Sends
<1>4. dcmd = Command[1] /\ daddr = addr /\ dlen = size /\ (op = "exec" => dflags = 0)
  BY <1>1, <1>2, <1>3 DEF Told
<1>5. size \in Byte /\ addr \in Byte
  BY <1>4 DEF TypeOK
<1>6. LoadAddress(addr) \in Byte
  BY <1>5, MemoryAssumption DEF LoadAddress
<1>7. op = "exec" => Target = LoadAddress(addr) /\ ~Buffered
  BY <1>3, <1>4 DEF Target, Buffered, EXEC_EXT, UPLOAD
<1>8. op = "upload" => Target = addr /\ (Buffered <=> Rw4(size))
  BY <1>3, <1>4 DEF Target, Buffered, EXEC_EXT, UPLOAD
<1>9. g = Len(Command) + di /\ di \in Nat /\ di =< size
  BY <1>1, <1>2
<1> QED
  BY <1>1, <1>2, <1>4, <1>5, <1>6, <1>7, <1>8, <1>9

(* A single write changes at most its own cell. *)
LEMMA StoreElsewhere ==
  ASSUME NEW m \in [Byte -> Byte], NEW a \in Byte, NEW b
  PROVE  \A c \in Byte : Store(m, a, b)[c] # m[c] => c = a
BY DEF Store

(* One more byte of a program is in place. *)
LEMMA LoadStep ==
  ASSUME TypeOK, NEW k \in Nat, size \in Byte, k < size, LoadAddress(addr) \in Byte,
         LoadedUpTo(k), UNCHANGED <<addr, size, file>>,
         mem' = Store(mem, Wrap(LoadAddress(addr) + k), file[k + 1])
  PROVE  LoadedUpTo(k + 1)'
<1>0. size \in Nat
  BY ByteFacts
<1>1. PICK a \in Byte : a = LoadAddress(addr)
  OBVIOUS
<1>2. LoadAddress(addr') = a
  BY <1>1
<1>3. ASSUME Writable(a, size), NEW i \in 1 .. (k + 1)
      PROVE  mem'[Wrap(a + i - 1)] = file[i]
  <2>1. /\ Wrap(a + k) \in Byte /\ InRange(Wrap(a + k), a, size)
        /\ \A j \in 0 .. (size - 1) : Wrap(a + j) = Wrap(a + k) => j = k
    <3>1. k \in 0 .. (size - 1)
      BY <1>0
    <3> QED
      BY <1>1, <3>1, RangeCells
  <2>2. mem' = [mem EXCEPT ![Wrap(a + k)] = file[k + 1]]
    BY <1>1, <1>3, <2>1 DEF Store, Writable
  <2>3. i - 1 \in 0 .. (size - 1) /\ a + i - 1 = a + (i - 1)
    BY <1>0, ByteFacts
  <2>4. Wrap(a + (i - 1)) \in Byte
    BY <2>3, RangeCells
  <2>5. mem \in [Byte -> Byte]
    BY DEF TypeOK
  <2>6. CASE i = k + 1
    <3>1. a + (i - 1) = a + k
      BY <2>6, ByteFacts
    <3> QED
      BY <2>1, <2>2, <2>3, <2>5, <2>6, <3>1
  <2>7. CASE i # k + 1
    <3>1. i \in 1 .. k /\ i - 1 # k
      BY <2>7
    <3>2. mem[Wrap(a + i - 1)] = file[i]
      BY <1>1, <1>3, <3>1 DEF LoadedUpTo
    <3>3. Wrap(a + (i - 1)) # Wrap(a + k)
      BY <2>1, <2>3, <3>1
    <3> QED
      BY <2>2, <2>3, <2>4, <2>5, <3>2, <3>3
  <2> QED
    BY <2>6, <2>7
<1> QED
  BY <1>2, <1>3 DEF LoadedUpTo

(* The console receives a byte and stores it where the command says. *)
LEMMA RecvDataSession ==
  ASSUME TypeOK, NEW g \in 0 .. Total, NEW bad \in BOOLEAN, SessionAt(g, bad), RecvData
  PROVE  /\ \E h \in 0 .. Total' : SessionAt(h, bad)'
         /\ started' = started
         /\ \A c \in Byte : mem'[c] # mem[c] => MayWrite(c)
<1>1. /\ dpc = "data" /\ dpc' = "data" /\ RecvByte /\ UNCHANGED host /\ LinkAt(g, bad)
      /\ di < dlen /\ di' = di + 1 /\ started' = started
      /\ UNCHANGED <<dcmd, daddr, dlen, dflags>>
      /\ UNCHANGED <<op, file, addr, size>>
  BY DEF RecvData, SessionAt, host
<1>2. /\ g + 1 \in 0 .. Total /\ Total' = Total /\ Command' = Command
      /\ Sends' = Sends /\ LinkAt(g + 1, bad)' /\ toDev # << >>
      /\ Head(toDev) = Item(g + 1) \/ (bad /\ toDev' = << >>)
  BY <1>1, ConsoleTakes DEF SessionAt
<1>3. /\ Sends /\ dcmd = Command[1] /\ daddr = addr /\ dlen = size
      /\ op = "exec" => dflags = 0
      /\ op = "upload" /\ Rw4(size) => Len(dbuf) = di
      /\ g = Len(Command) + di /\ di \in Nat /\ di =< size
      /\ Len(Command) \in Nat /\ Len(file) = size /\ size \in Nat /\ size \in Byte
      /\ addr \in Byte /\ LoadAddress(addr) \in Byte
      /\ op = "exec" => Target = LoadAddress(addr) /\ ~Buffered
      /\ op = "upload" => Target = addr /\ (Buffered <=> Rw4(size))
  BY <1>1, DataFacts
<1>t. /\ mem \in [Byte -> Byte] /\ dbuf \in Seq(Byte) /\ toDev \in Seq(Byte)
      /\ Head(toDev) \in Byte
  BY <1>2, HeadTailProperties DEF TypeOK
<1>4. op = "upload" \/ op = "exec"
  BY <1>3 DEF Sends
<1>5. op = "upload" /\ Rw4(size) => Len(dbuf') = di'
  <2>1. SUFFICES ASSUME op = "upload", Rw4(size) PROVE Len(dbuf') = di'
    OBVIOUS
  <2>2. dbuf' = Append(dbuf, Head(toDev))
    BY <1>3, <2>1 DEF RecvData
  <2>3. Len(dbuf') = Len(dbuf) + 1
    BY <1>t, <2>2
  <2> QED
    BY <1>1, <1>3, <2>1, <2>3
<1>6. ConsoleAt(g + 1)'
  <2>1. g + 1 \in Len(Command') .. (Len(Command') + Len(file')) /\ di' = (g + 1) - Len(Command')
    BY <1>1, <1>2, <1>3
  <2>2. Told(Len(Command))
    BY <1>1 DEF SessionAt, ConsoleAt
  <2>3. Told(Len(Command))'
    BY <1>1, <1>2, <2>2 DEF Told
  <2> QED
    BY <1>1, <1>2, <1>3, <1>5, <2>1, <2>3 DEF ConsoleAt
<1>7. ASSUME op' = "exec", ~(bad /\ toDev' = << >>) PROVE LoadedUpTo(di)'
  <2>1. op = "exec" /\ ~Buffered /\ LoadedUpTo(di)
    BY <1>1, <1>2, <1>3, <1>7 DEF SessionAt
  <2>2. Head(toDev) = file[di + 1]
    <3>1. di + 1 \in 1 .. size /\ g + 1 = Len(Command) + (di + 1)
      BY <1>1, <1>3
    <3> QED
      BY <1>2, <1>3, <1>7, <3>1, ItemFacts
  <2>3. mem' = Store(mem, Wrap(LoadAddress(addr) + di), file[di + 1])
    BY <1>3, <2>1, <2>2 DEF RecvData
  <2>4. PICK k \in Nat : k = di
    BY <1>3
  <2>5. LoadedUpTo(k + 1)'
    BY <1>1, <1>3, <2>1, <2>3, <2>4, LoadStep
  <2> QED
    BY <1>1, <2>4, <2>5 DEF LoadedUpTo
<1>8. op' # "download"
  BY <1>1, <1>4
<1>9. SessionAt(g + 1, bad)'
  BY <1>2, <1>6, <1>7, <1>8 DEF SessionAt
<1>10. ASSUME NEW c \in Byte, mem'[c] # mem[c] PROVE MayWrite(c)
  <2>1. CASE Buffered
    <3>1. op = "upload" /\ Rw4(size)
      BY <1>3, <1>4, <2>1
    <3>2. /\ di + 1 = dlen
          /\ mem' = StoreWord(mem, Align(daddr, dlen), Append(dbuf, Head(toDev)))
      BY <1>10, <2>1 DEF RecvData
    <3>3. Len(Append(dbuf, Head(toDev))) = size
      BY <1>t, <1>3, <3>1, <3>2
    <3>4. InRange(c, Align(addr, size), size)
      BY <1>t, <1>3, <1>10, <3>2, <3>3 DEF StoreWord
    <3> QED
      BY <3>1, <3>4 DEF MayWrite
  <2>2. CASE ~Buffered
    <3>1. Target \in Byte
      BY <1>3, <1>4
    <3>2. di \in 0 .. (size - 1)
      BY <1>1, <1>3
    <3>3. Wrap(Target + di) \in Byte /\ InRange(Wrap(Target + di), Target, size)
      BY <1>3, <3>1, <3>2, RangeCells
    <3>4. mem' = Store(mem, Wrap(Target + di), Head(toDev))
      BY <2>2 DEF RecvData
    <3>5. c = Wrap(Target + di)
      BY <1>t, <1>10, <3>3, <3>4, StoreElsewhere
    <3>6. op = "upload" => Target = Align(addr, size)
      BY <1>3, <2>2 DEF Align
    <3> QED
      BY <1>3, <1>4, <3>3, <3>5, <3>6 DEF MayWrite
  <2> QED
    BY <2>1, <2>2
<1> QED
  BY <1>1, <1>2, <1>9, <1>10

(* The console compares the checksum of what it has with the one it gets. *)
LEMMA RecvChecksumSession ==
  ASSUME TypeOK, NEW g \in 0 .. Total, NEW bad \in BOOLEAN, SessionAt(g, bad), RecvChecksum
  PROVE  \E h \in 0 .. Total' : SessionAt(h, bad)'
<1>1. /\ dpc = "data" /\ dpc' = "reply" /\ RecvByte /\ UNCHANGED host /\ LinkAt(g, bad)
      /\ di = dlen /\ mem' = mem
      /\ dreply' = IF Head(toDev) = Checksum(Received) THEN 0 ELSE 1
      /\ UNCHANGED <<dcmd, daddr, dlen, dflags>>
      /\ UNCHANGED <<op, file, addr, size>>
  BY DEF RecvChecksum, SessionAt, host
<1>2. /\ g + 1 \in 0 .. Total /\ Total' = Total /\ Command' = Command
      /\ Sends' = Sends /\ LinkAt(g + 1, bad)' /\ toDev # << >>
      /\ g + 1 = Total => Head(toDev) = Item(Total)
  BY <1>1, ConsoleTakes DEF SessionAt
<1>3. /\ Sends /\ dlen = size /\ g = Len(Command) + di
      /\ Len(Command) \in Nat /\ size \in Nat /\ Total = Len(Command) + size + 1
      /\ op = "exec" => Target = LoadAddress(addr) /\ ~Buffered
  BY <1>1, DataFacts
<1>4. g + 1 = Total /\ Head(toDev) = Checksum(file)
  <2>1. g + 1 = Total
    BY <1>1, <1>3
  <2> QED
    BY <1>2, <1>3, <2>1, ItemFacts
<1>5. op = "exec" => LoadedUpTo(size)' /\ (dreply' = 0 => LoadChecked')
  <2>1. SUFFICES ASSUME op = "exec" PROVE LoadedUpTo(size)' /\ (dreply' = 0 => LoadChecked')
    OBVIOUS
  <2>2. LoadedUpTo(di) /\ di = size
    BY <1>1, <1>2, <1>3, <2>1 DEF SessionAt
  <2>3. LoadedUpTo(size)'
    BY <1>1, <2>2 DEF LoadedUpTo
  <2>4. Received = Slice(mem, LoadAddress(addr), size)
    BY <1>3, <2>1 DEF Received
  <2>5. dreply' = 0 => LoadChecked'
    BY <1>1, <1>4, <2>4 DEF LoadChecked
  <2> QED
    BY <2>3, <2>5
<1>6. ConsoleAt(g + 1)'
  <2>1. Told(Len(Command))
    BY <1>1 DEF SessionAt, ConsoleAt
  <2>2. Told(Len(Command))'
    BY <1>1, <1>2, <2>1 DEF Told
  <2> QED
    BY <1>1, <1>2, <1>3, <1>4, <1>5, <2>2 DEF ConsoleAt
<1>7. op' # "download" /\ dpc' # "data"
  BY <1>1, <1>3 DEF Sends
<1>8. SessionAt(g + 1, bad)'
  BY <1>2, <1>6, <1>7 DEF SessionAt
<1> QED
  BY <1>2, <1>8

(***************************************************************************)
(* copystub moves a program of n bytes to dst, where memory takes it, and  *)
(* without flags writes nowhere else.                                      *)
(***************************************************************************)
LEMMA CopystubMoves ==
  ASSUME NEW m \in [Byte -> Byte], NEW src \in Byte, NEW dst \in Byte, NEW n \in Byte
  PROVE  /\ Writable(dst, n) =>
              Slice(Copystub(m, src, n, dst, 0), dst, n) = Slice(m, src, n)
         /\ \A c \in Byte : Copystub(m, src, n, dst, 0)[c] # m[c] => InRange(c, dst, n)
<1> DEFINE m2 == Copystub(m, src, n, dst, 0)
<1>1. Cleared(0) = {}
  <2>1. 0 % 2 # 1 /\ (0 \div 2) % 2 # 1
    OBVIOUS
  <2> QED
    BY <2>1 DEF Cleared
<1>2. \A c \in Byte : m2[c] # m[c] => InRange(c, dst, n)
  BY <1>1 DEF Copystub
<1>3. ASSUME Writable(dst, n), NEW i \in 1 .. n
      PROVE  m2[Wrap(dst + i - 1)] = m[Wrap(src + i - 1)]
  <2>0. n \in Nat /\ src \in Nat /\ dst \in Nat
    BY ByteFacts
  <2>1. i - 1 \in 0 .. (n - 1) /\ dst + i - 1 = dst + (i - 1) /\ src + i - 1 = src + (i - 1)
    BY <2>0
  <2>2. PICK j \in 0 .. (n - 1) : j = i - 1
    BY <2>1
  <2>3. PICK c \in Byte : c = Wrap(dst + j)
    BY <2>2, RangeCells
  <2>4. j \in Byte /\ InRange(c, dst, n) /\ c \notin Rom
    BY <1>3, <2>3, RangeCells DEF Writable
  <2>5. m2[c] = m[Wrap(src + (c - dst))]
    BY <2>4 DEF Copystub
  <2>6. Wrap(src + (c - dst)) = Wrap(src + j)
    <3>1. /\ Width \in Nat /\ Width > 0 /\ src \in 0 .. (Width - 1) /\ dst \in 0 .. (Width - 1)
          /\ j \in 0 .. (Width - 1)
      BY <2>4, ByteFacts DEF Byte
    <3>2. c = dst + j \/ c = (dst + j) - Width
      BY <2>3, <3>1, WrapValue
    <3>3. CASE c = dst + j
      <4>1. src + (c - dst) = src + j
        BY <3>1, <3>3
      <4> QED
        BY <4>1
    <3>4. CASE c = (dst + j) - Width
      <4>1. src + (c - dst) = (src + j) - Width
        BY <3>1, <3>4
      <4>2. CASE src + j < Width
        <5>1. src + j \in 0 .. (Width - 1) /\ (src + j) - Width \in (-Width) .. (-1)
          BY <3>1, <4>2
        <5>2. Wrap(src + j) = src + j
          BY <5>1, WrapValue
        <5>3. Wrap((src + j) - Width) = ((src + j) - Width) + Width
          BY <5>1, WrapValue
        <5> QED
          BY <3>1, <4>1, <5>2, <5>3
      <4>3. CASE src + j >= Width
        <5>1. /\ src + j \in Width .. (2 * Width - 1)
              /\ (src + j) - Width \in 0 .. (Width - 1)
          BY <3>1, <4>3
        <5>2. Wrap(src + j) = (src + j) - Width
          BY <5>1, WrapValue
        <5>3. Wrap((src + j) - Width) = (src + j) - Width
          BY <5>1, WrapValue
        <5> QED
          BY <4>1, <5>2, <5>3
      <4> QED
        BY <3>1, <4>2, <4>3
    <3> QED
      BY <3>2, <3>3, <3>4
  <2> QED
    BY <2>1, <2>2, <2>3, <2>5, <2>6
<1>4. Writable(dst, n) => Slice(m2, dst, n) = Slice(m, src, n)
  BY <1>3 DEF Slice
<1> QED
  BY <1>2, <1>4

(* A whole program in place is the file. *)
LEMMA LoadedIsFile ==
  ASSUME TypeOK, Len(file) = size, LoadedUpTo(size), Writable(LoadAddress(addr), size)
  PROVE  Slice(mem, LoadAddress(addr), size) = file
<1>1. \A i \in 1 .. size : mem[Wrap(LoadAddress(addr) + i - 1)] = file[i]
  BY DEF LoadedUpTo
<1>2. file = [i \in 1 .. size |-> file[i]]
  BY LenProperties DEF TypeOK
<1> QED
  BY <1>1, <1>2 DEF Slice

(* The console replies, and starts the program whose checksum it confirmed. *)
LEMMA SendReplySession ==
  ASSUME TypeOK, NEW g \in 0 .. Total, NEW bad \in BOOLEAN, SessionAt(g, bad), SendReply
  PROVE  /\ \E h \in 0 .. Total' : SessionAt(h, bad)'
         /\ \A p \in started' \ started :
              /\ op = "exec" /\ p = <<"EXEC_EXT", addr>>
              /\ Checksum(Slice(mem, LoadAddress(addr), size)) = Checksum(file)
              /\ Writable(addr, size) /\ Writable(LoadAddress(addr), size)
                   => Slice(mem', addr, size) = file
         /\ \A c \in Byte : mem'[c] # mem[c] => MayWrite(c)
<1>1. /\ dpc = "reply" /\ UNCHANGED host /\ LinkAt(g, bad) /\ toDev' = toDev
      /\ UNCHANGED <<op, file, addr, size>>
  BY DEF SendReply, SendByte, SessionAt, host
<1>2. /\ Sends /\ g = Total /\ Told(Len(Command))
      /\ op = "exec" => LoadedUpTo(size) /\ (dreply = 0 => LoadChecked)
  BY <1>1 DEF SessionAt, ConsoleAt
<1>3. /\ Total' = Total /\ Sends' = Sends /\ LinkAt(g, bad)'
  BY <1>1, LinkStays
<1>4. dpc' \in {"idle", "running"}
  BY DEF SendReply, Start
<1>5. ConsoleAt(g)'
  BY <1>2, <1>3, <1>4 DEF ConsoleAt
<1>6. op' # "download"
  BY <1>1, <1>2 DEF Sends
<1>7. SessionAt(g, bad)'
  BY <1>3, <1>4, <1>5, <1>6 DEF SessionAt
<1>8. /\ op \in {"upload", "exec"} /\ Len(Command) >= 3 /\ (op = "exec" => Len(Command) = 4)
      /\ op = "exec" => Command[1] = EXEC_EXT
      /\ op = "upload" => Command[1] = UPLOAD
      /\ Len(file) = size
  BY <1>2, CommandFacts, ItemFacts DEF Sends
<1>9. dcmd = Command[1] /\ daddr = addr /\ dlen = size /\ (op = "exec" => dflags = 0)
  BY <1>2, <1>8 DEF Told
<1>10. dcmd = EXEC_EXT <=> op = "exec"
  BY <1>8, <1>9 DEF EXEC_EXT, UPLOAD
<1>11. CASE op = "exec" /\ dreply = 0
  <2>1. /\ started' = started \cup {<<"EXEC_EXT", addr>>}
        /\ mem' = Copystub(mem, LoadAddress(addr), size, addr, 0)
    BY <1>9, <1>10, <1>11 DEF SendReply, Start, Target
  <2>2. /\ size \in Byte /\ addr \in Byte /\ mem \in [Byte -> Byte]
        /\ LoadAddress(addr) \in Byte
    BY <1>9, MemoryAssumption DEF TypeOK, LoadAddress
  <2>3. /\ Writable(addr, size) => Slice(mem', addr, size) = Slice(mem, LoadAddress(addr), size)
        /\ \A c \in Byte : mem'[c] # mem[c] => InRange(c, addr, size)
    BY <2>1, <2>2, CopystubMoves
  <2>4. Writable(LoadAddress(addr), size) => Slice(mem, LoadAddress(addr), size) = file
    BY <1>2, <1>8, <1>11, LoadedIsFile
  <2>5. LoadChecked
    BY <1>2, <1>11
  <2>6. \A c \in Byte : mem'[c] # mem[c] => MayWrite(c)
    BY <1>11, <2>3 DEF MayWrite
  <2>7. ASSUME NEW p \in started' \ started
        PROVE  /\ op = "exec" /\ p = <<"EXEC_EXT", addr>>
               /\ Checksum(Slice(mem, LoadAddress(addr), size)) = Checksum(file)
               /\ Writable(addr, size) /\ Writable(LoadAddress(addr), size)
                    => Slice(mem', addr, size) = file
    BY <1>11, <2>1, <2>3, <2>4, <2>5 DEF LoadChecked
  <2> QED
    BY <1>3, <1>7, <2>6, <2>7
<1>12. CASE ~(op = "exec" /\ dreply = 0)
  <2>1. UNCHANGED <<started, mem>>
    BY <1>10, <1>12 DEF SendReply
  <2> QED
    BY <1>3, <1>7, <2>1
<1> QED
  BY <1>11, <1>12

(* One more item of the answer to a download. *)
LEMMA AnswerStep ==
  ASSUME NEW a \in Seq(Byte), NEW s \in Seq(Byte), NEW t \in Seq(Byte),
         NEW k \in Nat, k < Len(a), s \o t = SubSeq(a, 1, k)
  PROVE  s \o Append(t, a[k + 1]) = SubSeq(a, 1, k + 1)
<1>0. Len(a) \in Nat
  BY LenProperties
<1>1. k + 1 \in 1 .. Len(a) /\ 1 \in 1 .. Len(a) /\ (k + 1) - 1 = k
  BY <1>0
<1>2. PICK b \in Byte : b = a[k + 1]
  BY <1>1, ElementOfSeq
<1>3. <<b>> \in Seq(Byte)
  OBVIOUS
<1>4. Append(t, b) = t \o <<b>>
  BY AppendIsConcat
<1>5. (s \o t) \o <<b>> = s \o (t \o <<b>>)
  BY <1>3, ConcatBytes
<1>6. SubSeq(a, 1, k + 1) = SubSeq(a, 1, (k + 1) - 1) \o <<a[k + 1]>>
  BY <1>1, SubSeqRecursiveSecond
<1> QED
  BY <1>1, <1>2, <1>4, <1>5, <1>6

(* The console sends a byte, or the checksum, of a download. *)
LEMMA SendSession ==
  ASSUME TypeOK, NEW g \in 0 .. Total, NEW bad \in BOOLEAN, SessionAt(g, bad),
         SendData \/ SendChecksum
  PROVE  /\ \E h \in 0 .. Total' : SessionAt(h, bad)'
         /\ UNCHANGED <<started, mem>>
<1>1. /\ dpc = "send" /\ UNCHANGED host /\ LinkAt(g, bad) /\ toDev' = toDev
      /\ UNCHANGED <<op, file, addr, size, local, started, mem>>
      /\ UNCHANGED <<dcmd, daddr, dlen>>
  BY DEF SendData, SendChecksum, SendByte, SessionAt, host, work
<1>2. g = 3 /\ op = "download" /\ Told(3) /\ dlen = size /\ daddr = addr
  BY <1>1 DEF SessionAt, ConsoleAt, Told
<1>3. Total' = Total /\ Command' = Command /\ LinkAt(g, bad)' /\ Total = 3
  BY <1>1, <1>2, LinkStays, ItemFacts, CommandFacts DEF Sends
<1>4. (Done' <=> Done) /\ Answer' = Answer
  BY <1>1 DEF host, Done, Answer
<1> DEFINE src == Source(mem, addr, size)
<1>5. /\ src \in Seq(Byte) /\ Len(src) = size /\ size \in Nat /\ di \in Nat
      /\ local \in Seq(Byte) /\ fromDev \in Seq(Byte)
  <2>1. size \in Byte /\ addr \in Byte /\ mem \in [Byte -> Byte]
    BY <1>2 DEF TypeOK
  <2>2. src \in Seq(Byte) /\ Len(src) = size
    BY <2>1, SourceType
  <2> QED
    BY <2>1, <2>2, ByteFacts DEF TypeOK
<1>6. Answer = Append(src, Checksum(src)) /\ Checksum(src) \in Byte
  BY ChecksumType DEF Answer
<1>d. Source(mem, daddr, dlen) = src
  BY <1>2
<1> HIDE DEF src
<1>7. /\ Answer \in Seq(Byte) /\ Len(Answer) = size + 1
      /\ Answer[size + 1] = Checksum(src)
      /\ \A i \in 1 .. size : Answer[i] = src[i]
  BY <1>5, <1>6
<1>8. Answered(3) = di
  BY <1>1 DEF Answered
<1>9. ~Done => local \o fromDev = SubSeq(Answer, 1, di)
  BY <1>2, <1>8 DEF SessionAt
<1>10. CASE SendData
  <2>1. /\ di < size /\ dpc' = "send" /\ di' = di + 1
        /\ fromDev' = Append(fromDev, src[di + 1])
    BY <1>d, <1>2, <1>10 DEF SendData, SendByte
  <2>2. di + 1 \in 1 .. size
    BY <1>5, <2>1
  <2>3. di < Len(Answer) /\ src[di + 1] = Answer[di + 1]
    BY <1>5, <1>7, <2>1, <2>2
  <2>4. ~Done => local \o fromDev' = SubSeq(Answer, 1, di + 1)
    <3>1. PICK k \in Nat : k = di
      BY <1>5
    <3> QED
      BY <1>5, <1>7, <1>9, <2>1, <2>3, <3>1, AnswerStep
  <2>5. Answered(3)' = di + 1
    BY <2>1 DEF Answered
  <2>6. Told(3)'
    BY <1>1, <1>2, <1>3 DEF Told
  <2>7. ConsoleAt(3)'
    BY <1>1, <1>2, <2>1, <2>6 DEF ConsoleAt
  <2>8. op' = "download" /\ ~Done' => local' \o fromDev' = SubSeq(Answer', 1, Answered(3)')
    BY <1>1, <1>4, <2>4, <2>5
  <2>9. SessionAt(3, bad)'
    BY <1>1, <1>2, <1>3, <2>1, <2>7, <2>8 DEF SessionAt
  <2> QED
    BY <1>1, <1>3, <2>9
<1>11. CASE SendChecksum
  <2>1. /\ di = size /\ dpc' = "idle"
        /\ fromDev' = Append(fromDev, Checksum(src))
    BY <1>d, <1>2, <1>11 DEF SendChecksum, SendByte
  <2>2. ~Done => local \o fromDev' = SubSeq(Answer, 1, size + 1)
    <3>1. ~Done => local \o fromDev = SubSeq(Answer, 1, size)
      BY <1>9, <2>1
    <3>2. size < Len(Answer)
      BY <1>5, <1>7
    <3>3. PICK k \in Nat : k = size
      BY <1>5
    <3> QED
      BY <1>5, <1>7, <2>1, <3>1, <3>2, <3>3, AnswerStep
  <2>3. Answered(3)' = size + 1
    BY <1>1, <2>1 DEF Answered
  <2>4. ConsoleAt(3)'
    BY <1>3, <2>1 DEF ConsoleAt
  <2>5. op' = "download" /\ ~Done' => local' \o fromDev' = SubSeq(Answer', 1, Answered(3)')
    BY <1>1, <1>4, <2>2, <2>3
  <2>6. SessionAt(3, bad)'
    BY <1>1, <1>2, <1>3, <2>1, <2>4, <2>5 DEF SessionAt
  <2> QED
    BY <1>1, <1>3, <2>6
<1> QED
  BY <1>10, <1>11

(* The program that was started polls the link. *)
LEMMA PollSession ==
  ASSUME TypeOK, NEW g \in 0 .. Total, NEW bad \in BOOLEAN, SessionAt(g, bad), Poll
  PROVE  /\ \E h \in 0 .. Total' : SessionAt(h, bad)'
         /\ UNCHANGED <<started, mem>>
<1>1. /\ dpc = "running" /\ dpc' = "idle" /\ UNCHANGED host /\ toDev' = toDev
      /\ fromDev' = fromDev /\ di' = di
      /\ UNCHANGED <<op, file, addr, size, local, started, mem>>
      /\ LinkAt(g, bad) /\ ConsoleAt(g)
  BY DEF Poll, host, link, work, SessionAt
<1>2. Total' = Total /\ LinkAt(g, bad)'
  BY <1>1, LinkStays
<1>3. g = 0 \/ g = Total
  BY <1>1 DEF ConsoleAt
<1>4. ConsoleAt(g)'
  BY <1>1, <1>2, <1>3 DEF ConsoleAt
<1>5. (Done' <=> Done) /\ Answer' = Answer /\ Answered(g)' = Answered(g)
  BY <1>1 DEF host, Done, Answer, Answered
<1>6. op' = "download" /\ ~Done' => local' \o fromDev' = SubSeq(Answer', 1, Answered(g)')
  BY <1>1, <1>5 DEF SessionAt
<1>7. SessionAt(g, bad)'
  BY <1>1, <1>2, <1>4, <1>6 DEF SessionAt
<1> QED
  BY <1>1, <1>2, <1>7

(***************************************************************************)
(* What a step of the console does in a session: it keeps the invariant,   *)
(* starts only what was asked for, and writes only where it may.           *)
(***************************************************************************)
LEMMA ConsoleStep ==
  ASSUME TypeOK, synced, SessionInv, DeviceStep
  PROVE  /\ SessionInv'
         /\ \A p \in started' \ started :
              \/ op = "run" /\ p = <<"EXEC", addr>>
              \/ /\ op = "exec" /\ p = <<"EXEC_EXT", addr>>
                 /\ Checksum(Slice(mem, LoadAddress(addr), size)) = Checksum(file)
                 /\ Writable(addr, size) /\ Writable(LoadAddress(addr), size)
                      => Slice(mem', addr, size) = file
         /\ \A c \in Byte : mem'[c] # mem[c] => MayWrite(c)
<1>1. PICK g \in 0 .. Total, bad \in BOOLEAN : SessionAt(g, bad)
  BY DEF SessionInv
<1>2. UNCHANGED host
  BY DEF DeviceStep, CheckUsbdc, RecvAddress, RecvLength, RecvFlags, RecvData,
         RecvChecksum, SendReply, SendData, SendChecksum, Poll
<1>3. \E h \in 0 .. Total' : SessionAt(h, bad)'
  <2>1. CASE CheckUsbdc
    BY <1>1, <2>1, CheckUsbdcSession
  <2>2. CASE RecvAddress
    BY <1>1, <2>2, RecvAddressSession
  <2>3. CASE RecvLength
    BY <1>1, <2>3, RecvLengthSession
  <2>4. CASE RecvFlags
    BY <1>1, <2>4, RecvFlagsSession
  <2>5. CASE RecvData
    BY <1>1, <2>5, RecvDataSession
  <2>6. CASE RecvChecksum
    BY <1>1, <2>6, RecvChecksumSession
  <2>7. CASE SendReply
    BY <1>1, <2>7, SendReplySession
  <2>8. CASE SendData \/ SendChecksum
    BY <1>1, <2>8, SendSession
  <2>9. CASE Poll
    BY <1>1, <2>9, PollSession
  <2> QED
    BY <2>1, <2>2, <2>3, <2>4, <2>5, <2>6, <2>7, <2>8, <2>9 DEF DeviceStep
<1>4. op = "download" => mem' = mem
  <2>1. SUFFICES ASSUME op = "download" PROVE mem' = mem
    OBVIOUS
  <2>2. dpc \notin {"flags", "data", "reply"}
    BY <1>1, <2>1 DEF SessionAt, ConsoleAt, Sends
  <2> QED
    BY <2>2 DEF DeviceStep, CheckUsbdc, RecvAddress, RecvLength, RecvFlags, RecvData,
                RecvChecksum, SendReply, SendData, SendChecksum, Poll
<1>5. SessionInv'
  <2>1. UNCHANGED <<hpc, op, addr, size, local, result, interrupt>>
    BY <1>2 DEF host
  <2>2. op' = "download" /\ Done' /\ result' = 1 /\ ~interrupt'
          => local' = Source(mem', addr', size')
    BY <1>4, <2>1 DEF SessionInv, Done
  <2>3. \E h \in 0 .. Total', b \in BOOLEAN : SessionAt(h, b)'
    BY <1>3
  <2> QED
    BY <2>2, <2>3 DEF SessionInv
<1>6. CASE UNCHANGED <<started, mem>>
  BY <1>5, <1>6
<1>7. CASE RecvAddress
  <2>1. mem' = mem
    BY <1>7 DEF RecvAddress
  <2> QED
    BY <1>1, <1>5, <1>7, <2>1, RecvAddressSession
<1>8. CASE RecvData
  BY <1>1, <1>5, <1>8, RecvDataSession
<1>9. CASE SendReply
  BY <1>1, <1>5, <1>9, SendReplySession
<1>10. CASE CheckUsbdc \/ RecvLength \/ RecvFlags \/ RecvChecksum \/ SendData \/ SendChecksum \/ Poll
  <2>1. UNCHANGED <<started, mem>>
    <3>1. CASE CheckUsbdc \/ RecvLength \/ RecvChecksum
      BY <3>1 DEF CheckUsbdc, RecvLength, RecvChecksum
    <3>2. CASE RecvFlags
      BY <1>1, <3>2, RecvFlagsSession
    <3>3. CASE SendData \/ SendChecksum
      BY <1>1, <3>3, SendSession
    <3>4. CASE Poll
      BY <3>4 DEF Poll
    <3> QED
      BY <1>10, <3>1, <3>2, <3>3, <3>4
  <2> QED
    BY <1>6, <2>1
<1> QED
  BY <1>7, <1>8, <1>9, <1>10 DEF DeviceStep

(* Init is a session that said nothing, on an idle console. *)
LEMMA InitSession == Init => SessionInv
<1> SUFFICES ASSUME Init PROVE SessionInv
  OBVIOUS
<1>0. TypeOK
  BY InitTypeOK
<1>1. Total \in Nat /\ op = "run" /\ hpc = "closed" /\ toDev = << >> /\ dpc = "idle"
  BY <1>0, ItemFacts DEF Init
<1>2. Len(toDev) = 0 /\ 0 + Len(toDev) = 0 /\ 0 \in 0 .. Total /\ 0 =< Total
  BY <1>1
<1>3. LinkAt(0, FALSE)
  BY <1>1, <1>2 DEF LinkAt, Queued, HostAt
<1>4. ConsoleAt(0)
  BY <1>1 DEF ConsoleAt
<1>5. SessionAt(0, FALSE)
  BY <1>1, <1>3, <1>4 DEF SessionAt
<1>6. FALSE \in BOOLEAN
  OBVIOUS
<1>7. \E g \in 0 .. Total, bad \in BOOLEAN : SessionAt(g, bad)
  BY <1>2, <1>5, <1>6
<1> QED
  BY <1>1, <1>7 DEF SessionInv

(* A step that changes nothing keeps the session's invariant. *)
LEMMA StutterSession ==
  ASSUME SessionInv, UNCHANGED vars
  PROVE  SessionInv'
<1>1. /\ UNCHANGED host /\ UNCHANGED link /\ UNCHANGED device /\ synced' = synced
  BY DEF vars
<1>2. /\ UNCHANGED <<hpc, op, file, addr, size, sent, local, result, interrupt>>
      /\ UNCHANGED <<toDev, fromDev, dpc, di, mem>>
  BY <1>1 DEF host, link, device, work
<1> SUFFICES ASSUME synced' PROVE
        /\ \E g \in 0 .. Total', bad \in BOOLEAN : SessionAt(g, bad)'
        /\ op' = "download" /\ Done' /\ result' = 1 /\ ~interrupt'
             => local' = Source(mem', addr', size')
  BY DEF SessionInv
<1>3. PICK g \in 0 .. Total, bad \in BOOLEAN : SessionAt(g, bad)
  BY <1>1 DEF SessionInv
<1>4. LinkAt(g, bad) /\ ConsoleAt(g)
  BY <1>3 DEF SessionAt
<1>5. Total' = Total /\ LinkAt(g, bad)'
  BY <1>1, <1>2, <1>4, LinkStays
<1>6. /\ ConsoleAt(g)' /\ \A k : LoadedUpTo(k)' <=> LoadedUpTo(k)
      /\ Answer' = Answer /\ Answered(g)' = Answered(g)
  BY <1>1, <1>2, <1>4, ConsoleStays
<1>7. Done' <=> Done
  BY <1>2 DEF Done
<1>8. op' = "exec" /\ dpc' = "data" /\ ~(bad /\ toDev' = << >>) => LoadedUpTo(di)'
  BY <1>2, <1>3, <1>6 DEF SessionAt
<1>9. op' = "download" /\ ~Done' => local' \o fromDev' = SubSeq(Answer', 1, Answered(g)')
  BY <1>2, <1>3, <1>6, <1>7 DEF SessionAt
<1>10. SessionAt(g, bad)'
  BY <1>5, <1>6, <1>8, <1>9 DEF SessionAt
<1> QED
  BY <1>1, <1>2, <1>5, <1>7, <1>10 DEF SessionInv

(* Where the session stands, in every state. *)
LEMMA SessionTracked == Spec => [](TypeOK /\ SessionInv)
<1>1. Init => SessionInv
  BY InitSession
<1>2. TypeOK /\ TypeOK' /\ SessionInv /\ [Next]_vars => SessionInv'
  <2> SUFFICES ASSUME TypeOK, TypeOK', SessionInv, [Next]_vars PROVE SessionInv'
    OBVIOUS
  <2>1. CASE InitComms \/ HostStep \/ WriteError \/ ReadError \/ Signal
    BY <2>1, HostSession
  <2>2. CASE DeviceStep
    <3>1. synced' = synced
      BY <2>2 DEF DeviceStep, CheckUsbdc, RecvAddress, RecvLength, RecvFlags, RecvData,
             RecvChecksum, SendReply, SendData, SendChecksum, Poll
    <3>2. CASE synced
      BY <2>2, <3>2, ConsoleStep
    <3>3. CASE ~synced
      BY <3>1, <3>3 DEF SessionInv
    <3> QED
      BY <3>2, <3>3
  <2>3. CASE PowerCycle
    BY <2>3 DEF PowerCycle, SessionInv
  <2>4. CASE UNCHANGED vars
    BY <2>4, StutterSession
  <2> QED
    BY <2>1, <2>2, <2>3, <2>4 DEF Next
<1> QED
  BY <1>1, <1>2, TypeCorrect, PTL DEF Spec

(***************************************************************************)
(* For every memory, file size, CRC and interleaving: a download that      *)
(* reports success and was not interrupted has the requested bytes in the  *)
(* local file, none lost, repeated or taken from an earlier session.       *)
(***************************************************************************)
THEOREM DownloadCorrect == Spec => []DownloadFaithful
<1>1. SessionInv => DownloadFaithful
  BY DEF SessionInv, DownloadFaithful, Success
<1> QED
  BY <1>1, SessionTracked, PTL

(***************************************************************************)
(* For every program, address and memory map, and however the transfer was *)
(* interrupted or failed: the console starts nothing but what the command  *)
(* names, and an uploaded program only with its checksum confirmed.        *)
(***************************************************************************)
THEOREM StartsAsAsked == Spec => StartedAsAsked
<1>1. TypeOK /\ SessionInv /\ [Next]_vars =>
        [synced => \A p \in started' \ started :
            \/ op = "run" /\ p = <<"EXEC", addr>>
            \/ /\ op = "exec" /\ p = <<"EXEC_EXT", addr>>
               /\ Checksum(Slice(mem, LoadAddress(addr), size)) = Checksum(file)
               /\ Writable(addr, size) /\ Writable(LoadAddress(addr), size)
                    => Slice(mem', addr, size) = file]_vars
  <2> SUFFICES ASSUME TypeOK, SessionInv, Next, synced,
                      NEW p \in started' \ started
               PROVE  \/ op = "run" /\ p = <<"EXEC", addr>>
                      \/ /\ op = "exec" /\ p = <<"EXEC_EXT", addr>>
                         /\ Checksum(Slice(mem, LoadAddress(addr), size)) = Checksum(file)
                         /\ Writable(addr, size) /\ Writable(LoadAddress(addr), size)
                              => Slice(mem', addr, size) = file
    OBVIOUS
  <2>1. CASE InitComms \/ HostStep \/ WriteError \/ ReadError \/ Signal \/ PowerCycle
    <3>1. started' = {} \/ started' = started
      BY <2>1 DEF InitComms, HostStep, WriteError, ReadError, Signal, PowerCycle,
             SendCommandWithAddressAndLength, WriteData, WriteChecksum, ReadResult,
             ReadData, ReadChecksum, CloseComms, device
    <3> QED
      BY <3>1
  <2>2. CASE DeviceStep
    BY <2>2, ConsoleStep
  <2> QED
    BY <2>1, <2>2 DEF Next
<1> QED
  BY <1>1, SessionTracked, PTL DEF Spec, StartedAsAsked

(***************************************************************************)
(* For every address, size and memory map: no step of a session writes     *)
(* memory that its command does not name, also after Ctrl+C has made the   *)
(* host send the checksum where the console expects data.                  *)
(***************************************************************************)
THEOREM WritesAsAsked == Spec => WritesInRange
<1>1. TypeOK /\ SessionInv /\ [Next]_vars =>
        [synced /\ synced' => \A c \in Byte : mem'[c] # mem[c] => MayWrite(c)]_vars
  <2> SUFFICES ASSUME TypeOK, SessionInv, Next, synced, synced',
                      NEW c \in Byte, mem'[c] # mem[c]
               PROVE  MayWrite(c)
    OBVIOUS
  <2>1. CASE InitComms \/ HostStep \/ WriteError \/ ReadError \/ Signal
    <3>1. mem' = mem
      BY <2>1 DEF InitComms, HostStep, WriteError, ReadError, Signal,
             SendCommandWithAddressAndLength, WriteData, WriteChecksum, ReadResult,
             ReadData, ReadChecksum, CloseComms, device
    <3> QED
      BY <3>1
  <2>2. CASE PowerCycle
    BY <2>2 DEF PowerCycle
  <2>3. CASE DeviceStep
    BY <2>3, ConsoleStep
  <2> QED
    BY <2>1, <2>2, <2>3 DEF Next
<1> QED
  BY <1>1, SessionTracked, PTL DEF Spec, WritesInRange

=============================================================================
