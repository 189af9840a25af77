-------------------------------- MODULE Lzf ---------------------------------
(***************************************************************************)
(* The compression of satcom_lib (sc_compress.c): lzf_compress and         *)
(* lzf_decompress, and the header that comp_exec puts in front, which says *)
(* whether the data is compressed and how long it was.  The widths of the  *)
(* format are parameters, scaled together: a byte has Base values (256),   *)
(* the low part of a control byte MaxLit of them (32).                     *)
(* Positions in the input count from 1.                                    *)
(***************************************************************************)
EXTENDS Integers, Sequences, SequencesExt

CONSTANTS
    Base,       \* values of a byte
    MaxLit,     \* MAX_LIT, the longest run of literals
    Slots,      \* HSIZE, the slots of the hash table
    Unroll,     \* comparisons written out before the loop of a match (16)
    OneByte,    \* the longest data whose length takes one byte (240)
    TwoBytes    \* the longest data whose length takes two bytes (65500)

LongRef == Base \div MaxLit - 1     \* the length that announces a length byte (7)
MAX_OFF == MaxLit * Base
MAX_REF == Base + LongRef + 1

(***************************************************************************)
(* The widths fit together: a control byte has room for a reference, three *)
(* bytes for a hash value, and the comparisons that are written out do not *)
(* run past the longest reference.                                         *)
(***************************************************************************)
ASSUME FormatAssumption ==
    /\ {Base, MaxLit, Slots, Unroll, OneByte, TwoBytes} \subseteq Nat \ {0}
    /\ MaxLit < Base /\ Base % MaxLit = 0 /\ (Base * Base * Base) % Slots = 0
    /\ Unroll + 3 =< MAX_REF
    /\ OneByte < Base /\ TwoBytes < Base * Base /\ OneByte < TwoBytes

-----------------------------------------------------------------------------
(* lzf_compress.  A state of the loop: ip, the next input byte; out, what   *)
(* was written up to the current run of literals; run, that run, whose      *)
(* length is lit and whose control byte is written when it stops; full, the *)
(* output did not fit.                                                      *)

(* IDX of the three bytes at i. *)
IDX(d, i) ==
    LET h == (d[i] * Base + d[i + 1]) * Base + d[i + 2]
    IN  ((h \div ((Base * Base * Base) \div Slots)) - h * 5) % Slots

(* The offset of op in the output. *)
Op(s) == Len(s.out) + 1 + Len(s.run)

StopRun(s) == IF s.run = <<>> THEN s.out ELSE s.out \o <<Len(s.run) - 1>> \o s.run

AddLiteral(s, byte) ==
    LET t == [s EXCEPT !.run = Append(@, byte), !.ip = @ + 1]
    IN  IF Len(t.run) = MaxLit THEN [t EXCEPT !.out = StopRun(t), !.run = <<>>] ELSE t

(* The position in the slot of ip may start a match: position 0 is the      *)
(* empty slot, and the first byte of the input is never referred to.        *)
Matches(d, ref, ip) ==
    /\ ref > 1 /\ ref < ip
    /\ ip - ref - 1 < MAX_OFF
    /\ ip + 4 < Len(d) + 1
    /\ \A k \in 0 .. 2 : d[ref + k] = d[ip + k]

FirstOf(S) == CHOOSE k \in S : \A j \in S : k =< j

(* The bytes that match.  A match with more than Unroll bytes to come is    *)
(* compared without asking for the end of the input.                        *)
MatchLength(d, ref, ip) ==
    LET left == Len(d) + 1 - ip - 2
        maxlen == IF left > MAX_REF THEN MAX_REF ELSE left
        Differ(k) == d[ref + k] # d[ip + k]
        blind == IF maxlen > Unroll THEN {k \in 3 .. Unroll + 2 : Differ(k)} ELSE {}
        start == IF maxlen > Unroll THEN Unroll + 3 ELSE 3
    IN  IF blind # {} THEN FirstOf(blind)
        ELSE FirstOf({k \in start .. start + maxlen : k >= maxlen \/ Differ(k)})

(* A broken variant: the longest short reference is one too long. *)
ReferenceNarrow(off, length) ==
    LET len == length - 2
    IN  IF len =< LongRef THEN <<(off \div Base) + len * MaxLit, off % Base>>
        ELSE <<(off \div Base) + LongRef * MaxLit, (len - LongRef) % Base, off % Base>>

(* The two or three bytes of a reference to length bytes, off + 1 back. *)
Reference(off, length) ==
    LET len == length - 2
    IN  IF len < LongRef THEN <<(off \div Base) + len * MaxLit, off % Base>>
        ELSE <<(off \div Base) + LongRef * MaxLit, (len - LongRef) % Base, off % Base>>

Enter(d, htab, i) == [htab EXCEPT ![IDX(d, i)] = i]

(* A match is written; the two positions before its end enter the table. *)
TakeMatch(d, s, ref) ==
    LET length == MatchLength(d, ref, s.ip)
        ip == s.ip + length
    IN  [s EXCEPT !.out = StopRun(s) \o Reference(s.ip - ref - 1, length),
                  !.run = <<>>, !.ip = ip,
                  !.htab = IF ip >= Len(d) - 1 THEN @ ELSE Enter(d, Enter(d, @, ip - 2), ip - 1)]

(* One round of the loop.  When less than three bytes are left, it is over. *)
CompressStep(d, outLen, s) ==
    LET slot == IDX(d, s.ip)
        ref == s.htab[slot]
        t == [s EXCEPT !.htab[slot] = s.ip]
        undone == IF s.run = <<>> THEN 1 ELSE 0
    IN  IF s.full \/ s.ip >= Len(d) - 1 THEN s
        ELSE IF Matches(d, ref, s.ip)
        THEN IF Op(s) - undone + 3 + 1 >= outLen THEN [s EXCEPT !.full = TRUE]
             ELSE TakeMatch(d, t, ref)
        ELSE IF Op(s) >= outLen THEN [s EXCEPT !.full = TRUE]
             ELSE AddLiteral(t, d[s.ip])

(* A round takes a byte at least, so it is over after Len(d) of them. *)
CompressLoop(d, outLen, s) ==
    LET after[n \in Nat] == IF n = 0 THEN s ELSE CompressStep(d, outLen, after[n - 1])
    IN  after[Len(d)]

(* The bytes that are left, two at most, and the end of the run. *)
OneMore(d, s) == IF s.ip > Len(d) THEN s ELSE AddLiteral(s, d[s.ip])

Remaining(d, s) == StopRun(OneMore(d, OneMore(d, s)))

(* What was written, nothing if it does not fit in outLen bytes. *)
lzf_compress(d, outLen) ==
    LET start == [ip |-> 1, out |-> <<>>, run |-> <<>>, full |-> FALSE,
                  htab |-> [i \in 0 .. Slots - 1 |-> 0]]
        end == CompressLoop(d, outLen, start)
    IN  IF d = <<>> \/ outLen = 0 \/ end.full \/ Op(end) + 3 > outLen THEN <<>>
        ELSE Remaining(d, end)

-----------------------------------------------------------------------------
(* lzf_decompress; the input is not checked (CHECK_INPUT is 0). *)

(* The bytes are copied one by one, so a reference may run into its own copy. *)
CopyBack(out, back, length) ==
    out \o [i \in 1 .. length |-> out[Len(out) - back + ((i - 1) % (back + 1))]]

(* One round of the loop: a run of literals or a reference.  ip is the next *)
(* byte of c, out what was written, bad that it does not fit.               *)
DecompressStep(c, outLen, t) ==
    LET ctrl == c[t.ip]
        n == ctrl + 1
        short == ctrl \div MaxLit
        long == short = LongRef
        length == 2 + short + (IF long THEN c[t.ip + 1] ELSE 0)
        last == IF long THEN t.ip + 2 ELSE t.ip + 1
        back == (ctrl % MaxLit) * Base + c[last]
    IN  IF t.bad \/ (t.ip > Len(c) /\ t.ip > 1) THEN t
        ELSE IF ctrl < MaxLit
        THEN IF Len(t.out) + n > outLen THEN [t EXCEPT !.bad = TRUE]
             ELSE [t EXCEPT !.ip = @ + 1 + n, !.out = @ \o SubSeq(c, t.ip + 1, t.ip + n)]
        ELSE IF Len(t.out) + length > outLen \/ back + 1 > Len(t.out) THEN [t EXCEPT !.bad = TRUE]
             ELSE [t EXCEPT !.ip = last + 1, !.out = CopyBack(@, back, length)]

(* The first round is not asked whether there is input. *)
lzf_decompress(c, outLen) ==
    LET start == [ip |-> 1, out |-> <<>>, bad |-> FALSE]
        after[n \in Nat] == IF n = 0 THEN start ELSE DecompressStep(c, outLen, after[n - 1])
        end == after[Len(c) + 1]
    IN  IF end.bad THEN <<>> ELSE end.out

-----------------------------------------------------------------------------
(* The header. *)

DataSize(n) == IF n > TwoBytes THEN 4 ELSE IF n > OneByte THEN 2 ELSE 1

(* The first byte: whether the data is compressed, and the bytes of its length. *)
Control(flag, size) == flag * 16 + size

Compressed(c) == c[1] \div 16 = 1

LengthBytes(c) == c[1] % 16

WrongHeader(c) == c = <<>> \/ c[1] \div 16 > 1 \/ LengthBytes(c) \notin {1, 2, 4}

header_set_data(size, val) ==
    LET v1 == val \div Base
        v2 == v1 \div Base
        v3 == v2 \div Base
    IN  IF size = 4 THEN <<v3 % Base, v2 % Base, v1 % Base, val % Base>>
        ELSE IF size = 2 THEN <<v1 % Base, val % Base>>
        ELSE <<val % Base>>

header_get_data(c, size) ==
    IF size = 4 THEN ((c[2] * Base + c[3]) * Base + c[4]) * Base + c[5]
    ELSE IF size = 2 THEN c[2] * Base + c[3]
    ELSE c[2]

comp_exec(d) ==
    LET size == DataSize(Len(d))
        lzf == IF Len(d) > 2 THEN lzf_compress(d, Len(d) - (1 + size) - 1) ELSE <<>>
    IN  IF lzf = <<>> THEN <<Control(0, size)>> \o d
        ELSE <<Control(1, size)>> \o header_set_data(size, Len(d)) \o lzf

decomp_getsize(c) ==
    IF WrongHeader(c) THEN 0
    ELSE IF Compressed(c) THEN header_get_data(c, LengthBytes(c)) ELSE Len(c) - 1

decomp_exec(c) ==
    IF WrongHeader(c) THEN <<>>
    ELSE IF Compressed(c)
    THEN lzf_decompress(SubSeq(c, LengthBytes(c) + 2, Len(c)), header_get_data(c, LengthBytes(c)))
    ELSE Tail(c)
=============================================================================
