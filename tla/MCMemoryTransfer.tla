-------------------------- MODULE MCMemoryTransfer --------------------------
(***************************************************************************)
(* A small instance of MemoryTransfer: an alphabet of 8 values and a 3-bit *)
(* CRC with generator x^3 + x + 1, computed from its table as crc.cpp      *)
(* computes the 8-bit one.                                                 *)
(***************************************************************************)
EXTENDS MemoryTransfer, SequencesExt, Bitwise

CONSTANT Uploads  \* which of AllFiles the users upload

CrcTable == <<0, 3, 6, 5, 7, 4, 1, 2>>
CrcStep == [c \in 0 .. 7 |-> [b \in 0 .. 7 |-> CrcTable[(c ^^ b) + 1]]]
MCCrc(s) == FoldLeft(LAMBDA c, b : CrcStep[c][b], 0, s)

MCArea(a) == a \div 4
MCPowerUpMem == [a \in 0 .. 7 |-> (3 * a + 1) % 8]
MCVersionData == <<7, 1, 4>>

(***************************************************************************)
(* One byte, a 2-byte access, and a byte loop; the bytes double as command *)
(* codes, addresses and lengths.  The last two are refused by their size.  *)
(***************************************************************************)
AllFiles == <<<<5>>, <<2, 7>>, <<6, 2, 1>>, << >>, <<1, 2, 3, 4, 5, 6, 7, 0>>>>
MCFiles == {AllFiles[i] : i \in Uploads}

=============================================================================
