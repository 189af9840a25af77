----------------------------- MODULE MCRemoteIo -----------------------------
(***************************************************************************)
(* A small instance of RemoteIo: three paths (one file, one directory, one *)
(* free), one sector, an empty file and files around the buffer size, and  *)
(* an additive checksum whose values are also status codes and lengths.    *)
(***************************************************************************)
EXTENDS RemoteIoStore, SequencesExt

CONSTANT Uploads  \* which of AllContents the users upload

MCCrc(s) == FoldLeft(LAMBDA c, b : (2 * c + b) % 7, 0, s)

AllContents == <<<< >>, <<3>>, <<0, 1, 4>>>>
MCContents == {AllContents[i] : i \in Uploads \cup {3}}

MCInitialFs == [p \in Paths |->
    CASE p = 0 -> File(<<0, 1, 4>>) [] p = 1 -> Dir [] OTHER -> None]

=============================================================================
