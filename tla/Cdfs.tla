-------------------------------- MODULE Cdfs --------------------------------
(***************************************************************************)
(* The CD-ROM file system that satcom_lib uses (iapetus/cd/cdfs.c).  A     *)
(* disc maps sectors to what they hold: the records of a directory, or     *)
(* bytes of a file.  Which sectors the drive can read (cd_read_sector) is  *)
(* a parameter.  A name of one code below the space stands for "." and     *)
(* "..", as on the disc.  Positions in a file are offsets from 0.          *)
(***************************************************************************)
EXTENDS RomFs

CONSTANTS
    Disc,       \* sector -> records or bytes
    RootRecord, \* what the volume descriptor says of the root directory
    Sector      \* bytes of a sector (2048)

ASSUME CdfsAssumption == Sector \in Nat \ {0}

NoFile == [lba |-> 0, size |-> 0]

(* copy_dir_record: the fields that are used, the name without its version. *)
Record(name, lba, size, dir) == [name |-> name, lba |-> lba, size |-> size, dir |-> dir]

NameOf(rec) ==
    LET semi == {i \in DOMAIN rec.name : rec.name[i] = 59}
    IN  IF semi = {} THEN rec.name ELSE SubSeq(rec.name, 1, FirstOf(semi) - 1)

(* cdfs_init: the root directory, as the sector of the volume descriptor has it. *)
cdfs_init(readable) ==
    IF 16 \notin readable THEN [ok |-> FALSE, root |-> NoFile]
    ELSE [ok |-> TRUE, root |-> [lba |-> RootRecord.lba, size |-> RootRecord.size \div Sector]]

(* A broken variant: a name that begins the one asked for will do as well. *)
SameNameExtended(rec, name) ==
    LET n == NameOf(rec)
        short == IF Len(n) < Len(name) THEN Len(n) ELSE Len(name)
    IN  Upper(SubSeq(n, 1, short)) = Upper(SubSeq(name, 1, short))

(* A name that begins with the one asked for is taken for it. *)
SameName(rec, name) ==
    LET n == NameOf(rec)
    IN  Len(n) >= Len(name) /\ Upper(SubSeq(n, 1, Len(name))) = Upper(name)

(* The records from sector lba on, with left more sectors of the directory:  *)
(* the first that has the name, "bad" when a sector cannot be read, or the   *)
(* sector behind the last one read.                                          *)
Search(readable, lba, left, name) ==
    LET Hits(l) == {i \in DOMAIN Disc[l] : SameName(Disc[l][i], name)}
        end == IF left > 0 THEN lba + left ELSE lba
        at == FirstOf({l \in lba .. end : l = end \/ l \notin readable \/ Hits(l) # {}})
    IN  IF at \notin readable THEN [found |-> "bad"]
        ELSE IF Hits(at) # {} THEN [found |-> "yes", rec |-> Disc[at][FirstOf(Hits(at))]]
        ELSE [found |-> "no", next |-> at + 1]

(* cdfs_open: name by name; a path that ends with a slash opens the folder. *)
OpenIn(readable, dir, size, path) ==
    LET open[n \in DOMAIN path, lba \in Nat, left \in Int] ==
            LET done == n = Len(path) \/ path[n] = <<>> \/ (n = Len(path) - 1 /\ path[n + 1] = <<>>)
                s == Search(readable, lba, left, path[n])
            IN  CASE s.found # "yes" -> NoFile
                  [] s.found = "yes" /\ done -> [lba |-> s.rec.lba, size |-> s.rec.size]
                  [] OTHER -> open[n + 1, s.rec.lba, (s.rec.size \div Sector) - 1]
    IN  open[1, dir, size]

cdfs_open(readable, root, path) == OpenIn(readable, root.lba, root.size - 1, path)

(* cdfs_seek and cdfs_read: only from the start of a sector, and whole       *)
(* sectors of the disc are read until there is enough.                       *)
cdfs_read(readable, file, offset, size) ==
    LET first == file.lba + (offset \div Sector)
        last == first + ((size + Sector - 1) \div Sector) - 1
        bytes == FlattenSeq([k \in 1 .. (last - first + 1) |-> Disc[first + k - 1]])
    IN  IF offset % Sector # 0 \/ ~(first .. last \subseteq readable) THEN [ok |-> FALSE, data |-> <<>>]
        ELSE [ok |-> TRUE, data |-> SubSeq(bytes, 1, size)]

-----------------------------------------------------------------------------
(* cdfs_filelist. *)

(* The records of the directory, from sector lba on. *)
Records(readable, lba, left) ==
    LET more == IF left > 0 THEN left ELSE 0
    IN  IF lba .. lba + more \subseteq readable
        THEN [ok |-> TRUE, recs |-> FlattenSeq([k \in 1 .. more + 1 |-> Disc[lba + k - 1]])]
        ELSE [ok |-> FALSE, recs |-> <<>>]

(* The directory a path leads to.  When a name is missing the sector behind  *)
(* the directory is taken for the one it names.                              *)
ListIn(readable, dir, size, path) ==
    LET list[n \in 1 .. Len(path) + 1, lba \in Nat, left \in Int] ==
            IF n > Len(path) \/ path[n] = <<>> THEN Records(readable, lba, left)
            ELSE LET s == Search(readable, lba, left, path[n])
                 IN  CASE s.found = "bad" -> [ok |-> FALSE, recs |-> <<>>]
                       [] s.found = "yes" -> list[n + 1, s.rec.lba, (s.rec.size \div Sector) - 1]
                       [] OTHER -> list[n + 1, s.next, -1]
    IN  list[1, dir, size]

(* The entries listed, "." and ".." left out; nothing on an error. *)
cdfs_filelist(readable, root, path) ==
    LET dir == ListIn(readable, root.lba, root.size - 1, path)
    IN  IF ~dir.ok THEN <<>> ELSE SelectSeq(dir.recs, LAMBDA r : NameOf(r) # <<>> /\ NameOf(r)[1] >= 32)
=============================================================================
