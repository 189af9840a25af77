----------------------------- MODULE FatVolume -----------------------------
(***************************************************************************)
(* The volume half of the console's FAT library (fat_io_lib: fat_table.c,  *)
(* fat_write.c, fat_access.c) as functions on a machine m, the record of   *)
(* what the library keeps:                                                 *)
(*                                                                         *)
(*   disk    [fat, sec]: the FAT and the sectors of the clusters; an entry *)
(*           of the FAT need not have a cluster on the card                *)
(*   fbuf    the only FAT buffer: sector number, entries, dirty            *)
(*   cur     fs.currentsector: address and contents                        *)
(*   hint    fs.next_free_cluster                                          *)
(*   h       the only file handle (FATFS_MAX_OPEN_FILES is 1), h.used      *)
(*   fault   the fault that will happen, left: after how many accesses     *)
(*   res,val what the last function returned                               *)
(*                                                                         *)
(* A fault is "read" or "write" (one access to the card fails) or "crash"  *)
(* (no later write reaches the card).                                      *)
(*                                                                         *)
(* Abstractions.  A directory entry with its long-name records is one      *)
(* slot.  A short name is the base that fatfs_lfn_create_sfn derives and a *)
(* tail number.  Dates are left out.  FAT_BUFFERS and FAT_BUFFER_SECTORS   *)
(* are 1.                                                                  *)
(***************************************************************************)
EXTENDS Integers, Sequences, SequencesExt

CONSTANTS
    Root,       \* fs.rootdir_first_cluster: 0 on FAT16
    RootSectors,\* fs.rootdir_sectors, on FAT16
    Clusters,   \* number of FAT entries, the two reserved ones included
    FatPer,     \* FAT entries in a sector (128 or 256)
    SPC,        \* fs.sectors_per_cluster
    SS,         \* FAT_SECTOR_SIZE
    Slots,      \* directory entries in a sector
    Cache,      \* FAT_CLUSTER_CACHE_ENTRIES
    Base(_)     \* the short name without a tail of a name

ASSUME VolumeAssumption ==
    /\ {Clusters, FatPer, SPC, SS, Slots, Cache} \subseteq Nat \ {0}
    /\ Root \in {0, 2} /\ RootSectors \in Nat /\ Clusters % FatPer = 0

FREE == 0
LAST == -1        \* FAT32_LAST_CLUSTER
INVALID == -1     \* FAT32_INVALID_CLUSTER
FSINFO == -2      \* the FSINFO sector in the FAT buffer
NoSector == <<-1, -1>>

BlankSlot == [kind |-> "blank"]
DeletedSlot == [kind |-> "deleted"]
IsFree(s) == s.kind \in {"blank", "deleted"}
BlankDir == [i \in 1 .. Slots |-> BlankSlot]
Zeros == [i \in 1 .. SS |-> 0]

(* What a sector means to a directory search, and to a file. *)
SlotsOf(s) == IF "slots" \in DOMAIN s THEN s.slots ELSE BlankDir
BytesOf(s) == IF "bytes" \in DOMAIN s THEN s.bytes ELSE Zeros

(* Do F for each of the numbers a .. b, until it has set done. *)
Loop(m, a, b, F(_, _)) ==
    LET run[i \in (a - 1) .. b] ==
          IF i = a - 1 THEN [m EXCEPT !.done = FALSE]
          ELSE LET p == run[i - 1] IN IF p.done THEN p ELSE F(p, i)
    IN  IF b < a THEN m ELSE [run[b] EXCEPT !.done = FALSE]

Return(m, r) == [m EXCEPT !.res = r, !.done = TRUE]

(* What follows a call: F of what it left behind; AndThen, only if it succeeded. *)
With(x, F(_)) == F(x)
AndThen(x, F(_)) == IF x.res THEN F(x) ELSE x

-----------------------------------------------------------------------------
(* fat_media_read and fat_media_write, one sector at a time. *)

Fails(m, kind) == m.fault = kind /\ m.left = 0
Count(m, kinds) == IF m.fault \in kinds THEN [m EXCEPT !.left = @ - 1] ELSE m

(* A failed access fails once; a crash lasts. *)
fat_media_read(m, exists) ==
    IF ~exists THEN [m EXCEPT !.res = FALSE]
    ELSE IF Fails(m, "read") THEN [m EXCEPT !.res = FALSE, !.fault = "none"]
    ELSE [Count(m, {"read"}) EXCEPT !.res = TRUE]

fat_media_write(m, disk) ==
    CASE Fails(m, "crash") -> [m EXCEPT !.res = FALSE, !.dead = TRUE]
      [] Fails(m, "write") -> [m EXCEPT !.res = FALSE, !.fault = "none"]
      [] OTHER -> [Count(m, {"write", "crash"}) EXCEPT !.res = TRUE, !.disk = disk]

(* One sector of a cluster; a cluster beyond the volume is refused. *)
fatfs_write_sector(m, a, sec) ==
    IF a \in DOMAIN m.disk.sec THEN fat_media_write(m, [m.disk EXCEPT !.sec[a] = sec])
    ELSE [m EXCEPT !.res = FALSE]

-----------------------------------------------------------------------------
(* fat_table.c *)

FatSectors == 0 .. (Clusters \div FatPer - 1)

fatfs_fat_writeback(m) ==
    IF ~m.fbuf.dirty THEN [m EXCEPT !.res = TRUE]
    ELSE AndThen(fat_media_write(m, [m.disk EXCEPT !.fat =
                     [c \in DOMAIN @ |-> IF c \div FatPer = m.fbuf.addr
                                         THEN m.fbuf.ents[c % FatPer] ELSE @[c]]]),
                 LAMBDA w : [w EXCEPT !.fbuf.dirty = FALSE])

fatfs_fat_purge(m) == fatfs_fat_writeback(m)

(* A sector beyond the FAT is beyond the card as well, which refuses it. *)
fatfs_fat_read_sector(m, k) ==
    IF m.fbuf.addr = k THEN [m EXCEPT !.res = TRUE]
    ELSE AndThen(fatfs_fat_writeback(m), LAMBDA w :
           With(fat_media_read(w, k = FSINFO \/ k \in FatSectors), LAMBDA r :
             IF ~r.res THEN [r EXCEPT !.fbuf.addr = INVALID]
             ELSE [r EXCEPT !.fbuf = [addr |-> k, dirty |-> FALSE, ents |->
                     [j \in 0 .. (FatPer - 1) |->
                        IF k = FSINFO THEN 0 ELSE r.disk.fat[k * FatPer + j]]]]))

fatfs_find_next_cluster(m, cluster) ==
    LET c == IF cluster = 0 THEN 2 ELSE cluster
    IN  With(fatfs_fat_read_sector(m, IF c = LAST THEN Clusters ELSE c \div FatPer),
             LAMBDA r : [r EXCEPT !.val = IF r.res THEN r.fbuf.ents[c % FatPer] ELSE LAST])

(* The FSINFO sector passes through the FAT buffer and evicts its contents. *)
fatfs_set_fs_info_next_free_cluster(m) ==
    IF Root = 0 \/ m.hint = LAST THEN m
    ELSE AndThen(fatfs_fat_read_sector(m, FSINFO), LAMBDA r :
           [fat_media_write(r, r.disk) EXCEPT !.hint = LAST, !.fbuf.addr = INVALID,
                                              !.fbuf.dirty = FALSE])

(* The first free entry from the root cluster on; the FAT's size is the limit. *)
FreeIn(ents, k) == {j \in 0 .. (FatPer - 1) : ents[j] = FREE /\ k * FatPer + j >= Root}

fatfs_find_blank_cluster(m) ==
    Loop([m EXCEPT !.res = FALSE], Root \div FatPer, Clusters \div FatPer - 1, LAMBDA x, k :
      With(fatfs_fat_read_sector(x, k), LAMBDA r :
        IF ~r.res THEN Return(r, FALSE)
        ELSE IF FreeIn(r.fbuf.ents, k) = {} THEN [r EXCEPT !.res = FALSE]
        ELSE [Return(r, TRUE) EXCEPT !.val = k * FatPer + Min(FreeIn(r.fbuf.ents, k))]))

(* Mutant of fatfs_fat_set_cluster: clusters are numbered from 0 in the FAT. *)
SetClusterFrom0(m, c, next) ==
    AndThen(fatfs_fat_read_sector(m, c \div FatPer), LAMBDA r :
      [r EXCEPT !.fbuf.ents[c % FatPer] = next - 2, !.fbuf.dirty = TRUE])

fatfs_fat_set_cluster(m, c, next) ==
    AndThen(fatfs_fat_read_sector(m, c \div FatPer), LAMBDA r :
      [r EXCEPT !.fbuf.ents[c % FatPer] = next, !.fbuf.dirty = TRUE])

(* The entry is cleared after the next one was read; failures are ignored. *)
fatfs_free_cluster_chain(m, start) ==
    [Loop([m EXCEPT !.cl = start], 0, Clusters, LAMBDA x, i :
       IF x.cl \in {LAST, FREE} THEN Return(x, TRUE)
       ELSE With(fatfs_find_next_cluster(x, x.cl), LAMBDA n :
              [fatfs_fat_set_cluster(n, x.cl, FREE) EXCEPT !.cl = n.val]))
       EXCEPT !.res = TRUE]

fatfs_fat_add_cluster_to_chain(m, start, new) ==
    AndThen(Loop([m EXCEPT !.cl = start], 0, Clusters, LAMBDA x, i :
              With(fatfs_find_next_cluster(x, x.cl), LAMBDA n :
                CASE n.val = FREE -> Return([n EXCEPT !.cl = LAST], FALSE)
                  [] n.val = LAST -> Return(n, TRUE)
                  [] OTHER -> [n EXCEPT !.cl = n.val])),
            LAMBDA t :
              [fatfs_fat_set_cluster(fatfs_fat_set_cluster(t, t.cl, new), new, LAST)
                 EXCEPT !.res = TRUE])

-----------------------------------------------------------------------------
(* fat_write.c: allocation. *)

(* Mutant of fatfs_add_free_space: the new cluster is not marked as used. *)
AddFreeSpaceUnmarked(m, last, n) ==
    With(Loop([fatfs_set_fs_info_next_free_cluster(m) EXCEPT !.cl = last], 1, n, LAMBDA x, i :
           With(fatfs_find_blank_cluster(x), LAMBDA b :
             IF ~b.res THEN Return(b, FALSE)
             ELSE [fatfs_fat_set_cluster(b, x.cl, b.val)
                     EXCEPT !.cl = b.val, !.res = TRUE, !.first = IF i = 1 THEN b.val ELSE @])),
         LAMBDA s : [s EXCEPT !.val = s.first])

(* n clusters behind last; val is the first of them. *)
fatfs_add_free_space(m, last, n) ==
    With(Loop([fatfs_set_fs_info_next_free_cluster(m) EXCEPT !.cl = last], 1, n, LAMBDA x, i :
           With(fatfs_find_blank_cluster(x), LAMBDA b :
             IF ~b.res THEN Return(b, FALSE)
             ELSE [fatfs_fat_set_cluster(fatfs_fat_set_cluster(b, x.cl, b.val), b.val, LAST)
                     EXCEPT !.cl = b.val, !.res = TRUE, !.first = IF i = 1 THEN b.val ELSE @])),
         LAMBDA s : [s EXCEPT !.val = s.first])

(* Only ever called for a new file or directory of one cluster. *)
fatfs_allocate_free_space(m) ==
    AndThen(fatfs_find_blank_cluster(fatfs_set_fs_info_next_free_cluster(m)), LAMBDA b :
      [fatfs_fat_set_cluster(b, b.val, LAST) EXCEPT !.res = TRUE, !.val = b.val])

-----------------------------------------------------------------------------
(* fat_access.c: sectors and directories. *)

(* Sector a into currentsector: the address is set before the read, and stays if it fails. *)
ReadInto(m, a) ==
    With(fat_media_read(m, a \in DOMAIN m.disk.sec), LAMBDA r :
      IF r.res THEN [r EXCEPT !.cur = [addr |-> a, sec |-> r.disk.sec[a]]]
      ELSE [r EXCEPT !.cur.addr = a])

(* The cluster with the sector at offset of a chain in cl. *)
WalkChain(m, start, offset) ==
    IF Root = 0 /\ start = 0 THEN [m EXCEPT !.cl = 0]
    ELSE Loop([m EXCEPT !.cl = start], 1, offset \div SPC, LAMBDA x, i :
           With(fatfs_find_next_cluster(x, x.cl), LAMBDA n : [n EXCEPT !.cl = n.val]))

(* The sector at offset of a chain into currentsector, unless it is there. *)
fatfs_sector_reader(m, start, offset) ==
    With(WalkChain(m, start, offset), LAMBDA t :
      LET a == IF t.cl = 0 THEN <<0, offset>> ELSE <<t.cl, offset % SPC>>
      IN  IF t.cl = LAST \/ (t.cl = 0 /\ offset >= RootSectors) THEN [t EXCEPT !.res = FALSE]
          ELSE IF t.cur.addr = a THEN [t EXCEPT !.res = TRUE]
          ELSE ReadInto(t, a))

(* Write currentsector back. *)
WriteCurrent(m) == fatfs_write_sector(m, m.cur.addr, m.cur.sec)

IsNamed(n, s) == s.kind = "entry" /\ s.name = n
IsShort(n, s) == s.kind = "entry" /\ s.short = n

(* What a search looks for: a free slot, a name or a short name. *)
Wanted(want, s) ==
    CASE want.by = "free" -> IsFree(s)
      [] want.by = "name" -> IsNamed(want.name, s)
      [] want.by = "short" -> IsShort(want.name, s)

(***************************************************************************)
(* The search loop of all directory functions: the first slot of the       *)
(* directory that is wanted, in sector off, slot val.  A sector that       *)
(* cannot be read is the end of the directory.                             *)
(***************************************************************************)
Search(m, dir, want) ==
    Loop(m, 0, Clusters * SPC, LAMBDA x, i :
      With(fatfs_sector_reader(x, dir, i), LAMBDA r :
        LET hits == {j \in 1 .. Slots : Wanted(want, SlotsOf(r.cur.sec)[j])}
        IN  IF ~r.res THEN [Return(r, FALSE) EXCEPT !.off = i]
            ELSE IF hits = {} THEN [r EXCEPT !.res = FALSE]
            ELSE [Return(r, TRUE) EXCEPT !.off = i, !.val = Min(hits)]))

fatfs_get_file_entry(m, dir, n) == Search(m, dir, [by |-> "name", name |-> n])
fatfs_sfn_exists(m, dir, n) == Search(m, dir, [by |-> "short", name |-> n])
Found(m) == SlotsOf(m.cur.sec)[m.val]

(* Change a slot of currentsector and write the sector back. *)
SetSlot(m, j, s) ==
    WriteCurrent([m EXCEPT !.cur.sec = [slots |-> [SlotsOf(@) EXCEPT ![j] = s]]])

fatfs_update_file_length(m, dir, short, length) ==
    AndThen(fatfs_sfn_exists(m, dir, short), LAMBDA r :
      SetSlot(r, r.val, [Found(r) EXCEPT !.size = length]))

fatfs_mark_file_deleted(m, dir, short) ==
    AndThen(fatfs_sfn_exists(m, dir, short), LAMBDA r : SetSlot(r, r.val, DeletedSlot))

(* F for each sector of the cluster val, until one fails. *)
EachSector(m, F(_, _)) ==
    Loop(m, 0, SPC - 1, LAMBDA x, i :
      With(F(x, <<x.val, i>>), LAMBDA w : IF w.res THEN w ELSE Return(w, FALSE)))

(***************************************************************************)
(* A free slot, or a new, erased cluster at the end of the directory when  *)
(* there is none.                                                          *)
(***************************************************************************)
fatfs_find_free_dir_offset(m, dir) ==
    With(Search(m, dir, [by |-> "free"]), LAMBDA s :
      IF s.res THEN s
      ELSE AndThen(fatfs_find_blank_cluster(s), LAMBDA b :
             AndThen(fatfs_fat_add_cluster_to_chain(b, dir, b.val), LAMBDA a :
               [EachSector([a EXCEPT !.val = b.val], LAMBDA x, at :
                  WriteCurrent([x EXCEPT !.cur = [addr |-> at, sec |-> [slots |-> BlankDir]]]))
                  EXCEPT !.off = s.off, !.val = 1])))

fatfs_add_file_entry(m, dir, slot) ==
    AndThen(fatfs_find_free_dir_offset(m, dir), LAMBDA f :
      AndThen(fatfs_sector_reader(f, dir, f.off), LAMBDA r :
        SetSlot([r EXCEPT !.val = f.val], f.val, slot)))

=============================================================================
