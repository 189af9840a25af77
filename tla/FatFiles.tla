------------------------------ MODULE FatFiles ------------------------------
(***************************************************************************)
(* Files on the SD card of the console, as functions on the machine of     *)
(* FatVolume: the file half of fat_io_lib (fat_filelib.c, fat_cache.c) and *)
(* the operations that the Remote I/O firmware calls (sdcard_fat.c).       *)
(***************************************************************************)
EXTENDS FatVolume

CONSTANT MaxTail    \* the limit of short name tails, 9999

Closed == [used |-> FALSE]

NoLookup == [idx |-> INVALID, cl |-> INVALID]
Handle(parent, short, start, len) ==
    [used |-> TRUE, parent |-> parent, short |-> short, start |-> start, len |-> len,
     pos |-> 0, changed |-> FALSE, buf |-> [addr |-> INVALID, bytes |-> Zeros, dirty |-> FALSE],
     look |-> NoLookup, cache |-> [i \in 0 .. (Cache - 1) |-> NoLookup]]

-----------------------------------------------------------------------------
(* Opening and creating. *)

(* The directory at path, from the root, in dir. *)
open_directory(m, path) ==
    Loop([m EXCEPT !.dir = Root, !.res = TRUE], 1, Len(path), LAMBDA x, i :
      With(fatfs_get_file_entry(x, x.dir, path[i]), LAMBDA r :
        IF r.res /\ Found(r).isdir THEN [r EXCEPT !.dir = Found(r).start] ELSE Return(r, FALSE)))

(***************************************************************************)
(* The part that open_file, create_file and create_directory share: take   *)
(* the handle, find the parent in dir, search the name.  It is "absent",   *)
(* "present", or nothing can be done ("none").  A handle is given back on  *)
(* every failure, so only the lack of one shows.                           *)
(***************************************************************************)
Locate(m, path) ==
    IF m.h.used \/ path = <<>> THEN [m EXCEPT !.out = "none"]
    ELSE With(open_directory(m, Front(path)), LAMBDA d :
           IF ~d.res THEN [d EXCEPT !.out = "none"]
           ELSE With(fatfs_get_file_entry(d, d.dir, Last(path)), LAMBDA r :
                  [r EXCEPT !.out = IF r.res THEN "present" ELSE "absent"]))

open_file(m, path) ==
    With(Locate(m, path), LAMBDA r :
      LET f == Found(r)
      IN  IF r.out # "present" \/ f.isdir THEN [r EXCEPT !.res = FALSE]
          ELSE [fatfs_fat_purge([r EXCEPT !.h = Handle(r.dir, f.short, f.start, f.size)])
                   EXCEPT !.res = TRUE])

(***************************************************************************)
(* The first tail that is not in use: val, or MaxTail.  A short name is    *)
(* the base without a tail, or with its end overwritten by one.            *)
(***************************************************************************)
ShortName(n, tail) == [base |-> Base(n), tail |-> tail]

(* Mutant of UniqueTail: no tail is tried. *)
FirstTail(m, dir, n) == [m EXCEPT !.val = 0]

UniqueTail(m, dir, n) ==
    Loop(m, 0, MaxTail - 1, LAMBDA x, i :
      With(fatfs_sfn_exists(x, dir, ShortName(n, i)), LAMBDA r :
        IF r.res THEN [r EXCEPT !.val = i + 1] ELSE [Return(r, TRUE) EXCEPT !.val = i]))

NewEntry(n, tail, start, isdir) ==
    [kind |-> "entry", name |-> n, short |-> ShortName(n, tail), start |-> start, size |-> 0,
     isdir |-> isdir]

(* Mutant of AddNew: the chain is not given back when the entry cannot be added. *)
AddNewLeak(m, dir, n, start, isdir) ==
    With(UniqueTail(m, dir, n), LAMBDA t :
      fatfs_add_file_entry(t, dir, NewEntry(n, t.val, start, isdir)))

(* An entry for a new cluster; the chain is given back when it cannot be added. *)
AddNew(m, dir, n, start, isdir) ==
    With(UniqueTail(m, dir, n), LAMBDA t :
      With(IF t.val = MaxTail THEN [t EXCEPT !.res = FALSE]
           ELSE fatfs_add_file_entry(t, dir, NewEntry(n, t.val, start, isdir)), LAMBDA a :
        IF a.res THEN a ELSE [fatfs_free_cluster_chain(a, start) EXCEPT !.res = FALSE]))

create_file(m, path) ==
    With(Locate(m, path), LAMBDA r :
      IF r.out # "absent" THEN [r EXCEPT !.res = FALSE]
      ELSE AndThen(fatfs_allocate_free_space(r), LAMBDA c :
             AndThen(AddNew(c, r.dir, Last(path), c.val, FALSE), LAMBDA a :
               [fatfs_fat_purge([a EXCEPT !.h = Handle(r.dir, Found(a).short, c.val, 0)])
                   EXCEPT !.res = TRUE])))

(* The new directory is erased first; a failure there gives nothing back. *)
create_directory(m, path) ==
    With(Locate(m, path), LAMBDA r :
      IF r.out # "absent" THEN [r EXCEPT !.res = FALSE]
      ELSE AndThen(fatfs_allocate_free_space(r), LAMBDA c :
             AndThen(EachSector(c, LAMBDA x, at : fatfs_write_sector(x, at, [slots |-> BlankDir])),
                     LAMBDA e :
               AndThen(AddNew(e, r.dir, Last(path), c.val, TRUE), LAMBDA a :
                 [fatfs_fat_purge(a) EXCEPT !.res = TRUE]))))

(***************************************************************************)
(* "r" opens; "w" and "a" create and, when that fails, open.  Nothing is   *)
(* erased: FILE_ERASE is never read.                                       *)
(***************************************************************************)
fl_fopen(m, path, mode) ==
    IF mode = "r" THEN open_file(m, path)
    ELSE With(create_file(m, path), LAMBDA c : IF c.res THEN c ELSE open_file(c, path))

-----------------------------------------------------------------------------
(* The chain of a file (fat_cache.c and the lookups of fat_filelib.c). *)

(* fatfs_cache_get_next_cluster, or the FAT, whose answer the cache keeps. *)
CachedNext(m, i, c) ==
    LET e == m.h.cache[i % Cache]
    IN  IF e.idx = i THEN [m EXCEPT !.val = e.cl]
        ELSE With(fatfs_find_next_cluster(m, c), LAMBDA n :
               [n EXCEPT !.h.cache[i % Cache] = [idx |-> i, cl |-> n.val]])

(* Steps from .. to along the chain; a writer stops at its end. *)
Follow(m, from, to, writing) ==
    Loop([m EXCEPT !.prev = LAST], from, to, LAMBDA x, i :
      With(CachedNext(x, i, x.cl), LAMBDA n :
        LET y == [n EXCEPT !.prev = x.cl, !.cl = n.val]
        IN  IF writing /\ n.val = LAST THEN Return(y, TRUE) ELSE y))

(* Mutant of FollowChain: the walk always starts at the first cluster. *)
FollowFromStart(m, idx, writing) ==
    Follow([m EXCEPT !.cl = m.h.start], 0, idx - 1, writing)

(***************************************************************************)
(* The cluster of index idx in cl and the one before it in prev, from the  *)
(* last lookup when that is the one before.  A writer stops at the end of  *)
(* the chain, a reader asks the FAT for what follows it.                   *)
(***************************************************************************)
FollowChain(m, idx, writing) ==
    LET near == idx # 0 /\ m.h.look.idx # INVALID /\ idx = m.h.look.idx + 1
    IN  Follow([m EXCEPT !.cl = IF near THEN m.h.look.cl ELSE m.h.start],
               IF near THEN idx - 1 ELSE 0, idx - 1, writing)

Remember(m, idx) == [m EXCEPT !.h.look = [idx |-> idx, cl |-> m.cl]]

(* Sectors of a request that lie in one cluster. *)
InCluster(sector, count) ==
    IF (sector % SPC) + count > SPC THEN SPC - (sector % SPC) ELSE count

(* n sectors of the cluster cl from the one at first on, through F; val is n or 0. *)
Sectors(m, first, n, F(_, _, _)) ==
    With(Loop(m, 0, n - 1, LAMBDA x, i :
           With(F(x, <<x.cl, first + i>>, i), LAMBDA r : IF r.res THEN r ELSE Return(r, FALSE))),
         LAMBDA r : [r EXCEPT !.val = IF r.res THEN n ELSE 0])

(* val is the number of sectors read, their bytes are in out. *)
read_sectors(m, sector, count) ==
    LET idx == sector \div SPC
    IN  With(IF m.h.look.idx = idx THEN [m EXCEPT !.cl = m.h.look.cl]
             ELSE With(FollowChain(m, idx, FALSE), LAMBDA f :
                    IF f.cl = LAST THEN f ELSE Remember(f, idx)),
             LAMBDA t :
          IF t.cl = LAST THEN [t EXCEPT !.val = 0]
          ELSE Sectors([t EXCEPT !.res = TRUE, !.out = <<>>], sector % SPC, InCluster(sector, count),
                       LAMBDA x, a, i :
                 AndThen(fat_media_read(x, a \in DOMAIN x.disk.sec), LAMBDA r :
                   [r EXCEPT !.out = @ \o BytesOf(r.disk.sec[a])])))

(* The cluster of index idx for a writer: where the chain ends before it, n clusters are added. *)
ClusterToWrite(m, idx, n) ==
    IF m.h.look.idx = idx THEN [m EXCEPT !.cl = m.h.look.cl, !.res = TRUE]
    ELSE With(FollowChain(m, idx, TRUE), LAMBDA f :
           IF f.cl # LAST THEN [Remember(f, idx) EXCEPT !.res = TRUE]
           ELSE AndThen(fatfs_add_free_space(f, f.prev, n), LAMBDA g :
                  Remember([g EXCEPT !.cl = g.val], idx)))

(***************************************************************************)
(* The chain grows by what the whole request needs when it ends too early; *)
(* val is the number of sectors of this cluster that were written.         *)
(***************************************************************************)
write_sectors(m, sector, bytes) ==
    LET total == Len(bytes) \div SS
    IN  With(ClusterToWrite(m, sector \div SPC, (total + SPC - 1) \div SPC), LAMBDA t :
          IF ~t.res THEN [t EXCEPT !.val = 0]
          ELSE Sectors(t, sector % SPC, InCluster(sector, total), LAMBDA x, a, i :
                 fatfs_write_sector(x, a, [bytes |-> SubSeq(bytes, i * SS + 1, (i + 1) * SS)])))

-----------------------------------------------------------------------------
(* Reading, writing, closing. *)

fl_fflush(m) ==
    IF ~m.h.buf.dirty THEN m
    ELSE With(write_sectors(m, m.h.buf.addr, m.h.buf.bytes), LAMBDA w :
           IF w.val = 0 THEN w ELSE [w EXCEPT !.h.buf.dirty = FALSE])

(* The length is always written: time stamps are supported. *)
fl_fclose(m) ==
    With(fl_fflush(m), LAMBDA f :
      With(IF f.h.changed THEN fatfs_update_file_length(f, f.h.parent, f.h.short, f.h.len) ELSE f,
           LAMBDA u : fatfs_fat_purge([u EXCEPT !.h = Closed])))

(* Mutant of fl_fseek: only whole sectors are sought. *)
SeekSector(m, offset) ==
    [m EXCEPT !.h.buf.addr = INVALID, !.h.buf.dirty = FALSE,
              !.h.pos = IF offset > m.h.len THEN m.h.len ELSE (offset \div SS) * SS]

(* The buffer is dropped, dirty or not; the position is limited to the file. *)
fl_fseek(m, offset) ==
    [m EXCEPT !.h.buf.addr = INVALID, !.h.buf.dirty = FALSE,
              !.h.pos = IF offset > m.h.len THEN m.h.len ELSE offset]

(* The buffer holds the sector; res says whether it could be read. *)
Load(m, sector) ==
    IF m.h.buf.addr = sector THEN [m EXCEPT !.res = TRUE]
    ELSE With(read_sectors(fl_fflush(m), sector, 1), LAMBDA r :
           IF r.val = 0 THEN [r EXCEPT !.res = FALSE]
           ELSE [r EXCEPT !.res = TRUE,
                          !.h.buf = [addr |-> sector, bytes |-> r.out, dirty |-> FALSE]])

(* Whole sectors are read at once, parts of one through the buffer. *)
ReadWhole(m, left) ==
    With(read_sectors(m, m.h.pos \div SS, left \div SS), LAMBDA r :
      IF r.val = 0 THEN Return(r, FALSE)
      ELSE [r EXCEPT !.got = @ \o r.out, !.h.pos = @ + r.val * SS])

ReadPart(m, offset, n) ==
    With(Load(m, m.h.pos \div SS), LAMBDA b :
      IF ~b.res THEN Return(b, FALSE)
      ELSE [b EXCEPT !.got = @ \o SubSeq(b.h.buf.bytes, offset + 1, offset + n), !.h.pos = @ + n])

(* The rest of a sector, or of what is left. *)
InSector(offset, left) == IF SS - offset > left THEN left ELSE SS - offset

(* The bytes that were read are in got. *)
fl_fread(m, length) ==
    LET end == IF m.h.pos + length > m.h.len THEN m.h.len ELSE m.h.pos + length
    IN  Loop([m EXCEPT !.got = <<>>], 0, length, LAMBDA x, i :
          LET offset == x.h.pos % SS
              left == end - x.h.pos
          IN  CASE left =< 0 -> Return(x, TRUE)
                [] left >= SS /\ offset = 0 -> ReadWhole(x, left)
                [] OTHER -> ReadPart(x, offset, InSector(offset, left)))

WriteWhole(m, bytes) ==
    With(write_sectors([fl_fflush(m) EXCEPT !.h.buf.addr = INVALID, !.h.buf.dirty = FALSE],
                       m.h.pos \div SS, bytes), LAMBDA w :
      IF w.val = 0 THEN Return(w, FALSE) ELSE [w EXCEPT !.h.pos = @ + w.val * SS])

(* A sector that cannot be read is taken as zeros. *)
WritePart(m, offset, bytes) ==
    With(Load(m, m.h.pos \div SS), LAMBDA b :
      [b EXCEPT !.h.pos = @ + Len(bytes), !.h.buf =
         [addr |-> m.h.pos \div SS, dirty |-> TRUE, bytes |->
            [k \in 1 .. SS |-> IF k \in (offset + 1) .. (offset + Len(bytes)) THEN bytes[k - offset]
                               ELSE IF b.res THEN b.h.buf.bytes[k] ELSE 0]]])

(***************************************************************************)
(* Whole sectors go to the card, parts of one to the buffer.  Whatever     *)
(* happens, the caller is told that all was written.                       *)
(***************************************************************************)
fl_fwrite(m, data, append) ==
    LET from == IF append THEN m.h.len ELSE m.h.pos
    IN  With(Loop([m EXCEPT !.h.pos = from], 0, Len(data), LAMBDA x, i :
               LET offset == x.h.pos % SS
                   done == x.h.pos - from
                   left == Len(data) - done
               IN  CASE left = 0 -> Return(x, TRUE)
                     [] left >= SS /\ offset = 0 ->
                          WriteWhole(x, SubSeq(data, done + 1, done + (left \div SS) * SS))
                     [] OTHER ->
                          WritePart(x, offset, SubSeq(data, done + 1, done + InSector(offset, left)))),
             LAMBDA e : [e EXCEPT !.h.len = IF e.h.pos > @ THEN e.h.pos ELSE @, !.h.changed = TRUE])

(* Mutant of fl_remove: the handle is not given back. *)
RemoveOpen(m, path) ==
    AndThen(fl_fopen(m, path, "r"), LAMBDA f :
      fatfs_mark_file_deleted(fatfs_free_cluster_chain(f, f.h.start), f.h.parent, f.h.short))

(* The handle is not given back when the entry cannot be marked. *)
fl_remove(m, path) ==
    AndThen(fl_fopen(m, path, "r"), LAMBDA f :
      AndThen(fatfs_mark_file_deleted(fatfs_free_cluster_chain(f, f.h.start), f.h.parent, f.h.short), LAMBDA d : fl_fclose(d)))

(* The start of the directory in dir, the root's for the empty path. *)
fl_opendir(m, path) == open_directory([m EXCEPT !.got = <<>>], path)

(* fl_readdir for the entries of the i-th sector: their names go to got; no sector, no more entries. *)
fl_readdir(m, i) ==
    With(fatfs_sector_reader(m, m.dir, i), LAMBDA r :
      LET slots == SelectSeq(SlotsOf(r.cur.sec), LAMBDA s : s.kind = "entry")
      IN  IF ~r.res THEN Return(r, TRUE)
          ELSE [r EXCEPT !.got = @ \o [k \in DOMAIN slots |-> slots[k].name]])

(* All entries of a directory, or none where it cannot be opened. *)
ListDirectory(m, path) ==
    AndThen(fl_opendir(m, path), LAMBDA d :
      Loop(d, 0, Clusters * SPC, LAMBDA x, i : fl_readdir(x, i)))

-----------------------------------------------------------------------------
(* sdcard_fat.c: the operations, with the result in reply. *)

(* Every file object is free again, whatever was open. *)
fl_init(m) == [m EXCEPT !.h = Closed]

(* The partition table and the boot sector are read, and all buffers forgotten. *)
fatfs_init(m) ==
    AndThen(fat_media_read([m EXCEPT !.hint = 0, !.cur.addr = NoSector,
                                     !.fbuf.addr = INVALID, !.fbuf.dirty = FALSE,
                                     !.dropped = @ \/ m.fbuf.dirty], TRUE),
            LAMBDA a : fat_media_read(a, TRUE))

(* The library is valid from the first card on; init_ok tells whether this one is. *)
fl_attach_media(m) == fatfs_init(m)

sdc_fat_init(m) ==
    With(fl_attach_media(fl_init([m EXCEPT !.ready = FALSE, !.reinsert = FALSE])),
         LAMBDA i : [i EXCEPT !.ready = i.res])

Reply(m, r) == [m EXCEPT !.reply = r]

(* F, once the card is initialised. *)
Prepared(m, F(_)) ==
    With(IF ~m.ready \/ m.reinsert THEN sdc_fat_init(m) ELSE m, LAMBDA p :
      IF p.ready THEN F(p) ELSE Reply(p, "FAILURE"))

(* F with the open file, which is then closed. *)
OnFile(f, F(_)) == IF f.res THEN Reply(fl_fclose(F(f)), "OK") ELSE Reply(f, "NOFILE")

sdc_fat_write_file(m, path, data) ==
    Prepared(m, LAMBDA p :
      OnFile(fl_fopen(fl_remove(p, path), path, "w"), LAMBDA f : fl_fwrite(f, data, FALSE)))

sdc_fat_append_file(m, path, data) ==
    Prepared(m, LAMBDA p :
      OnFile(fl_fopen(p, path, "a"), LAMBDA f : fl_fwrite(f, data, TRUE)))

(* The length that was asked for is reported as read. *)
sdc_fat_read_file(m, path, offset, length) ==
    Prepared(m, LAMBDA p :
      OnFile(fl_fopen(p, path, "r"), LAMBDA f : fl_fread(fl_fseek(f, offset), length)))

sdc_fat_file_size(m, path) ==
    Prepared(m, LAMBDA p :
      OnFile(fl_fopen(p, path, "r"), LAMBDA f : [fl_fseek(f, f.h.len) EXCEPT !.got = f.h.len]))

sdc_fat_mkdir(m, path) == Prepared(m, LAMBDA p : Reply(create_directory(p, path), "OK"))

sdc_fat_filelist(m, path) == Prepared(m, LAMBDA p : Reply(ListDirectory(p, path), "OK"))

sdc_fat_unlink(m, path) == Prepared(m, LAMBDA p : Reply(fl_remove(p, path), "OK"))

=============================================================================
