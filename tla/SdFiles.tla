------------------------------ MODULE SdFiles -------------------------------
(***************************************************************************)
(* The SD card of the console over time: one action per operation of       *)
(* sdcard_fat.c, in any order.  The firmware is sequential, so an          *)
(* operation is one step.  A fault that strikes inside it is chosen with   *)
(* it: an access to the card that fails, or the loss of power, after which *)
(* nothing more reaches the card and the behaviour ends.                   *)
(***************************************************************************)
EXTENDS FatFiles, FiniteSets

CONSTANTS
    Paths,      \* sequences of names: the files and directories of the runs
    Datas,      \* the contents that are written
    Reads,      \* the <<offset, length>> that are read
    Disks,      \* the contents of the card at the start
    Faults,     \* a subset of {"read", "write", "crash"}
    MaxAccess,  \* a fault strikes at the latest after so many accesses
    MaxOps      \* number of operations

VARIABLES
    m,      \* the library and the card
    op,     \* the last operation: kind, path, argument, contents before
    want,   \* the contents of every path, as the last operation on it left them
    ops     \* how many operations there were

vars == <<m, op, want, ops>>

-----------------------------------------------------------------------------
(* What a reader of the card would find (a reference, not code). *)

(* The clusters of the chain that starts at c, at most all of them. *)
Chain(fat, c) ==
    LET add(s, i) == LET n == IF s = <<>> THEN c ELSE fat[Last(s)]
                     IN  IF n \in DOMAIN fat /\ n # FREE THEN Append(s, n) ELSE s
    IN  FoldLeft(add, <<>>, [i \in 1 .. Clusters |-> i])

SectorsOf(disk, start) ==
    IF start = 0 THEN [i \in 1 .. RootSectors |-> <<0, i - 1>>]
    ELSE LET ch == Chain(disk.fat, start)
         IN  [i \in 1 .. (Len(ch) * SPC) |-> <<ch[((i - 1) \div SPC) + 1], (i - 1) % SPC>>]

(* The entries of a directory, of whatever sectors of it exist. *)
Entries(disk, start) ==
    LET secs == SelectSeq(SectorsOf(disk, start), LAMBDA a : a \in DOMAIN disk.sec)
    IN  SelectSeq(FlattenSeq([i \in DOMAIN secs |-> SlotsOf(disk.sec[secs[i]])]),
                  LAMBDA s : s.kind = "entry")

EntrySet(disk, start) == ToSet(Entries(disk, start))

NoEntry == [kind |-> "none"]
Lookup(disk, start, n) ==
    IF \E e \in EntrySet(disk, start) : e.name = n
    THEN SelectSeq(Entries(disk, start), LAMBDA e : e.name = n)[1] ELSE NoEntry

(* Paths have one or two names. *)
Entry(disk, path) ==
    LET e == Lookup(disk, Root, path[1])
    IN  IF Len(path) = 1 \/ e = NoEntry THEN e
        ELSE IF e.isdir THEN Lookup(disk, e.start, path[2]) ELSE NoEntry

BytesAt(disk, a) == IF a \in DOMAIN disk.sec THEN BytesOf(disk.sec[a]) ELSE <<>>

FileBytes(disk, e) ==
    LET secs == SectorsOf(disk, e.start)
        all == FlattenSeq([i \in DOMAIN secs |-> BytesAt(disk, secs[i])])
    IN  SubSeq(all, 1, IF e.size < Len(all) THEN e.size ELSE Len(all))

Missing == [is |-> "missing"]
Directory == [is |-> "dir"]
File(bytes, size) == [is |-> "file", bytes |-> bytes, size |-> size]

Contents(disk, path) ==
    LET e == Entry(disk, path)
    IN  IF e = NoEntry THEN Missing
        ELSE IF e.isdir THEN Directory ELSE File(FileBytes(disk, e), e.size)

-----------------------------------------------------------------------------
Idle(x) == [x EXCEPT !.fault = "none", !.left = 0, !.res = TRUE, !.val = 0, !.cl = 0, !.prev = 0,
                     !.first = 0, !.off = 0, !.dir = 0, !.out = <<>>, !.done = FALSE]

Machine(disk) ==
    [disk |-> disk, fbuf |-> [addr |-> INVALID, ents |-> [j \in 0 .. (FatPer - 1) |-> 0], dirty |-> FALSE],
     cur |-> [addr |-> NoSector, sec |-> [slots |-> BlankDir]], hint |-> 0, h |-> Closed,
     fault |-> "none", left |-> 0, dead |-> FALSE, res |-> TRUE, val |-> 0, done |-> FALSE, cl |-> 0,
     prev |-> 0, first |-> 0, off |-> 0, dir |-> 0, out |-> <<>>, got |-> <<>>, reply |-> "none",
     ready |-> FALSE, reinsert |-> FALSE, dropped |-> FALSE]

NoOp == [kind |-> "none", path |-> <<>>, arg |-> <<>>, before |-> Missing, fault |-> "none"]

Init ==
    /\ \E d \in Disks : m = Machine(d) /\ want = [p \in Paths |-> Contents(d, p)]
    /\ op = NoOp
    /\ ops = 0

(* The operations that only read the card lose nothing to a loss of power. *)
FaultsOf(kind) == IF kind \in {"read", "size", "list"} THEN Faults \ {"crash"} ELSE Faults

(* Do F on the machine, with a fault or without one. *)
Do(kind, path, arg, F(_)) ==
    /\ ~m.dead /\ op.fault = "none" /\ ops < MaxOps
    /\ ops' = ops + 1
    /\ \E f \in FaultsOf(kind) \union {"none"}, n \in 0 .. MaxAccess :
         /\ f = "none" => n = 0
         /\ \E r \in {F([m EXCEPT !.fault = f, !.left = n])} :
              /\ f # "none" => r.dead \/ r.fault = "none"     \* the fault has struck
              /\ m' = Idle(r)
              /\ op' = [kind |-> kind, path |-> path, arg |-> arg, fault |-> f,
                        before |-> Contents(m.disk, path)]
              /\ want' = [want EXCEPT ![path] = Contents(r.disk, path)]

Write(p, d) == Do("write", p, d, LAMBDA x : sdc_fat_write_file(x, p, d))
Appending(p, d) == Do("append", p, d, LAMBDA x : sdc_fat_append_file(x, p, d))
Read(p, r) == Do("read", p, r, LAMBDA x : sdc_fat_read_file(x, p, r[1], r[2]))
Size(p) == Do("size", p, <<>>, LAMBDA x : sdc_fat_file_size(x, p))
Mkdir(p) == Do("mkdir", p, <<>>, LAMBDA x : sdc_fat_mkdir(x, p))
List(p) == Do("list", p, <<>>, LAMBDA x : sdc_fat_filelist(x, p))
Unlink(p) == Do("unlink", p, <<>>, LAMBDA x : sdc_fat_unlink(x, p))

(* The card is taken out and put back: the next operation notices. *)
Reinsert ==
    /\ ~m.dead /\ m.ready /\ ~m.reinsert
    /\ m' = [m EXCEPT !.reinsert = TRUE]
    /\ UNCHANGED <<op, want, ops>>

Next ==
    \/ \E p \in Paths :
         \/ \E d \in Datas : Write(p, d) \/ Appending(p, d)
         \/ \E r \in Reads : Read(p, r)
         \/ Size(p) \/ Mkdir(p) \/ List(p) \/ Unlink(p)
    \/ Reinsert

Spec == Init /\ [][Next]_vars

-----------------------------------------------------------------------------
(* Properties. *)

(* The FAT only ever points at clusters of the card, and at most one of its sectors is buffered. *)
TypeOK ==
    /\ DOMAIN m.disk.fat = 0 .. (Clusters - 1)
    /\ \A c \in DOMAIN m.disk.fat : m.disk.fat[c] \in {FREE, LAST} \union DOMAIN m.disk.fat
    /\ m.fbuf.addr \in FatSectors \union {INVALID}
    /\ m.reply \in {"none", "OK", "NOFILE", "FAILURE"}
    /\ ops \in 0 .. MaxOps

(***************************************************************************)
(* No operation changes a file or directory that it does not name, at any  *)
(* moment at which the power may fail: neither allocation nor the shared   *)
(* directory sector, the shared FAT buffer or the short names of others    *)
(* are touched.                                                            *)
(***************************************************************************)
OthersIntact ==
    \A p \in Paths \ {op.path} : Contents(m.disk, p) = want[p]

(* The FAT as the library sees it: the buffer is newer than the card. *)
Fat(x) == [c \in DOMAIN x.disk.fat |->
             IF x.fbuf.addr = c \div FatPer THEN x.fbuf.ents[c % FatPer] ELSE x.disk.fat[c]]

(* mkdir gives its cluster back when the entry would need another one. *)
CardFull ==
    Cardinality({c \in 2 .. (Clusters - 1) : Fat(m)[c] = FREE})
        =< (IF op.kind = "mkdir" THEN 1 ELSE 0)

Whole(bytes) == File(bytes, Len(bytes))
BytesBefore == IF op.before.is = "file" THEN op.before.bytes ELSE <<>>

(* What an operation that answered OK should have left at its path. *)
Promised ==
    CASE op.kind = "write" -> Whole(op.arg)
      [] op.kind = "append" -> Whole(BytesBefore \o op.arg)
      [] op.kind = "unlink" /\ op.before.is = "file" -> Missing
      [] op.kind = "mkdir" /\ op.before.is = "missing"
           /\ (Len(op.path) = 1 \/ Contents(m.disk, Front(op.path)) = Directory) -> Directory
      [] OTHER -> op.before

(***************************************************************************)
(* Without a fault an OK is kept: what was written, appended, created or   *)
(* removed reads back so from the card, its FAT included, unless the card  *)
(* ran full.                                                               *)
(***************************************************************************)
SuccessMeansStored ==
    op.kind # "none" /\ op.fault = "none" /\ m.reply = "OK" =>
        Contents(m.disk, op.path) = Promised \/ CardFull

(* A read, a size or a list that succeeds tells what is on the card. *)
SuccessMeansRead ==
    op.fault = "none" /\ m.reply = "OK" =>
        /\ op.kind = "size" => m.got = op.before.size
        /\ op.kind = "read" =>
             LET end == op.arg[1] + op.arg[2] IN
             m.got = SubSeq(op.before.bytes, op.arg[1] + 1,
                            IF end > Len(op.before.bytes) THEN Len(op.before.bytes) ELSE end)
        /\ op.kind = "list" /\ op.before = Directory =>
             m.got = [i \in DOMAIN Entries(m.disk, Entry(m.disk, op.path).start) |->
                        Entries(m.disk, Entry(m.disk, op.path).start)[i].name]

(* All entries of the volume, the root's and those of its directories. *)
Everything(disk) ==
    EntrySet(disk, Root) \union
      UNION {EntrySet(disk, e.start) : e \in {x \in EntrySet(disk, Root) : x.isdir}}

(***************************************************************************)
(* Without a fault every used cluster is in exactly one chain, which ends: *)
(* nothing is shared and nothing leaks, whatever was allocated and freed,  *)
(* and whatever failed for lack of space.  (A failure for lack of space    *)
(* leaves the FAT buffer dirty; a card that is put in again before the     *)
(* next operation loses that, and a cluster with it.)                      *)
(***************************************************************************)
ChainsSound ==
    LET f == Fat(m)
        starts == {e.start : e \in Everything(m.disk)} \union (IF Root = 0 THEN {} ELSE {Root})
        used == {c \in 2 .. (Clusters - 1) : f[c] # FREE}
    IN  op.fault = "none" =>
          /\ Cardinality(starts) = Cardinality(Everything(m.disk)) + (IF Root = 0 THEN 0 ELSE 1)
          /\ \A s \in starts : f[Last(Chain(f, s))] = LAST
          /\ \A s, t \in starts : s # t => ToSet(Chain(f, s)) \intersect ToSet(Chain(f, t)) = {}
          /\ UNION {ToSet(Chain(f, s)) : s \in starts} \subseteq used
          /\ ~m.dropped => UNION {ToSet(Chain(f, s)) : s \in starts} = used

(***************************************************************************)
(* Two entries of a directory never have the same name or the same short   *)
(* name: lengths are updated and entries deleted by short name.            *)
(***************************************************************************)
NamesUnique ==
    LET dirs == {Root} \union {e.start : e \in {x \in EntrySet(m.disk, Root) : x.isdir}}
    IN  \A d \in dirs : LET es == Entries(m.disk, d) IN
          \A i, j \in DOMAIN es : i # j => es[i].name # es[j].name /\ es[i].short # es[j].short

(* Without a fault the only handle is free again after every operation. *)
HandleFree == op.fault = "none" => ~m.h.used

(***************************************************************************)
(* What sdcard_fat.c answers is true: an OK of a change is on the card, and *)
(* an OK of a read, size or list tells what is on the card.                *)
(***************************************************************************)
SuccessTrue == SuccessMeansStored /\ SuccessMeansRead

(***************************************************************************)
(* The volume stays one that every later operation can work on: entries    *)
(* point into the card, chains are disjoint and complete, names are unique, *)
(* and the handle of fat_filelib.c is free.                                *)
(***************************************************************************)
VolumeSound == TypeOK /\ ChainsSound /\ NamesUnique /\ HandleFree

=============================================================================
