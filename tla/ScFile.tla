------------------------------- MODULE ScFile -------------------------------
(***************************************************************************)
(* The file library of satcom_lib (scf_* in sc_saturn.c): one interface to *)
(* files on the CD-ROM, in a ROM image, on the PC behind the debug link    *)
(* and on the SD card.  A call is one step; only a read from the PC takes  *)
(* two, because the PC is asked for the size first.  The PC and the FAT    *)
(* library on the card are external here (DebugLink, SdFiles).             *)
(* Before the console is started the tool that packs ROM images and the    *)
(* functions on names are called (booted is FALSE): they use no state.     *)
(***************************************************************************)
EXTENDS Cdfs, FileNames

CONSTANTS
    Builds,     \* which builds: is SC_RELEASE defined?
    Images,     \* candidates for sc_romfs_setdata
    Readable,   \* what the CD drive may be able to read: sets of sectors
    Paths,      \* paths the program reads
    Places,     \* paths it writes
    Folders,    \* paths it lists
    Offsets, Sizes,     \* of reads
    Payloads,   \* data it writes
    Filters, Counts, Starts,    \* of listings
    Packable,   \* data that is packed
    Trees,      \* sequences of names, for the functions on paths
    DiscTruth, DiscFolders,     \* the files, and the names in the folders, of the disc
    Stored,     \* what is on the card, and on the PC, at the start
    MaxFile,    \* bound: files do not grow past this
    MaxChanges, \* bound on changes of files and of the world
    MaxPath,    \* SC_PATHNAME_MAXLEN
    Width       \* of an unsigned long, 2^32 on the console

Devices == <<"CDROM", "ROMFS", "PC", "SDCARD">>

ASSUME FileAssumption ==
    /\ Builds \subseteq BOOLEAN
    /\ MaxPath \in Nat \ {0} /\ MaxChanges \in Nat /\ Width \in Nat \ {0} /\ MaxFile \in Nat
    /\ Offsets \subseteq 0 .. Width - 1 /\ Sizes \subseteq 0 .. Width - 1 /\ Counts \subseteq Nat
    /\ \A block \in Packable : block \in Seq(0 .. Base - 1) /\ Len(block) < Base * (Base * (Base * Base))

VARIABLES
    release,    \* SC_RELEASE is defined
    booted,
    cdrom,      \* cdrom_status: "USE", "INIT"
    root,       \* root_lba and root_size of cdfs
    readable,   \* sectors the drive can read now
    romfs,      \* the image in use
    link,       \* the debugger: "on", "off" or "disabled"
    pcFiles, sdFiles,   \* files by path, on the PC and on the card
    init_ok,    \* the card is initialised
    changes,    \* changes so far (bound)
    pend,       \* a read from the PC that waits for its second answer
    out         \* the call that was made, and what it returned

libVars == <<release, booted, cdrom, root, readable, romfs, link, pcFiles, sdFiles, init_ok, changes, pend, out>>

Idle == [op |-> "none"]
Free == out = Idle /\ pend = Idle

-----------------------------------------------------------------------------
(* Names and devices. *)

(* In a release the PC is the CD-ROM. *)
Device(dev) == IF release /\ dev = "PC" THEN "CDROM" ELSE dev

scf_filename_bufferize(path) ==
    Slashes(SubSeq(path, 1, IF Len(path) < MaxPath THEN Len(path) ELSE MaxPath - 1))

ContentOf(files, path) == IF path \in DOMAIN files THEN files[path] ELSE <<>>

(* The FAT library takes paths from the root only. *)
OnCard(path) == init_ok /\ path # <<>> /\ path[1] = Slash

scf_dev_status(dev) ==
    CASE dev = "CDROM" -> "USE" \in cdrom
      [] dev = "ROMFS" -> romfs_check_header(romfs, FALSE)
      [] dev = "PC" -> link = "on"
      [] dev = "SDCARD" -> init_ok

(* cdrom_init_check: the library counts as initialised whatever cdfs_init says. *)
CdRoot == IF "INIT" \in cdrom \/ "USE" \notin cdrom THEN root ELSE cdfs_init(readable).root

(* A broken variant: a drive that is not used is marked too. *)
MarkAlways ==
    /\ root' = CdRoot
    /\ cdrom' = cdrom \union {"INIT"}

cdrom_init_check ==
    /\ root' = CdRoot
    /\ cdrom' = IF "USE" \in cdrom THEN cdrom \union {"INIT"} ELSE cdrom

NoCd == UNCHANGED <<root, cdrom>>

-----------------------------------------------------------------------------
(* Sizes and reads. *)

RomEntry(path) ==
    LET i == romfs_get_first_entry(romfs, Names(path))
    IN  IF i = 0 THEN Folder(<<>>, {}, 0) ELSE romfs.entries[i]

CdFile(path) == IF "USE" \in cdrom THEN cdfs_open(readable, CdRoot, Names(path)) ELSE NoFile

SizeOn(dev, path) ==
    CASE dev = "PC" -> IF link = "on" THEN Len(ContentOf(pcFiles, path)) ELSE 0
      [] dev = "ROMFS" -> romfs_get_entry_size(RomEntry(path))
      [] dev = "CDROM" -> CdFile(path).size
      [] dev = "SDCARD" -> IF OnCard(path) THEN Len(ContentOf(sdFiles, path)) ELSE 0

(* A request is answered only while the PC is there; until then it waits. *)
Answers(dev) == dev = "PC" => link # "off"

scf_size(dev, path) ==
    LET d == Device(dev) IN
    /\ booted /\ Free /\ Answers(d)
    /\ out' = [op |-> "size", dev |-> dev, path |-> path, ret |-> SizeOn(d, scf_filename_bufferize(path))]
    /\ IF d = "CDROM" THEN cdrom_init_check ELSE NoCd
    /\ UNCHANGED <<release, booted, readable, romfs, link, pcFiles, sdFiles, init_ok, changes, pend>>

(* A broken variant: the offset is forgotten. *)
ClampLoose(len, offset, size) ==
    LET o == IF offset > len THEN 0 ELSE offset
    IN  [off |-> o, n |-> IF size > len THEN len - o ELSE size]

(* The part that is asked for: an offset behind the end becomes 0, and the   *)
(* end of the part is computed in Width.                                     *)
Clamp(len, offset, size) ==
    LET o == IF offset > len THEN 0 ELSE offset
    IN  [off |-> o, n |-> IF (o + size) % Width > len THEN len - o ELSE size]

Got(dev, path, offset, size, ret, data) ==
    [op |-> "read", dev |-> dev, path |-> path, offset |-> offset, size |-> size, ret |-> ret, data |-> data]

Part(bytes, c) == [i \in 1 .. c.n |-> IF c.off + i =< Len(bytes) THEN bytes[c.off + i] ELSE Behind]

(* On the card the FAT library says it read all it was asked for. *)
ReadOn(d, path, offset, size) ==
    LET c == Clamp(SizeOn(d, path), offset, size)
        cd == cdfs_read(readable, CdFile(path), c.off, c.n)
    IN  CASE d = "ROMFS" -> romfs_get_entry_data(RomEntry(path), c.off, c.n)
          [] d = "CDROM" -> IF "USE" \in cdrom /\ cd.ok THEN cd.data ELSE <<>>
          [] d = "SDCARD" -> IF OnCard(path) /\ path \in DOMAIN sdFiles THEN Part(sdFiles[path], c) ELSE <<>>

scf_read(dev, path, offset, size) ==
    LET d == Device(dev)
        data == ReadOn(d, scf_filename_bufferize(path), offset, size)
    IN
    /\ booted /\ Free /\ d # "PC"
    /\ out' = Got(dev, path, offset, size, Len(data), data)
    /\ IF d = "CDROM" THEN cdrom_init_check ELSE NoCd
    /\ UNCHANGED <<release, booted, readable, romfs, link, pcFiles, sdFiles, init_ok, changes, pend>>

(* The PC is asked for the size ... *)
ScfReadPc(path, offset, size) ==
    LET p == scf_filename_bufferize(path)
        c == Clamp(SizeOn("PC", p), offset, size)
    IN
    /\ booted /\ Free /\ Device("PC") = "PC" /\ Answers("PC")
    /\ IF c.n = 0 THEN out' = Got("PC", path, offset, size, 0, <<>>) /\ UNCHANGED pend
       ELSE /\ pend' = [op |-> "read", path |-> path, offset |-> offset, size |-> size, off |-> c.off, n |-> c.n]
            /\ UNCHANGED out
    /\ UNCHANGED <<release, booted, cdrom, root, readable, romfs, link, pcFiles, sdFiles, init_ok, changes>>

(* ... and for the part; it says how much it read. *)
ScfReadPcPart ==
    LET file == ContentOf(pcFiles, scf_filename_bufferize(pend.path))
        data == SelectSeq(Part(file, pend), LAMBDA b : b # Behind)
    IN
    /\ pend # Idle /\ Answers("PC")
    /\ out' = IF link = "on" THEN Got("PC", pend.path, pend.offset, pend.size, Len(data), data)
              ELSE Got("PC", pend.path, pend.offset, pend.size, 0, <<>>)
    /\ pend' = Idle
    /\ UNCHANGED <<release, booted, cdrom, root, readable, romfs, link, pcFiles, sdFiles, init_ok, changes>>

-----------------------------------------------------------------------------
(* Changes.  The buffer with the slashes goes to the PC only: the card gets  *)
(* the path as it is.  Nothing is written to the CD-ROM or a ROM image.      *)

Put(files, path, data) == [p \in DOMAIN files \union {path} |-> IF p = path THEN data ELSE files[p]]

Drop(files, path) == [p \in DOMAIN files \ {path} |-> files[p]]

(* A change on one of the two devices that take one: what the PC and the     *)
(* card are given, and what is returned.                                     *)
Change(op, dev, path, newPc, newSd, cardTakes, ret) ==
    LET d == Device(dev)
        onPc == d = "PC" /\ link = "on"
        onCard == d = "SDCARD" /\ init_ok
    IN
    /\ booted /\ Free /\ Answers(d)
    /\ changes < MaxChanges /\ changes' = changes + 1
    /\ pcFiles' = IF onPc THEN newPc ELSE pcFiles
    /\ sdFiles' = IF onCard /\ OnCard(path) THEN newSd ELSE sdFiles
    /\ out' = [op |-> op, dev |-> dev, path |-> path, ret |-> IF onPc \/ (onCard /\ cardTakes) THEN ret ELSE 0]
    /\ UNCHANGED <<release, booted, cdrom, root, readable, romfs, link, init_ok, pend>>

scf_write(dev, path, data) ==
    Change("write", dev, path, Put(pcFiles, scf_filename_bufferize(path), data), Put(sdFiles, path, data),
           OnCard(path), Len(data))

Appended(files, path, data) == Put(files, path, ContentOf(files, path) \o data)

scf_append(dev, path, data) ==
    /\ \A files \in {pcFiles, sdFiles}, p \in {path, scf_filename_bufferize(path)} :
           Len(ContentOf(files, p)) + Len(data) =< MaxFile
    /\ Change("append", dev, path, Appended(pcFiles, scf_filename_bufferize(path), data),
              Appended(sdFiles, path, data), OnCard(path), Len(data))

(* The card's results are not asked for: 1 is returned even if it refused. *)
scf_delete(dev, path) == Change("delete", dev, path, Drop(pcFiles, path), Drop(sdFiles, path), TRUE, 1)

(* A folder holds nothing here, and making it is not noticed by the files. *)
scf_mkdir(dev, path) == Change("mkdir", dev, path, pcFiles, sdFiles, TRUE, 1)

-----------------------------------------------------------------------------
(* Listings. *)

Listed(name, folder) ==
    [name |-> SubSeq(name, 1, IF Len(name) < MaxName THEN Len(name) ELSE MaxName - 1),
     flags |-> IF folder THEN {"ENABLED", "FOLDER"} ELSE {"ENABLED"}, sort |-> 0]

Window(entries, offset, count) ==
    SubSeq(entries, offset + 1, IF offset + count < Len(entries) THEN offset + count ELSE Len(entries))

(* The entries of the card's root folder, in the order of the directory. *)
InRoot(files) == {Listed(Tail(p), FALSE) : p \in {q \in DOMAIN files : Len(Names(q)) = 1}}
                 \union {Listed(Names(p)[1], TRUE) : p \in {q \in DOMAIN files : Len(Names(q)) > 1}}

(* The entries of the folder a ROM image's path leads to.  The first of them *)
(* is asked whether it is a folder; the walk ends at the last entry.         *)
RomWalk(first) ==
    LET from[i \in DOMAIN romfs.entries] ==
            LET e == romfs.entries[i]
            IN  <<[name |-> e.name, flags |-> e.flags, sort |-> 0]>>
                \o (IF "LASTENTRY" \in e.flags THEN <<>> ELSE from[romfs_get_next_entry(romfs, i)])
    IN  from[first]

RomList(path) ==
    LET i == romfs_get_first_entry(romfs, Names(path))
    IN  IF i = 0 \/ "FOLDER" \notin romfs.entries[i].flags THEN <<>> ELSE RomWalk(i)

CdList(path) ==
    LET recs == IF "USE" \in cdrom THEN cdfs_filelist(readable, CdRoot, Names(path)) ELSE <<>>
    IN  [i \in DOMAIN recs |-> Listed(NameOf(recs[i]), recs[i].dir)]

(* Only the ROM image counts what it listed, not what there is. *)
scf_filelist(dev, path, count, offset, sort, all, filter) ==
    LET d == Device(dev) IN
    /\ booted /\ Free /\ d \in {"CDROM", "ROMFS", "SDCARD"}
    /\ d = "SDCARD" => path = <<Slash>>
    /\ \E entries \in CASE d = "CDROM" -> {CdList(path)}
                        [] d = "ROMFS" -> {RomList(path)}
                        [] OTHER -> IF init_ok THEN SetToSeqs(InRoot(sdFiles)) ELSE {<<>>} :
           LET window == Window(entries, offset, count)
               total == IF d = "ROMFS" THEN Len(window) ELSE Len(entries)
           IN  out' = [op |-> "list", dev |-> dev, path |-> path, offset |-> offset, sort |-> sort,
                       all |-> all, filter |-> filter, entries |-> entries, ret |-> total,
                       list |-> Finish(window, count, total, sort, all, filter)]
    /\ IF d = "CDROM" THEN cdrom_init_check ELSE NoCd
    /\ UNCHANGED <<release, booted, readable, romfs, link, pcFiles, sdFiles, init_ok, changes, pend>>

scf_dev_list ==
    /\ booted /\ Free
    /\ out' = [op |-> "devices", ret |-> SelectSeq(Devices, scf_dev_status)]
    /\ UNCHANGED <<release, booted, cdrom, root, readable, romfs, link, pcFiles, sdFiles, init_ok, changes, pend>>

-----------------------------------------------------------------------------
(* ROM images. *)

sc_romfs_setdata(image) ==
    LET ok == romfs_check_header(image, TRUE) IN
    /\ booted /\ Free
    /\ romfs' = IF ok THEN image ELSE romfs
    /\ out' = [op |-> "setdata", ret |-> ok]
    /\ UNCHANGED <<release, booted, cdrom, root, readable, link, pcFiles, sdFiles, init_ok, changes, pend>>

sc_romfs_get_dataptr(path) ==
    LET e == RomEntry(path)
        ptr == IF "FOLDER" \in e.flags THEN [null |-> TRUE, len |-> 0] ELSE romfs_get_entry_ptr(e)
    IN
    /\ booted /\ Free
    /\ out' = [op |-> "pointer", path |-> path, null |-> ptr.null, len |-> ptr.len]
    /\ UNCHANGED <<release, booted, cdrom, root, readable, romfs, link, pcFiles, sdFiles, init_ok, changes, pend>>

-----------------------------------------------------------------------------
(* Before the start, the environment, and the return to the program. *)

Pack(block) ==
    /\ ~booted /\ Free
    /\ out' = [op |-> "pack", block |-> block, packed |-> comp_exec(block)]
    /\ UNCHANGED <<release, booted, cdrom, root, readable, romfs, link, pcFiles, sdFiles, init_ok, changes, pend>>

(* The path of a sequence of names. *)
PathOf(names) == FlattenSeq([i \in DOMAIN names |-> <<Slash>> \o names[i]])

GoUp(names) ==
    /\ ~booted /\ Free
    /\ out' = [op |-> "up", names |-> names, file |-> scf_get_filename(PathOf(names)),
               parent |-> scf_parent_path(PathOf(names)),
               from |-> scf_parent_path(PathOf(names) \o <<Slash>>)]
    /\ UNCHANGED <<release, booted, cdrom, root, readable, romfs, link, pcFiles, sdFiles, init_ok, changes, pend>>

Boot ==
    /\ ~booted /\ Free
    /\ booted' = TRUE
    /\ cdrom' \in {{}, {"USE"}}
    /\ UNCHANGED <<release, root, readable, romfs, link, pcFiles, sdFiles, init_ok, changes, pend, out>>

(* The disc is changed for one the drive reads better or worse; the PC comes *)
(* and goes; the user edits a file on the PC; the card is taken or put in.   *)
World ==
    /\ booted /\ out = Idle
    /\ changes < MaxChanges /\ changes' = changes + 1
    /\ \/ readable' \in Readable /\ UNCHANGED <<link, pcFiles, init_ok>>
       \/ link = "on" /\ link' = "off" /\ UNCHANGED <<readable, pcFiles, init_ok>>
       \/ /\ \E p \in DOMAIN pcFiles : pcFiles' = Put(pcFiles, p, Window(pcFiles[p], 0, Len(pcFiles[p]) \div 2))
          /\ UNCHANGED <<readable, link, init_ok>>
       \/ init_ok' = ~init_ok /\ UNCHANGED <<readable, link, pcFiles>>
    /\ UNCHANGED <<release, booted, cdrom, root, romfs, sdFiles, pend, out>>

PcReturns ==
    /\ link = "off" /\ out = Idle
    /\ link' = "on"
    /\ UNCHANGED <<release, booted, cdrom, root, readable, romfs, pcFiles, sdFiles, init_ok, changes, pend, out>>

Return ==
    /\ out # Idle
    /\ out' = Idle
    /\ UNCHANGED <<release, booted, cdrom, root, readable, romfs, link, pcFiles, sdFiles, init_ok, changes, pend>>

LibInit ==
    /\ release \in Builds /\ booted = FALSE
    /\ cdrom = {} /\ root = NoFile /\ readable \in Readable
    /\ romfs = NoImage
    /\ link \in {"on", "disabled"}
    /\ pcFiles \in Stored /\ sdFiles \in Stored /\ init_ok = TRUE /\ changes = 0
    /\ pend = Idle /\ out = Idle

DeviceSet == {Devices[i] : i \in DOMAIN Devices}

LibNext ==
    \/ \E dev \in DeviceSet, path \in Paths :
           \/ scf_size(dev, path)
           \/ \E offset \in Offsets, size \in Sizes : scf_read(dev, path, offset, size)
    \/ \E path \in Paths, offset \in Offsets, size \in Sizes : ScfReadPc(path, offset, size)
    \/ ScfReadPcPart
    \/ \E dev \in DeviceSet, path \in Places :
           \/ scf_delete(dev, path)
           \/ scf_mkdir(dev, path)
           \/ \E data \in Payloads : scf_write(dev, path, data) \/ scf_append(dev, path, data)
    \/ \E dev \in DeviceSet, path \in Folders, count \in Counts, offset \in Starts, sort \in BOOLEAN :
           \/ scf_filelist(dev, path, count, offset, sort, TRUE, <<>>)
           \/ \E filter \in Filters : scf_filelist(dev, path, count, offset, sort, FALSE, filter)
    \/ scf_dev_list
    \/ \E image \in Images : sc_romfs_setdata(image)
    \/ \E path \in Paths : sc_romfs_get_dataptr(path)
    \/ \E block \in Packable : Pack(block)
    \/ \E names \in Trees : GoUp(names)
    \/ Boot
    \/ World
    \/ PcReturns
    \/ Return

LibSpec == LibInit /\ [][LibNext]_libVars

-----------------------------------------------------------------------------
(* Properties. *)

(* The state has the shape of the library's state; the CD-ROM is initialised  *)
(* only where it is used.                                                     *)
LibTypeOK ==
    /\ cdrom \subseteq {"USE", "INIT"} /\ ("INIT" \in cdrom => "USE" \in cdrom)
    /\ romfs \in Images \union {NoImage}
    /\ link \in {"on", "off", "disabled"} /\ {release, booted, init_ok} \subseteq BOOLEAN
    /\ \A files \in {pcFiles, sdFiles} : \A p \in DOMAIN files : Len(files[p]) =< MaxFile
    /\ pend # Idle => out = Idle
    /\ ~booted => cdrom = {} /\ romfs = NoImage

(* Packed data comes back whole, and its length is known without unpacking    *)
(* it; packing costs one byte at most.  (comp_exec, decomp_exec,              *)
(* decomp_getsize of sc_compress.c.)                                          *)
RoundTrip ==
    out.op = "pack" =>
        /\ decomp_exec(out.packed) = out.block
        /\ decomp_getsize(out.packed) = Len(out.block)
        /\ Len(out.packed) =< Len(out.block) + 1

(* The file a path names on a device, as a set with at most one element: the  *)
(* card's and the PC's are the state, a disc and an image come with what is   *)
(* on them.                                                                   *)
CdReady == "USE" \in cdrom /\ root # NoFile /\ readable = DOMAIN Disc

Named(dev, path) ==
    LET p == scf_filename_bufferize(path)
        Of(files) == IF p \in DOMAIN files THEN {files[p]} ELSE {}
        AnyCase(truth) == {truth[q] : q \in {r \in DOMAIN truth : Upper(r) = Upper(p)}}
    IN  CASE dev = "SDCARD" -> IF init_ok THEN Of(sdFiles) ELSE {}
          [] dev = "PC" -> IF link = "on" THEN Of(pcFiles) ELSE {}
          [] dev = "ROMFS" -> IF romfs = NoImage THEN {} ELSE AnyCase(romfs.truth)
          [] dev = "CDROM" -> IF CdReady THEN AnyCase(DiscTruth) ELSE {}

(* Every size and every pointer is that of the file the path names, in any    *)
(* case, packed or not, next to names that begin alike and to disabled        *)
(* entries; on the card and the PC a file that is not there has size 0.       *)
(* (scf_size, sc_romfs_get_dataptr.)                                          *)
SizeTrue ==
    /\ out.op = "size" =>
        /\ \A f \in Named(Device(out.dev), out.path) : out.ret = Len(f)
        /\ Device(out.dev) \in {"SDCARD", "PC"} /\ Named(Device(out.dev), out.path) = {} => out.ret = 0
    /\ out.op = "pointer" => \A f \in Named("ROMFS", out.path) : out.null \/ out.len = Len(f)

(* What a read returns is the part of the named file that was asked for, as   *)
(* far as the file goes; never more than was asked for.  An offset behind the *)
(* end counts as 0, and the CD-ROM is read from the start of a sector only.   *)
(* A read from the PC, whose file may change between its size and its bytes,  *)
(* is still a part of the file as it is.  Reads whose end is not an unsigned  *)
(* long are left out: the code does not clamp them.  (scf_read.)              *)
BytesTrue ==
    out.op = "read" /\ out.offset + out.size < Width =>
        /\ out.ret = Len(out.data) /\ out.ret =< out.size
        /\ \A f \in Named(Device(out.dev), out.path) :
               LET from == IF out.offset > Len(f) THEN 0 ELSE out.offset
                   rest == Len(f) - from
                   n == IF out.size < rest THEN out.size ELSE rest
               IN  CASE Device(out.dev) = "CDROM" /\ from % Sector # 0 -> out.ret = 0
                     [] Device(out.dev) = "PC" -> 
                          \E k \in {0, out.offset} : k + out.ret =< Len(f) /\ out.data = SubSeq(f, k + 1, k + out.ret)
                     [] OTHER -> out.data = SubSeq(f, from + 1, from + n)
        /\ Device(out.dev) = "SDCARD" /\ Named("SDCARD", out.path) = {} => out.ret = 0

(* The library's state stays sound, and sizes, pointers and reads are those   *)
(* of the named file.                                                         *)
FileTrue == LibTypeOK /\ SizeTrue /\ BytesTrue

HasExtension(name, ext) ==
    LET e == IF ext[1] = Dot THEN ext ELSE <<Dot>> \o ext
    IN  Len(name) >= Len(e) /\ Upper(SubSeq(name, Len(name) - Len(e) + 1, Len(name))) = Upper(e)

OneDot(name) == Cardinality({i \in DOMAIN name : name[i] = Dot}) = 1

(* A whole listing has every entry of the folder once: the indices of a       *)
(* sorted one order the folders before the files and both by name, and of     *)
(* the files exactly those with an extension of the filter stay enabled.      *)
(* Nothing is claimed of names with two dots at the end, where the code takes *)
(* the first.  (scf_filelist.)                                                *)
ListingTrue ==
    out.op = "list" /\ out.offset = 0 /\ Len(out.list) >= Len(out.entries) =>
        LET n == Len(out.entries)
            l == out.list
            At(i) == l[l[i].sort + 1]
        IN  /\ out.ret = n
            /\ {l[i].sort : i \in 1 .. n} = 0 .. n - 1
            /\ out.sort => \A i, j \in 1 .. n : i < j => ~scf_file_is_greater(At(i), At(j))
            /\ \A i \in 1 .. n :
                  /\ "FOLDER" \in l[i].flags => l[i].name[1] = Slash
                  /\ "FOLDER" \notin l[i].flags /\ OneDot(l[i].name) =>
                        ("ENABLED" \in l[i].flags <=>
                             out.all \/ \E k \in DOMAIN out.filter : HasExtension(l[i].name, out.filter[k]))
            /\ Device(out.dev) = "CDROM" /\ CdReady /\ out.path \in DOMAIN DiscFolders =>
                  {out.entries[i].name : i \in 1 .. n} = DiscFolders[out.path]

(* Going up from a path leads to the path without its last name, with a slash *)
(* at the end or not, and the file name is that last name.                    *)
(* (scf_parent_path, scf_get_filename.)                                       *)
UpTrue ==
    out.op = "up" =>
        /\ out.file = out.names[Len(out.names)]
        /\ out.parent = PathOf(SubSeq(out.names, 1, Len(out.names) - 1))
        /\ out.from = out.parent

(* Listings, and the names taken from paths, are those of the folder and the  *)
(* file.                                                                      *)
NamesTrue == ListingTrue /\ UpTrue

=============================================================================
