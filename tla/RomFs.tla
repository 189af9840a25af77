------------------------------- MODULE RomFs --------------------------------
(***************************************************************************)
(* The ROM file system of satcom_lib (sc_romfs.c): an image is a header    *)
(* and a list of entries, of which a folder's stand together and the last  *)
(* is marked.  Data is raw, or compressed chunk by chunk (Lzf).            *)
(* Characters are ASCII codes, names are sequences of them, and a path is  *)
(* the sequence of the names between its slashes.                          *)
(***************************************************************************)
EXTENDS Lzf

CONSTANTS
    Chunk,      \* ROMFS_COMP_CHUNK
    MaxName     \* SC_FILENAME_MAXLEN, with the terminating null

ASSUME RomFsAssumption == Chunk \in Nat \ {0} /\ MaxName \in Nat \ {0, 1}

sc_toupper(c) == IF c \in 97 .. 122 THEN c - 32 ELSE c

sc_tolower(c) == IF c \in 65 .. 90 THEN c + 32 ELSE c

Upper(name) == [i \in DOMAIN name |-> sc_toupper(name[i])]

-----------------------------------------------------------------------------
(* An image, as the tool on the PC packs it. *)

Entry(name, flags, offset, data) == [name |-> name, flags |-> flags, offset |-> offset, data |-> data]

Folder(name, flags, offset) == Entry(name, flags \union {"ENABLED", "FOLDER"}, offset, <<>>)

Raw(name, flags, data) == Entry(name, flags \union {"ENABLED"}, 0, data)

Packed(name, flags, data) ==
    LET chunks == (Len(data) + Chunk - 1) \div Chunk
        Part(k) == SubSeq(data, (k - 1) * Chunk + 1, IF k * Chunk < Len(data) THEN k * Chunk ELSE Len(data))
    IN  Entry(name, flags \union {"ENABLED", "COMPRESSED"}, 0,
              [size |-> Len(data), chunks |-> [k \in 1 .. chunks |-> comp_exec(Part(k))]])

NoImage == [magic |-> FALSE, crc |-> FALSE, entries |-> <<>>]

(* The header (a null pointer has none), and whether its checksum is that of *)
(* the entries.                                                              *)
romfs_check_header(image, crcCheck) ==
    /\ image.magic
    /\ crcCheck => image.crc

-----------------------------------------------------------------------------
(* Finding an entry. *)

_romfs_compare_filename(filename, e) == Len(e.name) = Len(filename) /\ Upper(e.name) = filename

(* The first entry from i on that has the name, or is the last of its folder. *)
FindEntry(image, i, filename) ==
    LET e == image.entries
        Same(k) == "ENABLED" \in e[k].flags /\ _romfs_compare_filename(filename, e[k])
        at == FirstOf({k \in i .. Len(e) : Same(k) \/ "LASTENTRY" \in e[k].flags})
    IN  IF ~Same(at) THEN 0 ELSE IF "FOLDER" \in e[at].flags THEN e[at].offset ELSE at

(* The entry after n names of the path; an empty name ends it. *)
WalkPath(image, path) ==
    LET empty == {n \in DOMAIN path : path[n] = <<>>}
        after[n \in 0 .. Len(path)] ==
            IF n = 0 THEN 1
            ELSE IF after[n - 1] = 0 \/ Len(path[n]) + 1 > MaxName THEN 0
            ELSE FindEntry(image, after[n - 1], Upper(path[n]))
    IN  after[IF empty = {} THEN Len(path) ELSE FirstOf(empty) - 1]

(* The entry a path leads to, 0 for none.  Of a folder it is the first      *)
(* entry in it, and a file in the middle of a path is not left.             *)
romfs_get_first_entry(image, path) ==
    IF ~romfs_check_header(image, FALSE) THEN 0 ELSE WalkPath(image, path)

(* The next enabled entry of the folder. *)
romfs_get_next_entry(image, i) ==
    LET e == image.entries
        at == FirstOf({k \in i + 1 .. Len(e) : e[k].flags \intersect {"ENABLED", "LASTENTRY"} # {}})
    IN  IF i = 0 \/ "LASTENTRY" \in e[i].flags \/ "ENABLED" \notin e[at].flags THEN 0 ELSE at

-----------------------------------------------------------------------------
(* Data. *)

Behind == -1    \* a byte of the memory behind a file

romfs_get_entry_size(e) ==
    IF "FOLDER" \in e.flags THEN 0
    ELSE IF "COMPRESSED" \in e.flags THEN e.data.size
    ELSE Len(e.data)

(* The bytes of one chunk that lie in the range. *)
InRange(bytes, inOffset, offset, size) ==
    LET in == {i \in DOMAIN bytes : inOffset + i - 1 >= offset /\ inOffset + i - 1 < offset + size}
    IN  IF in = {} THEN <<>> ELSE SubSeq(bytes, FirstOf(in), FirstOf(in) + Cardinality(in) - 1)

(* The chunks are decompressed from the first on, until the range is behind. *)
romfs_decomp_exec(data, offset, size) ==
    LET from[k \in DOMAIN data.chunks, inOffset \in Nat] ==
            LET bytes == decomp_exec(data.chunks[k])
                here == InRange(bytes, inOffset, offset, size)
                next == inOffset + Len(bytes)
            IN  IF next >= offset + size \/ next >= data.size THEN here
                ELSE here \o from[k + 1, next]
    IN  from[1, 0]

romfs_get_entry_data(e, offset, size) ==
    IF "FOLDER" \in e.flags THEN <<>>
    ELSE IF "COMPRESSED" \in e.flags THEN romfs_decomp_exec(e.data, offset, size)
    ELSE [i \in 1 .. size |-> IF offset + i =< Len(e.data) THEN e.data[offset + i] ELSE Behind]

(* A pointer to raw data, and its length; the null pointer for compressed data. *)
romfs_get_entry_ptr(e) ==
    IF "COMPRESSED" \in e.flags THEN [null |-> TRUE, len |-> 0] ELSE [null |-> FALSE, len |-> Len(e.data)]
=============================================================================
