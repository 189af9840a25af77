----------------------------- MODULE FileNames ------------------------------
(***************************************************************************)
(* Names, paths and listings in the file library of satcom_lib             *)
(* (sc_saturn.c): the functions on paths, and what scf_filelist does with  *)
(* the entries a device gave it (names of folders, filter, sort).          *)
(* A listing is an array of [name, flags, sort]; entries nobody filled     *)
(* have no flags and an empty name.                                        *)
(***************************************************************************)
EXTENDS RomFs

Slash == 47
Backslash == 92
Dot == 46

Slashes(path) == ReplaceAll(path, Backslash, Slash)

(* The names between the slashes, without a slash in front. *)
Split(path) ==
    LET from[i \in 1 .. Len(path) + 1] ==
            LET at == {k \in i .. Len(path) : path[k] = Slash}
            IN  IF at = {} THEN <<SubSeq(path, i, Len(path))>>
                ELSE <<SubSeq(path, i, FirstOf(at) - 1)>> \o from[FirstOf(at) + 1]
    IN  from[1]

Names(path) == Split(IF path # <<>> /\ path[1] = Slash THEN Tail(path) ELSE path)

-----------------------------------------------------------------------------
LastOf(S) == CHOOSE k \in S : \A j \in S : k >= j

scf_get_filename(path) ==
    LET at == {i \in 1 .. Len(path) - 1 : path[i] \in {Slash, Backslash}}
    IN  IF at = {} THEN path ELSE SubSeq(path, LastOf(at) + 1, Len(path))

(* A broken variant: the slash at the end is not removed first. *)
ParentKeepsSlash(path) ==
    LET p == Slashes(path)
        at == {i \in DOMAIN p : p[i] = Slash}
    IN  IF at = {} THEN <<>> ELSE SubSeq(p, 1, LastOf(at) - 1)

scf_parent_path(path) ==
    LET p == Slashes(path)
        q == IF p # <<>> /\ p[Len(p)] = Slash THEN SubSeq(p, 1, Len(p) - 1) ELSE p
        at == {i \in DOMAIN q : q[i] = Slash}
    IN  IF at = {} THEN <<>> ELSE SubSeq(q, 1, LastOf(at) - 1)

(* At most three characters of a string, in capitals. *)
First3(s) == Upper(SubSeq(s, 1, IF Len(s) < 3 THEN Len(s) ELSE 3))

(* The extension is what follows the first dot of the last four characters. *)
scf_compare_extension(str, ext) ==
    LET from == IF Len(str) > 4 THEN Len(str) - 3 ELSE 1
        at == {i \in from .. Len(str) : str[i] = Dot}
        e1 == IF at = {} THEN <<>> ELSE First3(SubSeq(str, FirstOf(at) + 1, Len(str)))
        e2 == First3(IF ext # <<>> /\ ext[1] = Dot THEN Tail(ext) ELSE ext)
    IN  e1 = e2

-----------------------------------------------------------------------------
(* scf_filelist, behind the device. *)

Blank == [name |-> <<>>, flags |-> {}, sort |-> 0]

(* A slash goes in front of the name of a folder, which loses what no longer *)
(* fits; "." and ".." are disabled.                                          *)
Sanitized(e) ==
    LET slashed == e.name # <<>> /\ e.name[1] \in {Slash, Backslash}
        long == <<Slash>> \o e.name
        name == IF slashed THEN e.name
                ELSE SubSeq(long, 1, IF Len(long) < MaxName THEN Len(long) ELSE MaxName - 1)
        dots == Tail(name) \in {<<Dot>>, <<Dot, Dot>>}
    IN  IF ~({"ENABLED", "FOLDER"} \subseteq e.flags) THEN e
        ELSE [e EXCEPT !.name = name, !.flags = IF dots THEN @ \ {"ENABLED"} ELSE @]

(* Folders, and files with one of the extensions, stay; an extension of the  *)
(* filter has at most four characters with its dot.                          *)
Filtered(e, filter) ==
    LET Ext(x) == SubSeq(x, 1, IF Len(x) < 4 THEN Len(x) ELSE 4)
        selected == "FOLDER" \in e.flags
                    \/ \E k \in DOMAIN filter : scf_compare_extension(e.name, Ext(filter[k]))
    IN  IF selected THEN e ELSE [e EXCEPT !.flags = @ \ {"ENABLED"}]

(* Names are compared to the end of the array, in small letters; what is     *)
(* behind the name is null.                                                  *)
CharAt(name, i) == IF i \in DOMAIN name THEN sc_tolower(name[i]) ELSE 0

scf_file_is_greater(f, g) ==
    LET ff == "FOLDER" \in f.flags
        gf == "FOLDER" \in g.flags
        differ == {i \in 1 .. MaxName : CharAt(f.name, i) # CharAt(g.name, i)}
    IN  IF ff # gf THEN ~ff
        ELSE differ # {} /\ CharAt(f.name, FirstOf(differ)) > CharAt(g.name, FirstOf(differ))

(* A broken variant: one pass over neighbours. *)
SortedOnce(list, items) ==
    LET Exchange(l, i) ==
            IF scf_file_is_greater(l[l[i].sort + 1], l[l[i + 1].sort + 1])
            THEN [l EXCEPT ![i].sort = l[i + 1].sort, ![i + 1].sort = l[i].sort]
            ELSE l
    IN  FoldLeft(Exchange, list, [i \in 1 .. items - 1 |-> i])

(* Every pair in turn; only the indices move. *)
Sorted(list, items) ==
    LET pairs == FlattenSeq([i \in 1 .. items |-> [j \in 1 .. items - i |-> <<i, i + j>>]])
        Exchange(l, p) ==
            IF scf_file_is_greater(l[l[p[1]].sort + 1], l[l[p[2]].sort + 1])
            THEN [l EXCEPT ![p[1]].sort = l[p[2]].sort, ![p[2]].sort = l[p[1]].sort]
            ELSE l
    IN  FoldLeft(Exchange, list, pairs)

(* What the caller finds in his array of count entries, of which the device  *)
(* filled the first; total is what it counted.  No filter is the empty one   *)
(* with all set.                                                             *)
Finish(filled, count, total, sort, all, filter) ==
    LET items == IF total > count THEN count ELSE total
        array == [i \in 1 .. count |-> IF i =< Len(filled) THEN filled[i] ELSE Blank]
        clean == [i \in 1 .. count |-> [Sanitized(array[i]) EXCEPT !.sort = i - 1]]
        kept == [i \in 1 .. count |-> IF all \/ i > items THEN clean[i] ELSE Filtered(clean[i], filter)]
    IN  IF sort /\ items > 1 THEN Sorted(kept, items) ELSE kept
=============================================================================
