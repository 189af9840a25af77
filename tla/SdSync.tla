------------------------------- MODULE SdSync -------------------------------
(***************************************************************************)
(* ftx --sync: DoSdSync of xfer.cpp, on top of the requests that SdStore   *)
(* specifies.  A step is one request, or the local work between two; the   *)
(* user may change the local directory meanwhile.                          *)
(*                                                                         *)
(* local and the listings are functions of paths relative to the two base  *)
(* directories; <<>> is the local base directory itself.  The base on the  *)
(* card is the directory Base of its root.                                 *)
(***************************************************************************)
EXTENDS Card, FiniteSets

CONSTANTS
    Rels,       \* relative paths, without the base
    Base,       \* saturn_base
    Locals,     \* initial contents of the local directory
    Cards,      \* initial contents of the card
    Contents,   \* contents of the files of the user
    MaxSyncs,   \* number of ftx --sync
    MaxEdits    \* number of changes by the user

CombineSaturnPath(p) == Base \o p

ASSUME SyncAssumption ==
    /\ IsFiniteSet(Rels) /\ Rels \subseteq Seq(STRING) \ {<<>>} /\ Base \in Seq(STRING)
    /\ \A p \in Rels : \A n \in 1 .. (Len(p) - 1) : SubSeq(p, 1, n) \in Rels
    /\ \A l \in Locals : /\ DOMAIN l = Rels \union {<<>>}
                         /\ \A p \in DOMAIN l : l[p] \in {None, Dir} \union {File(d) : d \in Contents}
    /\ \A c \in Cards : IsTree(c) /\ DOMAIN c = {Base} \union {CombineSaturnPath(p) : p \in Rels}
    /\ MaxSyncs \in Nat /\ MaxEdits \in Nat

VARIABLES
    local,      \* the local directory
    card,       \* the card
    pc,         \* "idle", or the loop that DoSdSync is in
    mode,       \* 1, 2 or 3
    litems,     \* local_items: what the local snapshot found, by path
    sitems,     \* saturn_items
    todo,       \* paths that the loop has not handled yet
    fails,      \* fail_count
    ret,        \* what the last DoSdSync returned
    interrupt,  \* ftdi::g_interrupt_flag
    instep,     \* the link is in step
    syncs, edits,
    (* history *)
    listed,     \* every listing was complete
    edited,     \* paths that the user changed during the sync
    broken      \* local files that a failed download left incomplete

vars == <<local, card, pc, mode, litems, sitems, todo, fails, ret, interrupt, instep,
          syncs, edits, listed, edited, broken>>
bounds == <<syncs, edits>>
history == <<listed, edited, broken>>

Nothing == [p \in {} |-> None]
DirsOf(items) == {p \in DOMAIN items : items[p].kind = "dir"}
FilesOf(items) == {p \in DOMAIN items : items[p].kind = "file"}
Size(x) == Len(x.data)

(* Every path comes after its parent. *)
First(S) == CHOOSE p \in S : \A q \in S : Len(p) =< Len(q)

(* Mutant of GetLocalTreeRecursive: the base is an item, too. *)
TreeWithBase == [p \in {q \in Rels \union {<<>>} : local[q].kind # "none"} |-> local[p]]

GetLocalTreeRecursive == [p \in {q \in Rels : Kind(local, q) # "none"} |-> local[p]]

-----------------------------------------------------------------------------
(* create_directories; its error code is ignored. *)
Creatable(p) == \A n \in 0 .. Len(p) : local[SubSeq(p, 1, n)].kind # "file"
CreateDirectories(p) ==
    \/ UNCHANGED local
    \/ /\ Creatable(p)
       /\ local' = [q \in DOMAIN local |-> IF IsPrefix(q, p) THEN Dir ELSE local[q]]

(* A new process: its InitComms purges the link, but not the console. *)
Start(n) ==
    /\ pc = "idle" /\ syncs < MaxSyncs
    /\ syncs' = syncs + 1
    /\ mode' = n
    /\ instep' \in (IF instep THEN {TRUE} ELSE BOOLEAN)
    /\ interrupt' = FALSE
    /\ fails' = 0
    /\ listed' = TRUE /\ edited' = {}
    /\ sitems' = Nothing
    /\ CASE n = 1 ->
              /\ UNCHANGED local
              /\ IF local[<<>>].kind = "none"
                 THEN pc' = "idle" /\ ret' = 0 /\ UNCHANGED <<litems, todo>>
                 ELSE pc' = "base" /\ litems' = GetLocalTreeRecursive
                        /\ todo' = {} /\ UNCHANGED ret
         [] n = 2 -> /\ CreateDirectories(<<>>)
                     /\ pc' = "list" /\ litems' = Nothing /\ todo' = {<<>>} /\ UNCHANGED ret
         [] n = 3 -> /\ CreateDirectories(<<>>)
                     /\ pc' = "list" /\ litems' = GetLocalTreeRecursive
                     /\ todo' = {<<>>} /\ UNCHANGED ret
         [] OTHER -> pc' = "idle" /\ ret' = 0 /\ UNCHANGED <<local, litems, todo>>
    /\ UNCHANGED <<card, edits, broken>>

(* What the caller may be told of one request to the console, *)
Request(r) == Outcomes(r, card, instep, interrupt)

(* and what the outcome o leaves behind. *)
Take(o) == card' = o.card /\ instep' = o.instep

(***************************************************************************)
(* GetSaturnTreeRecursive: the next directory is listed.  A listing that   *)
(* fails is an empty one.                                                  *)
(***************************************************************************)
ListSaturnDirForSync ==
    /\ pc = "list" /\ todo # {}
    /\ LET d == First(todo)
           r == Simple("list", CombineSaturnPath(d))
       IN  \E o \in Request(r) :
             /\ Take(o)
             /\ LET ok == o.ret = 1
                    found == IF ok THEN {SubSeq(q, Len(Base) + 1, Len(q)) : q \in o.answer} ELSE {}
                    items == [p \in DOMAIN sitems \union found |-> card[CombineSaturnPath(p)]]
                IN  /\ sitems' = items
                    /\ todo' = (todo \ {d}) \union {p \in found : items[p].kind = "dir"}
                    /\ listed' = (listed /\ ok /\ o.instep)
    /\ UNCHANGED <<local, pc, mode, litems, fails, ret, interrupt, bounds, edited, broken>>

(* The tree is read: mode 2 makes the directories, mode 3 the base on the card. *)
Listed ==
    /\ pc = "list" /\ todo = {}
    /\ pc' = IF mode = 2 THEN "dirs" ELSE "base"
    /\ todo' = IF mode = 2 THEN DirsOf(sitems) ELSE {}
    /\ UNCHANGED <<local, card, mode, litems, sitems, fails, ret, interrupt, instep, bounds,
                   history>>

(* DoMkdir(saturn_base), whatever it returns. *)
MakeBase ==
    /\ pc = "base"
    /\ \E o \in Request(Simple("mkdir", Base)) : Take(o)
    /\ pc' = IF mode = 1 THEN "dirs" ELSE "both"
    /\ todo' = IF mode = 1 THEN DirsOf(litems) ELSE DOMAIN litems \union DOMAIN sitems
    /\ UNCHANGED <<local, mode, litems, sitems, fails, ret, interrupt, bounds, history>>

-----------------------------------------------------------------------------
(* The work on one path. *)

DoMkdir(p) ==
    /\ \E o \in Request(Simple("mkdir", CombineSaturnPath(p))) : Take(o)
    /\ UNCHANGED <<local, fails, broken>>

(* Mutant of DoSdUpload: the last byte of a file is not sent. *)
UploadShort(p) ==
    /\ IF Kind(local, p) = "file"
       THEN LET f == CombineSaturnPath(p)
            IN  \E o \in Request(Req("upload", f, f, Front(local[p].data))) : Take(o) /\ fails' = fails + 1 - o.ret
       ELSE fails' = fails + 1 /\ UNCHANGED <<card, instep>>
    /\ UNCHANGED <<local, broken>>

(* DoSdUpload of a file that the user has removed fails without a request. *)
DoSdUpload(p) ==
    /\ IF Kind(local, p) = "file"
       THEN LET f == CombineSaturnPath(p)
            IN  \E o \in Request(Req("upload", f, f, local[p].data)) : Take(o) /\ fails' = fails + 1 - o.ret
       ELSE fails' = fails + 1 /\ UNCHANGED <<card, instep>>
    /\ UNCHANGED <<local, broken>>

(***************************************************************************)
(* DoSdDownload empties the local file first, and leaves in it what has    *)
(* arrived when it fails.                                                  *)
(***************************************************************************)
DoSdDownload(p) ==
    IF local[p].kind = "dir" \/ local[Front(p)].kind # "dir"
    THEN fails' = fails + 1 /\ UNCHANGED <<local, card, instep, broken>>
    ELSE \E o \in Request(Simple("download", CombineSaturnPath(p))) :
           /\ Take(o)
           /\ fails' = fails + 1 - o.ret
           /\ IF o.ret = 1 /\ instep
              THEN local' = [local EXCEPT ![p] = File(o.answer)] /\ broken' = broken \ {p}
              ELSE /\ broken' = broken \union {p}
                   /\ \E n \in 0 .. Size(card[CombineSaturnPath(p)]) :
                        local' = [local EXCEPT ![p] =
                                    File(SubSeq(card[CombineSaturnPath(p)].data, 1, n))]

(* Mutant of OneOfBoth: the newer side is not known, so the card's file wins. *)
OneOfBothPull(p) ==
    LET l == p \in DOMAIN litems
        s == p \in DOMAIN sitems
    IN  CASE l /\ s ->
               IF litems[p].kind = "file" /\ sitems[p].kind = "file" /\ Size(litems[p]) # Size(sitems[p])
               THEN DoSdDownload(p)
               ELSE UNCHANGED <<local, card, instep, fails, broken>>
          [] l /\ ~s -> IF litems[p].kind = "dir" THEN DoMkdir(p) ELSE DoSdUpload(p)
          [] ~l ->
               IF sitems[p].kind = "dir"
               THEN CreateDirectories(p) /\ UNCHANGED <<card, instep, fails, broken>>
               ELSE DoSdDownload(p)

(* Mode 3: what one side lacks is copied; of two files, the local one wins if sizes differ. *)
OneOfBoth(p) ==
    LET l == p \in DOMAIN litems
        s == p \in DOMAIN sitems
    IN  CASE l /\ s ->
               IF litems[p].kind = "file" /\ sitems[p].kind = "file" /\ Size(litems[p]) # Size(sitems[p])
               THEN DoSdUpload(p)
               ELSE UNCHANGED <<local, card, instep, fails, broken>>
          [] l /\ ~s -> IF litems[p].kind = "dir" THEN DoMkdir(p) ELSE DoSdUpload(p)
          [] ~l ->
               IF sitems[p].kind = "dir"
               THEN CreateDirectories(p) /\ UNCHANGED <<card, instep, fails, broken>>
               ELSE DoSdDownload(p)

(* The loops: directories first, then files; mode 3 has a single one. *)
Handle(p) ==
    CASE pc = "dirs" -> IF mode = 1 THEN DoMkdir(p)
                        ELSE CreateDirectories(p) /\ UNCHANGED <<card, instep, fails, broken>>
      [] pc = "files" -> IF mode = 1 THEN DoSdUpload(p) ELSE DoSdDownload(p)
      [] OTHER -> OneOfBoth(p)

Loop ==
    /\ pc \in {"dirs", "files", "both"} /\ todo # {}
    /\ Handle(First(todo))
    /\ todo' = todo \ {First(todo)}
    /\ UNCHANGED <<pc, mode, litems, sitems, ret, interrupt, bounds, listed, edited>>

Files ==
    /\ pc = "dirs" /\ todo = {}
    /\ pc' = "files"
    /\ todo' = FilesOf(IF mode = 1 THEN litems ELSE sitems)
    /\ UNCHANGED <<local, card, mode, litems, sitems, fails, ret, interrupt, instep, bounds,
                   history>>

(* Mutant of Return: failures are not counted. *)
ReturnDone ==
    /\ pc \in {"files", "both"} /\ todo = {}
    /\ pc' = "idle"
    /\ ret' = 1
    /\ UNCHANGED <<local, card, mode, litems, sitems, todo, fails, interrupt, instep, bounds,
                   history>>

Return ==
    /\ pc \in {"files", "both"} /\ todo = {}
    /\ pc' = "idle"
    /\ ret' = IF fails = 0 THEN 1 ELSE 0
    /\ UNCHANGED <<local, card, mode, litems, sitems, todo, fails, interrupt, instep, bounds,
                   history>>

Signal ==
    /\ pc # "idle" /\ ~interrupt
    /\ interrupt' = TRUE
    /\ UNCHANGED <<local, card, pc, mode, litems, sitems, todo, fails, ret, instep, bounds,
                   history>>

(* The user writes or removes a local file. *)
Edit(p) ==
    /\ edits < MaxEdits
    /\ edits' = edits + 1
    /\ local[p].kind # "dir" /\ local[Front(p)].kind = "dir"
    /\ local' \in {[local EXCEPT ![p] = x] : x \in {None} \union {File(d) : d \in Contents}}
    /\ edited' = edited \union {p}
    /\ broken' = broken \ {p}
    /\ UNCHANGED <<card, pc, mode, litems, sitems, todo, fails, ret, interrupt, instep, syncs,
                   listed>>

Init ==
    /\ local \in Locals /\ card \in Cards
    /\ pc = "idle" /\ mode = 0 /\ litems = Nothing /\ sitems = Nothing /\ todo = {}
    /\ fails = 0 /\ ret = 0 /\ interrupt = FALSE /\ instep = TRUE
    /\ syncs = 0 /\ edits = 0
    /\ listed = TRUE /\ edited = {} /\ broken = {}

Step == ListSaturnDirForSync \/ Listed \/ MakeBase \/ Loop \/ Files \/ Return

Next == (\E n \in 1 .. 4 : Start(n)) \/ Step \/ Signal \/ (\E p \in Rels : Edit(p))

Spec == Init /\ [][Next]_vars

-----------------------------------------------------------------------------
(* Snapshots hold only paths below the two base directories, and only files that exist are incomplete. *)
TypeOK ==
    /\ DOMAIN local = Rels \union {<<>>}
    /\ DOMAIN card = {Base} \union {CombineSaturnPath(p) : p \in Rels}
    /\ pc \in {"idle", "list", "base", "dirs", "files", "both"}
    /\ mode \in 0 .. 4
    /\ DOMAIN litems \subseteq Rels /\ DOMAIN sitems \subseteq Rels
    /\ todo \subseteq Rels \union {<<>>}
    /\ fails \in 0 .. Cardinality(Rels) /\ ret \in {0, 1}
    /\ broken \subseteq {p \in Rels : local[p].kind = "file"}

OnCard(p) == card[CombineSaturnPath(p)]
Returned(n) == pc = "idle" /\ mode = n /\ ret = 1

(* Both sides hold the same file, unless the user has changed it meanwhile. *)
Same(p) == p \in edited \/ (local[p].kind = "file" /\ OnCard(p) = local[p])

(***************************************************************************)
(* A sync that returns 1 over a link that stayed in step has copied every  *)
(* file: all local files to the card in mode 1, all files of the card in   *)
(* mode 2, and in mode 3 all that one side lacked, with equal sizes where  *)
(* both have a file; directories are only promised where they hold files.  *)
(* Modes 2 and 3 can promise that only for the listings that they got.     *)
(***************************************************************************)
SyncedFiles ==
    instep =>
      /\ Returned(1) => \A p \in FilesOf(litems) : Same(p)
      /\ Returned(2) /\ listed => \A p \in Rels : OnCard(p).kind = "file" => Same(p)
      /\ Returned(3) /\ listed =>
           \A p \in Rels \ edited :
             /\ p \in FilesOf(litems) => OnCard(p).kind # "none"
             /\ OnCard(p).kind = "file" => local[p].kind # "none"
             /\ local[p].kind = "file" /\ OnCard(p).kind = "file" => Size(local[p]) = Size(OnCard(p))

(***************************************************************************)
(* What DoSdSync returns is true, and its snapshots hold only what lies    *)
(* below the two base directories.                                         *)
(***************************************************************************)
SyncTrue == TypeOK /\ SyncedFiles

(***************************************************************************)
(* Mode 3 never changes a local file that its snapshot found, and a file   *)
(* that appears later is overwritten only if the card had one of that name *)
(* when it was listed: the local side is never the loser of a conflict.    *)
(* (Changes by the user count as edits.)                                   *)
(***************************************************************************)
LocalKept ==
    [][pc = "both" /\ UNCHANGED edits =>
         \A p \in Rels : local[p].kind = "file" /\ local'[p] # local[p] =>
             p \in DOMAIN sitems \ DOMAIN litems]_vars

(***************************************************************************)
(* The card gets only whole files of the user: a file on it that nobody    *)
(* wrote comes from a download that failed in an earlier sync, left an     *)
(* incomplete local file behind, and was uploaded by the next sync over    *)
(* the original.                                                           *)
(***************************************************************************)
WholeUnlessBroken ==
    [][\A p \in Rels :
         card'[CombineSaturnPath(p)] # OnCard(p) /\ OnCard(p)'.kind = "file" =>
             OnCard(p)'.data \in Contents \/ p \in broken]_vars

=============================================================================
