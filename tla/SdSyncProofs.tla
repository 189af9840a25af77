---------------------------- MODULE SdSyncProofs ----------------------------
(***************************************************************************)
(* Proofs about ftx --sync: what DoSdSync returns is true (SyncTrue), the  *)
(* local side never loses a conflict (LocalKept), and the card only gets   *)
(* whole files of the user, unless a download was cut short before         *)
(* (WholeUnlessBroken), for every tree, number of syncs and of edits.      *)
(*                                                                         *)
(* The inductive invariant follows the two snapshots: how far the listing  *)
(* of the card has come (Complete: what is missing lies below a directory  *)
(* that is still to be listed), that they stay true of what the loops have *)
(* not handled yet, whatever the user does (Snapshot, Seen), and what the  *)
(* loops have achieved as long as nothing has failed (Handled).            *)
(***************************************************************************)
EXTENDS SdSync, CardProofs, FiniteSetTheorems

Types ==
    /\ DOMAIN local = Rels \union {<<>>} /\ \A p \in DOMAIN local : Item(local[p])
    /\ IsTree(card) /\ DOMAIN card = {Base} \union {CombineSaturnPath(p) : p \in Rels}
    /\ pc \in {"idle", "list", "base", "dirs", "files", "both"} /\ mode \in 0 .. 4
    /\ DOMAIN litems \subseteq Rels /\ DOMAIN sitems \subseteq Rels
    /\ todo \subseteq Rels \union {<<>>}
    /\ fails \in Nat /\ ret \in {0, 1}
    /\ interrupt \in BOOLEAN /\ instep \in BOOLEAN /\ listed \in BOOLEAN
    /\ broken \subseteq {p \in Rels : local[p].kind = "file"}

(* The loops of each mode, and what they go through. *)
ModeOf ==
    /\ pc = "list" => mode \in {2, 3}
    /\ pc = "base" => mode \in {1, 3} /\ todo = {}
    /\ pc = "both" => mode = 3 /\ todo \subseteq DOMAIN litems \union DOMAIN sitems
    /\ pc \in {"dirs", "files"} => mode \in {1, 2} /\ todo \subseteq DOMAIN (IF mode = 1 THEN litems ELSE sitems)

(* At most one failure for each path. *)
Counted ==
    /\ pc \in {"list", "base", "dirs"} => fails = 0
    /\ pc \in {"files", "both"} => fails + Cardinality(todo) =< Cardinality(Rels)
    /\ pc = "idle" => fails =< Cardinality(Rels)

(* Mode 3 leaves what the local snapshot found as it was. *)
Snapshot ==
    mode = 3 => \A p \in DOMAIN litems : /\ litems[p].kind # "none"
                                         /\ p \notin edited => local[p] = litems[p]

(* The listings are those of the card, except for what a two-way sync has handled. *)
Current(p) == sitems[p] = OnCard(p)
Seen ==
    /\ \A p \in DOMAIN sitems : sitems[p].kind # "none"
    /\ pc = "list" \/ (pc \in {"dirs", "files"} /\ mode = 2) \/ (pc = "base" /\ mode = 3) =>
         \A p \in DOMAIN sitems : Current(p)
    /\ pc = "both" => \A p \in DOMAIN sitems \intersect todo : Current(p)

Pending(p) == \E n \in 0 .. (Len(p) - 1) : SubSeq(p, 1, n) \in todo
Complete ==
    listed =>
      /\ pc = "list" =>
           \A p \in Rels : OnCard(p).kind # "none" => p \in DOMAIN sitems \/ Pending(p)
      /\ (pc \in {"dirs", "files"} /\ mode = 2) \/ (pc = "base" /\ mode = 3) =>
           \A p \in Rels : OnCard(p).kind # "none" => p \in DOMAIN sitems
      /\ pc = "both" =>
           \A p \in Rels \ DOMAIN sitems : p \in todo \/ p \notin DOMAIN litems => OnCard(p).kind = "none"

(* What mode 3 promises of one path. *)
Settled(p) ==
    /\ p \in FilesOf(litems) => OnCard(p).kind # "none"
    /\ OnCard(p).kind = "file" => local[p].kind # "none"
    /\ local[p].kind = "file" /\ OnCard(p).kind = "file" => Size(local[p]) = Size(OnCard(p))

Handled ==
    instep /\ fails = 0 =>
      /\ pc = "files" /\ mode = 1 => \A p \in FilesOf(litems) \ todo : Same(p)
      /\ pc = "files" /\ mode = 2 /\ listed =>
           \A p \in Rels \ todo : OnCard(p).kind = "file" => Same(p)
      /\ pc = "both" /\ listed => \A p \in Rels \ (edited \union todo) : Settled(p)

(* A local file that is whole is one of the user's, or the one that the card holds. *)
Whole ==
    \A p \in Rels \ broken : local[p].kind = "file" => local[p].data \in Contents \/ OnCard(p) = local[p]

Inv == Types /\ ModeOf /\ Counted /\ Snapshot /\ Seen /\ Complete /\ Handled /\ SyncedFiles /\ Whole

-----------------------------------------------------------------------------
(* Paths below the two base directories *)

Below0 == Rels \union {<<>>}

(* The paths below the two roots are sequences of names. *)
LEMMA RelPaths ==
  /\ \A p \in Rels : p \in Path /\ p # <<>> /\ Len(p) \in Nat /\ Len(p) > 0
  /\ \A p \in Below0 : p \in Path
  /\ Base \in Path /\ Len(Base) \in Nat
<1>1. \A p \in Rels : p \in Seq(STRING) /\ p # <<>>
  BY SyncAssumption
<1>2. \A p \in Rels : Len(p) \in Nat /\ Len(p) # 0
  BY <1>1, LenProperties, EmptySeq
<1>3. Base \in Seq(STRING) /\ Len(Base) \in Nat
  BY SyncAssumption, LenProperties
<1>4. <<>> \in Seq(STRING)
  OBVIOUS
<1>5. \A p \in Below0 : p \in Seq(STRING)
  BY <1>1, <1>4 DEF Below0
<1>6. \A p \in Rels : Len(p) > 0
  BY <1>2
<1> QED
  BY <1>1, <1>2, <1>3, <1>5, <1>6 DEF Path

(* The paths on the card are told apart by what follows the base. *)
LEMMA Combined ==
  ASSUME NEW p \in Path
  PROVE  /\ CombineSaturnPath(p) \in Path /\ Len(CombineSaturnPath(p)) = Len(Base) + Len(p)
         /\ SubSeq(CombineSaturnPath(p), Len(Base) + 1, Len(CombineSaturnPath(p))) = p
<1> DEFINE y == Base \o p
           s == SubSeq(y, Len(Base) + 1, Len(y))
<1>0. Base \in Path /\ Len(Base) \in Nat
  BY RelPaths
<1>1. Base \in Path /\ Len(Base) \in Nat /\ Len(p) \in Nat
  BY <1>0, LenProperties DEF Path
<1>2. y \in Path /\ Len(y) = Len(Base) + Len(p)
      /\ \A i \in 1 .. Len(Base) + Len(p) : y[i] = IF i =< Len(Base) THEN Base[i] ELSE p[i - Len(Base)]
  BY <1>1, Extended
<1> HIDE DEF y
<1>7. Len(Base) \in 0 .. Len(y)
  BY <1>1, <1>2
<1>3. s \in Path /\ Len(s) = Len(y) - Len(Base) /\ \A i \in 1 .. (Len(y) - Len(Base)) : s[i] = y[Len(Base) + i]
  BY <1>2, <1>7, Final
<1> HIDE DEF s
<1>4. \A i \in 1 .. Len(p) : s[i] = p[i]
  <2> SUFFICES ASSUME NEW i \in 1 .. Len(p) PROVE s[i] = p[i]
    OBVIOUS
  <2>1. /\ Len(Base) + i \in 1 .. Len(Base) + Len(p) /\ ~(Len(Base) + i =< Len(Base))
        /\ (Len(Base) + i) - Len(Base) = i /\ i \in 1 .. (Len(y) - Len(Base))
    BY <1>1, <1>2
  <2>2. s[i] = y[Len(Base) + i]
    BY <1>3, <2>1
  <2>3. y[Len(Base) + i] = p[(Len(Base) + i) - Len(Base)]
    BY <1>2, <2>1
  <2> QED
    BY <2>1, <2>2, <2>3
<1>5. Len(s) = Len(p)
  BY <1>1, <1>2, <1>3
<1>6. s = p
  BY <1>3, <1>4, <1>5, SamePath
<1> QED
  BY <1>2, <1>6 DEF y, s, CombineSaturnPath

(* Different local paths have different paths on the card. *)
LEMMA CombinedOnce ==
  ASSUME NEW p \in Path, NEW q \in Path, CombineSaturnPath(p) = CombineSaturnPath(q)
  PROVE  p = q
  BY Combined

(* The local root stands for the base directory on the card. *)
LEMMA CombinedBase ==
  CombineSaturnPath(<<>>) = Base
<1>1. Base \in Path /\ Len(Base) \in Nat /\ <<>> \in Path /\ Len(<<>>) = 0
  BY RelPaths DEF Path
<1> DEFINE y == Base \o <<>>
<1>2. y \in Path /\ Len(y) = Len(Base) + Len(<<>>)
      /\ \A i \in 1 .. Len(Base) + Len(<<>>) : y[i] = IF i =< Len(Base) THEN Base[i] ELSE <<>>[i - Len(Base)]
  BY <1>1, Extended
<1> HIDE DEF y
<1>3. Len(y) = Len(Base) /\ \A i \in 1 .. Len(y) : y[i] = Base[i]
  BY <1>1, <1>2
<1>4. y = Base
  BY <1>1, <1>2, <1>3, SamePath
<1> QED
  BY <1>4 DEF y, CombineSaturnPath

(* The directories above a combined path are the combined ones above the local path. *)
LEMMA CombinedInitial ==
  ASSUME NEW p \in Path, NEW n \in 0 .. Len(p)
  PROVE  SubSeq(CombineSaturnPath(p), 1, Len(Base) + n) = CombineSaturnPath(SubSeq(p, 1, n))
<1> DEFINE y == Base \o p
           a == SubSeq(p, 1, n)
           z == Base \o a
           w == SubSeq(y, 1, Len(Base) + n)
<1>0. Base \in Path /\ Len(Base) \in Nat
  BY RelPaths
<1>1. Base \in Path /\ Len(Base) \in Nat /\ Len(p) \in Nat
  BY <1>0, LenProperties DEF Path
<1>2. y \in Path /\ Len(y) = Len(Base) + Len(p)
      /\ \A i \in 1 .. Len(Base) + Len(p) : y[i] = IF i =< Len(Base) THEN Base[i] ELSE p[i - Len(Base)]
  BY <1>1, Extended
<1>3. a \in Path /\ Len(a) = n /\ \A i \in 1 .. n : a[i] = p[i]
  BY Initial
<1> HIDE DEF a
<1>4. z \in Path /\ Len(z) = Len(Base) + Len(a)
      /\ \A i \in 1 .. Len(Base) + Len(a) : z[i] = IF i =< Len(Base) THEN Base[i] ELSE a[i - Len(Base)]
  BY <1>1, <1>3, Extended
<1>5. Len(Base) + n \in 0 .. Len(y) /\ Len(z) = Len(Base) + n
  BY <1>1, <1>2, <1>3, <1>4
<1> HIDE DEF y, z
<1>6. w \in Path /\ Len(w) = Len(Base) + n /\ \A i \in 1 .. Len(Base) + n : w[i] = y[i]
  BY <1>2, <1>5, Initial
<1> HIDE DEF w
<1>7. \A i \in 1 .. Len(w) : w[i] = z[i]
  <2> SUFFICES ASSUME NEW i \in 1 .. Len(Base) + n PROVE w[i] = z[i]
    BY <1>6
  <2>1. i \in 1 .. Len(Base) + Len(p) /\ i \in 1 .. Len(Base) + Len(a)
    BY <1>1, <1>3
  <2>2. CASE i =< Len(Base)
    BY <1>2, <1>4, <1>6, <2>1, <2>2
  <2>3. CASE ~(i =< Len(Base))
    <3>1. i - Len(Base) \in 1 .. n
      BY <1>1, <2>3
    <3>2. w[i] = p[i - Len(Base)] /\ z[i] = a[i - Len(Base)]
      BY <1>2, <1>4, <1>6, <2>1, <2>3
    <3> QED
      BY <1>3, <3>1, <3>2
  <2> QED
    BY <2>2, <2>3
<1>8. w = z
  BY <1>4, <1>5, <1>6, <1>7, SamePath
<1> QED
  BY <1>8 DEF w, y, z, a, CombineSaturnPath

(* A set of natural numbers has a least one, *)
LEMMA LeastNumber ==
  ASSUME NEW T, T \subseteq Nat, T # {}
  PROVE  \E x \in T : \A y \in T : x =< y
<1> DEFINE R == {ss \in Nat \X Nat : ss[1] < ss[2]}
<1>1. IsWellFoundedOn(R, Nat)
  BY NatLessThanWellFounded, Zenon DEF OpToRel
<1> HIDE DEF R
<1>2. PICK x \in T : \A y \in T : ~(<<y, x>> \in R)
  BY <1>1, WFMin
<1>3. \A m, n \in Nat : n < m => <<n, m>> \in R
  BY DEF R
<1>4. \A y \in T : ~(y < x)
  BY <1>2, <1>3
<1>5. \A y \in T : x =< y
  BY <1>4
<1> QED
  BY <1>5

(* so First picks one of the paths. *)
LEMMA FirstOf ==
  ASSUME NEW S, S \subseteq Below0, S # {}
  PROVE  First(S) \in S
<1> DEFINE T == {Len(p) : p \in S}
<1>1. \A p \in S : Len(p) \in Nat
  BY RelPaths, LenProperties DEF Path
<1>2. T \subseteq Nat /\ T # {}
  BY <1>1
<1>3. PICK x \in T : \A y \in T : x =< y
  BY <1>2, LeastNumber
<1>4. \E p \in S : \A q \in S : Len(p) =< Len(q)
  BY <1>3
<1> QED
  BY <1>4 DEF First

-----------------------------------------------------------------------------
(* The directories on the card *)

(* Every path of the user's tree has its place on the card. *)
LEMMA OnTheCard ==
  ASSUME Types
  PROVE  /\ \A p \in Below0 : CombineSaturnPath(p) \in DOMAIN card
         /\ \A q \in DOMAIN card : \E p \in Below0 : q = CombineSaturnPath(p)
         /\ \A p \in Rels : Item(OnCard(p)) /\ Kind(card, CombineSaturnPath(p)) = OnCard(p).kind
<1>1. DOMAIN card = {Base} \union {CombineSaturnPath(p) : p \in Rels}
  BY DEF Types
<1>2. \A p \in Below0 : CombineSaturnPath(p) \in DOMAIN card
  BY <1>1, CombinedBase DEF Below0
<1>3. \A q \in DOMAIN card : \E p \in Below0 : q = CombineSaturnPath(p)
  BY <1>1, CombinedBase DEF Below0
<1>4. \A q \in DOMAIN card : q # <<>> /\ Item(card[q])
  BY TreeParts DEF Types
<1>5. \A p \in Rels : Item(OnCard(p)) /\ Kind(card, CombineSaturnPath(p)) = OnCard(p).kind
  BY <1>2, <1>4 DEF Kind, OnCard, Below0
<1> QED
  BY <1>2, <1>3, <1>5

(* The directory of a path is one step shorter. *)
LEMMA FrontOf ==
  ASSUME NEW p \in Path, p # <<>>
  PROVE  /\ Len(p) \in Nat /\ Len(p) > 0 /\ Front(p) = SubSeq(p, 1, Len(p) - 1)
         /\ Front(p) \in Path /\ Len(Front(p)) = Len(p) - 1
<1>1. Len(p) \in Nat /\ Len(p) # 0
  BY LenProperties, EmptySeq DEF Path
<1>2. Len(p) > 0 /\ Len(p) - 1 \in 0 .. Len(p)
  BY <1>1
<1>3. Front(p) = SubSeq(p, 1, Len(p) - 1)
  BY DEF Front
<1> QED
  BY <1>1, <1>2, <1>3, Initial

(* What a listing of the directory d finds: paths one step below d, *)
LEMMA ListingFinds ==
  ASSUME Types, NEW d \in Below0, NEW q \in Children(card, CombineSaturnPath(d))
  PROVE  \E p \in Rels : /\ q = CombineSaturnPath(p) /\ SubSeq(q, Len(Base) + 1, Len(q)) = p
                         /\ OnCard(p).kind # "none"
<1>1. q \in DOMAIN card /\ q # <<>> /\ Front(q) = CombineSaturnPath(d) /\ card[q].kind # "none"
  BY DEF Children
<1>2. PICK p \in Below0 : q = CombineSaturnPath(p)
  BY <1>1, OnTheCard
<1>3. p \in Path /\ d \in Path /\ Base \in Path /\ Len(Base) \in Nat
  BY RelPaths
<1>4. q \in Path /\ Len(q) = Len(Base) + Len(p) /\ SubSeq(q, Len(Base) + 1, Len(q)) = p
  BY <1>2, <1>3, Combined
<1>5. CombineSaturnPath(d) \in Path /\ Len(CombineSaturnPath(d)) = Len(Base) + Len(d)
  BY <1>3, Combined
<1>6. Len(Front(q)) = Len(q) - 1
  BY <1>1, <1>4, FrontOf
<1>7. Len(p) \in Nat /\ Len(d) \in Nat
  BY <1>3, LenProperties DEF Path
<1>8. Len(p) # 0
  BY <1>1, <1>3, <1>4, <1>5, <1>6, <1>7
<1>9. p # <<>>
  BY <1>8
<1>10. p \in Rels
  BY <1>9 DEF Below0
<1> QED
  BY <1>1, <1>2, <1>4, <1>10 DEF OnCard

(* all of those that exist. *)
LEMMA ListingComplete ==
  ASSUME Types, NEW p \in Rels, OnCard(p).kind # "none"
  PROVE  CombineSaturnPath(p) \in Children(card, CombineSaturnPath(Front(p)))
<1> DEFINE q == CombineSaturnPath(p)
<1>1. p \in Path /\ p # <<>> /\ Base \in Path /\ Len(Base) \in Nat
  BY RelPaths
<1>2. Len(p) \in Nat /\ Len(p) > 0 /\ Front(p) = SubSeq(p, 1, Len(p) - 1)
  BY <1>1, FrontOf
<1>3. q \in DOMAIN card
  BY OnTheCard DEF Below0
<1>4. q \in Path /\ q # <<>>
  BY <1>3, TreeParts DEF Types
<1>5. Len(q) = Len(Base) + Len(p)
  BY <1>1, Combined
<1>6. Front(q) = SubSeq(q, 1, Len(q) - 1)
  BY <1>4, FrontOf
<1>7. Len(p) - 1 \in 0 .. Len(p) /\ Len(q) - 1 = Len(Base) + (Len(p) - 1)
  BY <1>1, <1>2, <1>5
<1>8. SubSeq(q, 1, Len(Base) + (Len(p) - 1)) = CombineSaturnPath(SubSeq(p, 1, Len(p) - 1))
  BY <1>1, <1>7, CombinedInitial
<1>9. Front(q) = CombineSaturnPath(Front(p))
  BY <1>2, <1>6, <1>7, <1>8
<1> QED
  BY <1>3, <1>4, <1>9 DEF Children, OnCard

-----------------------------------------------------------------------------
(* What the work on one path does *)

(* A request leaves a tree, and does not bring the link back into step. *)
Kept == IsTree(card') /\ DOMAIN card' = DOMAIN card /\ instep' \in BOOLEAN /\ (instep' => instep)

(* What holds of every outcome of a request. *)
LEMMA RequestTold ==
  ASSUME Types, NEW r, NEW o \in Request(r)
  PROVE  Told(o, r, card) /\ (o.instep => instep) /\ (instep /\ o.ret = 1 /\ r.op # "list" => o.instep)
<1>1. instep \in BOOLEAN /\ interrupt \in BOOLEAN
  BY Zenon DEF Types
<1>2. o \in Outcomes(r, card, instep, interrupt)
  BY DEF Request
<1> QED
  BY <1>1, <1>2, OutcomeTold

(* DoMkdir makes at most the one directory, where nothing is. *)
LEMMA MkdirEffect ==
  ASSUME Types, NEW p \in Below0, \E o \in Request(Simple("mkdir", CombineSaturnPath(p))) : Take(o)
  PROVE  /\ Kept
         /\ \A q \in Rels : OnCard(q)' = OnCard(q) \/ (q = p /\ OnCard(q).kind = "none" /\ OnCard(q)' = Dir)
<1> DEFINE f == CombineSaturnPath(p)
<1>1. PICK o \in Request(Simple("mkdir", f)) : Take(o)
  OBVIOUS
<1>2. Told(o, Simple("mkdir", f), card) /\ (o.instep => instep) /\ IsTree(card)
  BY <1>1, RequestTold DEF Types
<1>3. /\ o.ret \in {0, 1} /\ o.instep \in BOOLEAN /\ IsTree(o.card) /\ DOMAIN o.card = DOMAIN card
      /\ o.card = card \/ (f \in DOMAIN card /\ Kind(card, f) = "none" /\ o.card = [card EXCEPT ![f] = Dir])
      /\ o.instep => (o.ret = 1 /\ f \in DOMAIN card /\ Kind(card, f) = "none" /\ o.card = [card EXCEPT ![f] = Dir]) \/ (o.ret = 0 /\ o.card = card)
  BY <1>2, MkdirTold
<1>4. card' = o.card /\ instep' = o.instep
  BY <1>1 DEF Take
<1>5. IsTree(card') /\ DOMAIN card' = DOMAIN card
  BY <1>3, <1>4
<1>6. instep' \in BOOLEAN /\ (instep' => instep)
  BY <1>2, <1>3, <1>4
<1>7. ASSUME NEW q \in Rels
      PROVE  OnCard(q)' = OnCard(q) \/ (q = p /\ OnCard(q).kind = "none" /\ OnCard(q)' = Dir)
  <2> DEFINE g == CombineSaturnPath(q)
  <2>1. g \in DOMAIN card /\ Kind(card, g) = OnCard(q).kind
    BY OnTheCard DEF Below0
  <2>2. CASE card' = card
    BY <2>2 DEF OnCard
  <2>3. CASE f \in DOMAIN card /\ Kind(card, f) = "none" /\ card' = [card EXCEPT ![f] = Dir]
    <3>1. CASE g = f
      <4>1. q = p
        BY <3>1, CombinedOnce, RelPaths DEF Below0
      <4>2. OnCard(q).kind = "none" /\ card'[g] = Dir
        BY <2>1, <2>3, <3>1
      <4> QED
        BY <4>1, <4>2 DEF OnCard
    <3>2. CASE g # f
      BY <2>1, <2>3, <3>2 DEF OnCard
    <3> QED
      BY <3>1, <3>2
  <2> QED
    BY <1>3, <1>4, <2>2, <2>3
<1> QED
  BY <1>5, <1>6, <1>7 DEF Kept

(* DoSdUpload changes at most the one file; what it counts as done is done, *)
(* as long as the link stays in step. *)
Uploaded(p) ==
    /\ Kept /\ UNCHANGED <<local, broken>> /\ fails' \in {fails, fails + 1}
    /\ \A q \in Rels : q # p => OnCard(q)' = OnCard(q)
    /\ OnCard(p)' = OnCard(p) \/ (local[p].kind = "file" /\ OnCard(p)' = local[p])
    /\ fails' = fails /\ instep' => local[p].kind = "file" /\ OnCard(p)' = local[p]

(* DoSdUpload changes the card at its own path, or nowhere. *)
LEMMA UploadEffect ==
  ASSUME Types, NEW p \in Rels, DoSdUpload(p)
  PROVE  Uploaded(p)
<1> DEFINE f == CombineSaturnPath(p)
           d == local[p].data
<1>0. fails \in Nat /\ instep \in BOOLEAN
  BY DEF Types
<1>1. Kind(local, p) = local[p].kind /\ Item(local[p])
  BY RelPaths DEF Types, Kind
<1>2. UNCHANGED <<local, broken>>
  BY DEF DoSdUpload
<1>3. CASE local[p].kind # "file"
  <2>1. fails' = fails + 1 /\ card' = card /\ instep' = instep
    BY <1>1, <1>3 DEF DoSdUpload
  <2>2. Kept
    BY <1>0, <2>1 DEF Kept, Types
  <2>3. fails' # fails
    BY <1>0, <2>1
  <2> QED
    BY <1>2, <2>1, <2>2, <2>3 DEF OnCard, Uploaded
<1>4. CASE local[p].kind = "file"
  <2>1. PICK o \in Request(Req("upload", f, f, d)) : Take(o) /\ fails' = fails + 1 - o.ret
    BY <1>1, <1>4, Zenon DEF DoSdUpload
  <2>2. Told(o, Req("upload", f, f, d), card) /\ (o.instep => instep) /\ IsTree(card)
    BY <2>1, RequestTold DEF Types
  <2>3. /\ o.ret \in {0, 1} /\ o.instep \in BOOLEAN /\ IsTree(o.card) /\ DOMAIN o.card = DOMAIN card
        /\ o.card = card \/ (f \in DOMAIN card /\ o.card = [card EXCEPT ![f] = File(d)])
        /\ o.instep => (o.ret = 1 /\ f \in DOMAIN card /\ o.card = [card EXCEPT ![f] = File(d)]) \/ (o.ret = 0 /\ o.card = card)
    BY <2>2, UploadTold
  <2>4. card' = o.card /\ instep' = o.instep /\ fails' = fails + 1 - o.ret
    BY <2>1 DEF Take
  <2>5. IsTree(card') /\ DOMAIN card' = DOMAIN card
    BY <2>3, <2>4
  <2>6. instep' \in BOOLEAN /\ (instep' => instep)
    BY <2>2, <2>3, <2>4
  <2>7. fails' \in {fails, fails + 1} /\ (fails' = fails => o.ret = 1)
    BY <1>0, <2>3, <2>4
  <2>8. local[p] = File(d)
    BY <1>1, <1>4, Items
  <2>9. ASSUME NEW q \in Rels, q # p
        PROVE  OnCard(q)' = OnCard(q)
    <3>1. CombineSaturnPath(q) # f /\ CombineSaturnPath(q) \in DOMAIN card
      BY <2>9, CombinedOnce, RelPaths, OnTheCard DEF Below0
    <3> QED
      BY <2>3, <2>4, <3>1 DEF OnCard
  <2>10. OnCard(p)' = OnCard(p) \/ OnCard(p)' = local[p]
    BY <2>3, <2>4, <2>8 DEF OnCard
  <2>11. fails' = fails /\ instep' => OnCard(p)' = local[p]
    <3> SUFFICES ASSUME fails' = fails, instep' PROVE card'[f] = File(d)
      BY <2>8 DEF OnCard
    <3>1. o.ret = 1 /\ o.instep
      BY <2>4, <2>7
    <3>2. f \in DOMAIN card /\ o.card = [card EXCEPT ![f] = File(d)]
      BY <2>3, <3>1
    <3> QED
      BY <2>4, <3>2
  <2>12. Kept
    BY <2>5, <2>6 DEF Kept
  <2> QED
    BY <1>2, <1>4, <2>7, <2>9, <2>10, <2>11, <2>12 DEF Uploaded
<1> QED
  BY <1>3, <1>4

(* DoSdDownload changes at most the one local file, and knows which ones it left incomplete. *)
Downloaded(p) ==
    /\ Kept /\ card' = card /\ fails' \in {fails, fails + 1}
    /\ DOMAIN local' = DOMAIN local /\ \A q \in DOMAIN local : q # p => local'[q] = local[q]
    /\ \/ UNCHANGED <<local, broken>>
       \/ /\ local'[p] = File(local'[p].data)
          /\ \/ broken' = broken \union {p}
             \/ broken' = broken \ {p} /\ local'[p] = OnCard(p)
    /\ fails' = fails /\ instep' => local'[p].kind = "file" /\ local'[p] = OnCard(p)

(* DoSdDownload changes the local tree at its own path, or nowhere. *)
LEMMA DownloadEffect ==
  ASSUME Types, NEW p \in Rels, DoSdDownload(p)
  PROVE  Downloaded(p)
<1> DEFINE f == CombineSaturnPath(p)
           r == Simple("download", f)
<1>0. fails \in Nat /\ instep \in BOOLEAN /\ IsTree(card) /\ p \in DOMAIN local
  BY DEF Types
<1>1. CASE local[p].kind = "dir" \/ local[Front(p)].kind # "dir"
  <2>1. fails' = fails + 1 /\ local' = local /\ card' = card /\ instep' = instep /\ broken' = broken
    BY <1>1 DEF DoSdDownload
  <2>2. Kept
    BY <1>0, <2>1 DEF Kept
  <2>3. fails' # fails
    BY <1>0, <2>1
  <2> QED
    BY <2>1, <2>2, <2>3 DEF Downloaded
<1>2. CASE ~(local[p].kind = "dir" \/ local[Front(p)].kind # "dir")
  <2>1. PICK o \in Request(r) :
           /\ Take(o)
           /\ fails' = fails + 1 - o.ret
           /\ IF o.ret = 1 /\ instep
              THEN local' = [local EXCEPT ![p] = File(o.answer)] /\ broken' = broken \ {p}
              ELSE /\ broken' = broken \union {p}
                   /\ \E n \in 0 .. Size(card[f]) :
                        local' = [local EXCEPT ![p] = File(SubSeq(card[f].data, 1, n))]
    BY <1>2, Zenon DEF DoSdDownload
  <2>2. Told(o, r, card) /\ (o.instep => instep) /\ (instep /\ o.ret = 1 /\ r.op # "list" => o.instep)
    BY <2>1, RequestTold
  <2>3. /\ o.ret \in {0, 1} /\ o.instep \in BOOLEAN /\ o.card = card
        /\ o.instep /\ o.ret = 1 => f \in DOMAIN card /\ card[f].kind = "file" /\ card[f] = File(o.answer)
    BY <1>0, <2>2, DownloadTold
  <2>4. r.op # "list"
    BY DownloadRequest
  <2>5. card' = card /\ instep' = o.instep /\ fails' = fails + 1 - o.ret
    BY <2>1, <2>3 DEF Take
  <2>6. instep' \in BOOLEAN /\ (instep' => instep)
    BY <2>2, <2>3, <2>5
  <2>7. Kept
    BY <1>0, <2>5, <2>6 DEF Kept
  <2>8. fails' \in {fails, fails + 1} /\ (fails' = fails => o.ret = 1)
    BY <1>0, <2>3, <2>5
  <2>9. CASE o.ret = 1 /\ instep
    <3>1. local' = [local EXCEPT ![p] = File(o.answer)] /\ broken' = broken \ {p}
      BY <2>1, <2>9
    <3>2. card[f] = File(o.answer)
      BY <2>2, <2>3, <2>4, <2>9
    <3>3. local'[p] = OnCard(p) /\ local'[p] = File(o.answer)
      BY <1>0, <3>1, <3>2 DEF OnCard
    <3>4. local'[p] = File(local'[p].data) /\ local'[p].kind = "file"
      BY <3>3, ItemKinds
    <3>5. DOMAIN local' = DOMAIN local /\ \A q \in DOMAIN local : q # p => local'[q] = local[q]
      BY <3>1
    <3> QED
      BY <2>5, <2>7, <2>8, <3>1, <3>3, <3>4, <3>5 DEF Downloaded
  <2>10. CASE ~(o.ret = 1 /\ instep)
    <3>1. PICK n : broken' = broken \union {p} /\ local' = [local EXCEPT ![p] = File(SubSeq(card[f].data, 1, n))]
      BY <2>1, <2>10
    <3>2. local'[p] = File(local'[p].data)
      BY <1>0, <3>1, ItemKinds
    <3>3. DOMAIN local' = DOMAIN local /\ \A q \in DOMAIN local : q # p => local'[q] = local[q]
      BY <3>1
    <3>4. ~(fails' = fails /\ instep')
      BY <2>6, <2>8, <2>10
    <3> QED
      BY <2>5, <2>7, <2>8, <3>1, <3>2, <3>3, <3>4 DEF Downloaded
  <2> QED
    BY <2>9, <2>10
<1> QED
  BY <1>1, <1>2

(* create_directories makes directories on the way to p, never in the place of a file. *)
Created(p) ==
    /\ DOMAIN local' = DOMAIN local
    /\ \A q \in DOMAIN local :
         \/ local'[q] = local[q]
         \/ local[q].kind # "file" /\ local'[q] = Dir /\ IsPrefix(q, p)

(* create_directories adds missing local directories, and no more. *)
LEMMA CreateEffect ==
  ASSUME Types, NEW p \in Below0, CreateDirectories(p)
  PROVE  Created(p)
<1>1. CASE UNCHANGED local
  BY <1>1 DEF Created
<1>2. CASE Creatable(p) /\ local' = [q \in DOMAIN local |-> IF IsPrefix(q, p) THEN Dir ELSE local[q]]
  <2>1. ASSUME NEW q \in DOMAIN local, IsPrefix(q, p)
        PROVE  local[q].kind # "file"
    <3>1. q \in Path /\ p \in Path
      BY RelPaths DEF Types, Below0
    <3>2. Len(q) \in 0 .. Len(p) /\ q = SubSeq(p, 1, Len(q))
      BY <2>1, <3>1, PrefixIsInitial
    <3> QED
      BY <1>2, <3>2 DEF Creatable
  <2> QED
    BY <1>2, <2>1 DEF Created
<1> QED
  BY <1>1, <1>2 DEF CreateDirectories

(* A directory of the local snapshot stays one, a file stays as it is. *)
LEMMA CreatedKeeps ==
  ASSUME Types, NEW p \in Below0, Created(p)
  PROVE  \A q \in Below0 : /\ Item(local'[q])
                           /\ local[q].kind # "none" => local'[q] = local[q]
                           /\ local'[q].kind # local[q].kind => local[q].kind = "none" /\ local'[q].kind = "dir"
<1> SUFFICES ASSUME NEW q \in Below0
             PROVE  /\ Item(local'[q])
                    /\ local[q].kind # "none" => local'[q] = local[q]
                    /\ local'[q].kind # local[q].kind => local[q].kind = "none" /\ local'[q].kind = "dir"
  OBVIOUS
<1>1. q \in DOMAIN local /\ Item(local[q])
  BY DEF Types, Below0
<1>2. CASE local'[q] = local[q]
  BY <1>1, <1>2
<1>3. CASE local[q].kind # "file" /\ local'[q] = Dir
  <2>1. local[q].kind = "none" \/ local[q] = Dir
    BY <1>1, <1>3, Items
  <2> QED
    BY <1>3, <2>1, Items, ItemKinds
<1> QED
  BY <1>1, <1>2, <1>3 DEF Created

-----------------------------------------------------------------------------
(* The invariant is inductive *)

(* How many paths a set of them has. *)
LEMMA Counts ==
  /\ Cardinality(Rels) \in Nat /\ Cardinality({}) = 0
  /\ \A S : S \subseteq Rels => Cardinality(S) \in Nat /\ Cardinality(S) =< Cardinality(Rels)
  /\ \A S : S \subseteq Rels => \A x \in S : Cardinality(S \ {x}) = Cardinality(S) - 1
<1>1. IsFiniteSet(Rels)
  BY SyncAssumption
<1>2. Cardinality(Rels) \in Nat
  BY <1>1, FS_CardinalityType
<1>3. \A S : S \subseteq Rels => IsFiniteSet(S) /\ Cardinality(S) =< Cardinality(Rels)
  BY <1>1, FS_Subset
<1>4. \A S : S \subseteq Rels => Cardinality(S) \in Nat
  BY <1>3, FS_CardinalityType
<1>5. \A S : S \subseteq Rels => \A x \in S : Cardinality(S \ {x}) = Cardinality(S) - 1
  BY <1>3, FS_RemoveElement
<1>6. Cardinality({}) = 0
  BY FS_EmptySet
<1> QED
  BY <1>2, <1>3, <1>4, <1>5, <1>6

(* While DoSdSync works, it has not returned. *)
LEMMA Busy ==
  ASSUME pc' # "idle" PROVE SyncedFiles'
  BY DEF SyncedFiles, Returned

(* The invariant holds before the synchronisation. *)
LEMMA InvInit == Init => Inv
<1> SUFFICES ASSUME Init PROVE Inv
  OBVIOUS
<1>1. /\ local \in Locals /\ card \in Cards
      /\ pc = "idle" /\ mode = 0 /\ litems = Nothing /\ sitems = Nothing /\ todo = {}
      /\ fails = 0 /\ ret = 0 /\ broken = {}
  BY DEF Init
<1>2. interrupt \in BOOLEAN /\ instep \in BOOLEAN /\ listed \in BOOLEAN
  BY Zenon DEF Init
<1>3. DOMAIN Nothing = {}
  BY DEF Nothing
<1>4. DOMAIN local = Below0 /\ \A p \in DOMAIN local : local[p] \in {None, Dir} \union {File(d) : d \in Contents}
  BY <1>1, SyncAssumption DEF Below0
<1>5. ASSUME NEW p \in DOMAIN local
      PROVE  Item(local[p]) /\ (local[p].kind = "file" => local[p].data \in Contents)
  <2>1. CASE local[p] \in {None, Dir}
    BY <2>1, Items, ItemKinds
  <2>2. CASE local[p] \in {File(d) : d \in Contents}
    BY <2>2, Items, ItemKinds
  <2> QED
    BY <1>4, <2>1, <2>2
<1>6. IsTree(card) /\ DOMAIN card = {Base} \union {CombineSaturnPath(p) : p \in Rels}
  BY <1>1, SyncAssumption
<1>7. Types
  BY <1>1, <1>2, <1>3, <1>4, <1>5, <1>6 DEF Types, Below0
<1>8. ModeOf /\ Snapshot
  BY <1>1 DEF ModeOf, Snapshot
<1>9. Counted
  BY <1>1, Counts DEF Counted
<1>10. Seen /\ Complete
  BY <1>1, <1>3 DEF Seen, Complete
<1>11. Handled /\ SyncedFiles
  BY <1>1 DEF Handled, SyncedFiles, Returned
<1>12. Whole
  BY <1>4, <1>5 DEF Whole, Below0
<1> QED
  BY <1>7, <1>8, <1>9, <1>10, <1>11, <1>12 DEF Inv

(* Ctrl+C: nothing of the invariant depends on the flag. *)
LEMMA SignalStep == ASSUME Inv, Signal PROVE Inv'
<1>1. UNCHANGED <<local, card, pc, mode, litems, sitems, todo, fails, ret, instep, listed, edited, broken>>
  BY DEF Signal, history
<1>2. interrupt' \in BOOLEAN
  BY Zenon DEF Signal
<1>3. Types'
  BY <1>1, <1>2 DEF Inv, Types
<1>4. ModeOf' /\ Counted' /\ Snapshot' /\ Seen'
  BY <1>1 DEF Inv, ModeOf, Counted, Snapshot, Seen, Current, OnCard
<1>5. Complete'
  BY <1>1 DEF Inv, Complete, Pending, OnCard
<1>6. Handled' /\ SyncedFiles' /\ Whole'
  BY <1>1 DEF Inv, Handled, SyncedFiles, Whole, Returned, Same, Settled, OnCard, FilesOf
<1> QED
  BY <1>3, <1>4, <1>5, <1>6 DEF Inv

(* A step that changes nothing keeps the invariant. *)
LEMMA StutterStep == ASSUME Inv, UNCHANGED vars PROVE Inv'
<1>1. UNCHANGED <<local, card, pc, mode, litems, sitems, todo, fails, ret, interrupt, instep, listed, edited, broken>>
  BY DEF vars
<1>3. Types'
  BY <1>1 DEF Inv, Types
<1>4. ModeOf' /\ Counted' /\ Snapshot' /\ Seen'
  BY <1>1 DEF Inv, ModeOf, Counted, Snapshot, Seen, Current, OnCard
<1>5. Complete'
  BY <1>1 DEF Inv, Complete, Pending, OnCard
<1>6. Handled' /\ SyncedFiles' /\ Whole'
  BY <1>1 DEF Inv, Handled, SyncedFiles, Whole, Returned, Same, Settled, OnCard, FilesOf
<1> QED
  BY <1>3, <1>4, <1>5, <1>6 DEF Inv

(* The user changes a file: no promise is about it any more, and it is whole. *)
LEMMA EditStep == ASSUME Inv, NEW p \in Rels, Edit(p) PROVE Inv'
<1>1. UNCHANGED <<card, pc, mode, litems, sitems, todo, fails, ret, interrupt, instep, listed>>
  BY DEF Edit
<1>2. edited' = edited \union {p} /\ broken' = broken \ {p}
  BY DEF Edit
<1>3. PICK x \in {None} \union {File(d) : d \in Contents} : local' = [local EXCEPT ![p] = x]
  BY DEF Edit
<1>4. Item(x) /\ (x.kind = "file" => x.data \in Contents)
  BY <1>3, Items, ItemKinds
<1>5. Types
  BY DEF Inv
<1>6. DOMAIN local' = DOMAIN local /\ local'[p] = x /\ \A q \in DOMAIN local : q # p => local'[q] = local[q]
  BY <1>3, <1>5 DEF Types
<1>7. \A q \in DOMAIN local' : Item(local'[q])
  BY <1>4, <1>5, <1>6 DEF Types
<1>8. broken' \subseteq {q \in Rels : local'[q].kind = "file"}
  BY <1>2, <1>5, <1>6 DEF Types
<1>9. Types'
  BY <1>1, <1>5, <1>6, <1>7, <1>8 DEF Types
<1>10. ModeOf' /\ Counted' /\ Seen'
  BY <1>1 DEF Inv, ModeOf, Counted, Seen, Current, OnCard
<1>11. Complete'
  BY <1>1 DEF Inv, Complete, Pending, OnCard
<1>12. Snapshot'
  <2>1. ASSUME NEW q \in DOMAIN litems, q \notin edited'
        PROVE  local'[q] = local[q] /\ q \notin edited
    BY <1>2, <1>5, <1>6, <2>1 DEF Types
  <2> QED
    BY <1>1, <2>1 DEF Inv, Snapshot
<1>13. ASSUME NEW q \in Rels, q \notin edited'
       PROVE  q \notin edited /\ local'[q] = local[q] /\ OnCard(q)' = OnCard(q)
  BY <1>1, <1>2, <1>5, <1>6, <1>13 DEF Types, OnCard
<1>14. \A q \in Rels : Same(q) => Same(q)'
  BY <1>2, <1>13 DEF Same
<1>15. \A q \in Rels \ edited' : Settled(q) => Settled(q)'
  BY <1>1, <1>13 DEF Settled, FilesOf
<1>16. Handled'
  <2>1. FilesOf(litems)' = FilesOf(litems) /\ FilesOf(litems) \subseteq Rels
    BY <1>1, <1>5 DEF FilesOf, Types
  <2>2. \A q \in Rels : OnCard(q)' = OnCard(q)
    BY <1>1 DEF OnCard
  <2>3. Handled
    BY DEF Inv
  <2>4. instep /\ fails = 0 /\ pc = "files" /\ mode = 1 => \A q \in FilesOf(litems) \ todo : Same(q)'
    BY <2>1, <2>3, <1>14 DEF Handled
  <2>5. instep /\ fails = 0 /\ pc = "files" /\ mode = 2 /\ listed =>
           \A q \in Rels \ todo : OnCard(q).kind = "file" => Same(q)'
    BY <2>3, <1>14 DEF Handled
  <2>6. instep /\ fails = 0 /\ pc = "both" /\ listed => \A q \in Rels \ (edited' \union todo) : Settled(q)'
    BY <2>3, <1>13, <1>15 DEF Handled
  <2> QED
    BY <1>1, <2>1, <2>2, <2>4, <2>5, <2>6 DEF Handled
<1>17. SyncedFiles'
  <2>1. FilesOf(litems)' = FilesOf(litems) /\ FilesOf(litems) \subseteq Rels
    BY <1>1, <1>5 DEF FilesOf, Types
  <2>2. \A q \in Rels : OnCard(q)' = OnCard(q)
    BY <1>1 DEF OnCard
  <2>3. SyncedFiles
    BY DEF Inv
  <2>4. instep /\ Returned(1) => \A q \in FilesOf(litems) : Same(q)'
    BY <2>1, <2>3, <1>14 DEF SyncedFiles
  <2>5. instep /\ Returned(2) /\ listed => \A q \in Rels : OnCard(q).kind = "file" => Same(q)'
    BY <2>3, <1>14 DEF SyncedFiles
  <2>6. instep /\ Returned(3) /\ listed => \A q \in Rels \ edited' : Settled(q)'
    BY <2>3, <1>13, <1>15 DEF SyncedFiles, Settled
  <2>7. \A n \in {1, 2, 3} : Returned(n)' = Returned(n)
    BY <1>1 DEF Returned
  <2> QED
    BY <1>1, <2>1, <2>2, <2>4, <2>5, <2>6, <2>7 DEF SyncedFiles, Settled
<1>18. Whole'
  <2> SUFFICES ASSUME NEW q \in Rels, q \notin broken', local'[q].kind = "file"
               PROVE  local'[q].data \in Contents \/ OnCard(q)' = local'[q]
    BY DEF Whole
  <2>1. CASE q = p
    BY <1>4, <1>6, <2>1
  <2>2. CASE q # p
    <3>1. q \notin broken /\ local'[q] = local[q] /\ OnCard(q)' = OnCard(q)
      BY <1>1, <1>2, <1>5, <1>6, <2>2 DEF Types, OnCard
    <3> QED
      BY <3>1 DEF Inv, Whole
  <2> QED
    BY <2>1, <2>2
<1> QED
  BY <1>9, <1>10, <1>11, <1>12, <1>16, <1>17, <1>18 DEF Inv

(* DoSdSync returns: what its loops have achieved is what it promises. *)
LEMMA ReturnStep == ASSUME Inv, Return PROVE Inv'
<1>1. /\ pc \in {"files", "both"} /\ todo = {} /\ pc' = "idle" /\ ret' = (IF fails = 0 THEN 1 ELSE 0)
      /\ UNCHANGED <<local, card, mode, litems, sitems, todo, fails, interrupt, instep, listed, edited, broken>>
  BY DEF Return, history
<1>2. ret' \in {0, 1} /\ (ret' = 1 => fails = 0)
  BY <1>1
<1>3. Types'
  BY <1>1, <1>2 DEF Inv, Types
<1>4. ModeOf' /\ Snapshot' /\ Seen'
  BY <1>1 DEF Inv, ModeOf, Snapshot, Seen
<1>5. Complete' /\ Handled'
  BY <1>1 DEF Complete, Handled
<1>6. Counted'
  BY <1>1, Counts DEF Inv, Types, Counted
<1>7. Whole'
  BY <1>1 DEF Inv, Whole, OnCard
<1>8. SyncedFiles'
  <2>1. Handled /\ ModeOf
    BY DEF Inv
  <2>2. /\ FilesOf(litems)' = FilesOf(litems)
        /\ \A q \in Rels : OnCard(q)' = OnCard(q)
        /\ \A q : Same(q)' = Same(q)
        /\ \A q : Settled(q)' = Settled(q)
    BY <1>1 DEF FilesOf, OnCard, Same, Settled
  <2>3. instep /\ Returned(1)' => \A q \in FilesOf(litems) : Same(q)
    BY <1>1, <1>2, <2>1 DEF Handled, ModeOf, Returned
  <2>4. instep /\ Returned(2)' /\ listed => \A q \in Rels : OnCard(q).kind = "file" => Same(q)
    BY <1>1, <1>2, <2>1 DEF Handled, ModeOf, Returned
  <2>5. instep /\ Returned(3)' /\ listed => \A q \in Rels \ edited : Settled(q)
    BY <1>1, <1>2, <2>1 DEF Handled, ModeOf, Returned
  <2>6. instep' = instep /\ listed' = listed /\ edited' = edited
    BY <1>1
  <2>7. instep' /\ Returned(1)' => \A q \in FilesOf(litems)' : Same(q)'
    BY <2>2, <2>3, <2>6
  <2>8. instep' /\ Returned(2)' /\ listed' => \A q \in Rels : OnCard(q)'.kind = "file" => Same(q)'
    BY <2>2, <2>4, <2>6
  <2>9. instep' /\ Returned(3)' /\ listed' => \A q \in Rels \ edited' : Settled(q)'
    BY <2>2, <2>5, <2>6
  <2> QED
    BY <2>7, <2>8, <2>9 DEF SyncedFiles, Settled
<1> QED
  BY <1>3, <1>4, <1>5, <1>6, <1>7, <1>8 DEF Inv

(* From the directories to the files. *)
LEMMA FilesStep == ASSUME Inv, Files PROVE Inv'
<1>1. /\ pc = "dirs" /\ pc' = "files" /\ todo' = FilesOf(IF mode = 1 THEN litems ELSE sitems)
      /\ UNCHANGED <<local, card, mode, litems, sitems, fails, ret, interrupt, instep, listed, edited, broken>>
  BY DEF Files, history
<1>2. Types /\ ModeOf
  BY DEF Inv
<1>3. mode \in {1, 2} /\ fails = 0
  BY <1>1, <1>2 DEF Inv, ModeOf, Counted
<1>4. todo' \subseteq DOMAIN (IF mode = 1 THEN litems ELSE sitems)
  BY <1>1 DEF FilesOf
<1>5. todo' \subseteq Rels
  BY <1>2, <1>4 DEF Types
<1>6. Types'
  BY <1>1, <1>2, <1>5 DEF Types
<1>7. ModeOf'
  BY <1>1, <1>3, <1>4 DEF ModeOf
<1>8. Counted'
  BY <1>1, <1>3, <1>5, Counts DEF Counted
<1>9. Snapshot' /\ Seen'
  BY <1>1, <1>3 DEF Inv, Snapshot, Seen, Current, OnCard
<1>10. Complete'
  BY <1>1, <1>3 DEF Inv, Complete, OnCard
<1>11. SyncedFiles'
  BY <1>1, Busy
<1>12. Whole'
  BY <1>1 DEF Inv, Whole, OnCard
<1>13. Handled'
  <2>1. CASE mode = 1
    BY <1>1, <2>1 DEF Handled, FilesOf
  <2>2. CASE mode = 2
    <3>1. ASSUME NEW q \in Rels, q \notin todo', listed, OnCard(q).kind = "file"
          PROVE  FALSE
      <4>1. q \in DOMAIN sitems
        BY <1>1, <2>2, <3>1 DEF Inv, Complete
      <4>2. sitems[q] = OnCard(q)
        BY <1>1, <2>2, <4>1 DEF Inv, Seen, Current
      <4> QED
        BY <1>1, <2>2, <3>1, <4>1, <4>2 DEF FilesOf
    <3>2. \A q \in Rels : OnCard(q)' = OnCard(q)
      BY <1>1 DEF OnCard
    <3> QED
      BY <1>1, <2>2, <3>1, <3>2 DEF Handled
  <2> QED
    BY <1>3, <2>1, <2>2
<1> QED
  BY <1>6, <1>7, <1>8, <1>9, <1>10, <1>11, <1>12, <1>13 DEF Inv

(* The whole tree is listed: nothing is pending any more. *)
LEMMA ListedStep == ASSUME Inv, Listed PROVE Inv'
<1>1. /\ pc = "list" /\ todo = {} /\ pc' = (IF mode = 2 THEN "dirs" ELSE "base")
      /\ todo' = IF mode = 2 THEN DirsOf(sitems) ELSE {}
      /\ UNCHANGED <<local, card, mode, litems, sitems, fails, ret, interrupt, instep, listed, edited, broken>>
  BY DEF Listed, history
<1>2. Types /\ ModeOf
  BY DEF Inv
<1>3. mode \in {2, 3} /\ fails = 0
  BY <1>1, <1>2 DEF Inv, ModeOf, Counted
<1>4. DirsOf(sitems) \subseteq DOMAIN sitems
  BY DEF DirsOf
<1>5. pc' \in {"dirs", "base"} /\ pc' # "idle"
  BY <1>1
<1>6. Types'
  BY <1>1, <1>2, <1>4, <1>5 DEF Types
<1>7. ModeOf'
  BY <1>1, <1>3, <1>4 DEF ModeOf
<1>8. Counted' /\ Handled'
  BY <1>1, <1>3, <1>5 DEF Counted, Handled
<1>9. Snapshot' /\ Seen'
  BY <1>1, <1>3, <1>5 DEF Inv, Snapshot, Seen, Current, OnCard
<1>10. Complete'
  <2>1. listed => \A p \in Rels : OnCard(p).kind # "none" => p \in DOMAIN sitems
    BY <1>1 DEF Inv, Complete, Pending
  <2> QED
    BY <1>1, <1>5, <2>1 DEF Complete, OnCard
<1>11. SyncedFiles'
  BY <1>5, Busy
<1>12. Whole'
  BY <1>1 DEF Inv, Whole, OnCard
<1> QED
  BY <1>6, <1>7, <1>8, <1>9, <1>10, <1>11, <1>12 DEF Inv

(* The base is none of the paths below it. *)
LEMMA MakeBaseStep == ASSUME Inv, MakeBase PROVE Inv'
<1>1. /\ pc = "base" /\ pc' = (IF mode = 1 THEN "dirs" ELSE "both")
      /\ todo' = IF mode = 1 THEN DirsOf(litems) ELSE DOMAIN litems \union DOMAIN sitems
      /\ UNCHANGED <<local, mode, litems, sitems, fails, ret, interrupt, listed, edited, broken>>
  BY DEF MakeBase, history
<1>2. Types /\ ModeOf
  BY DEF Inv
<1>3. mode \in {1, 3} /\ fails = 0
  BY <1>1, <1>2 DEF Inv, ModeOf, Counted
<1>4. DirsOf(litems) \subseteq DOMAIN litems
  BY DEF DirsOf
<1>5. pc' \in {"dirs", "both"} /\ pc' # "idle"
  BY <1>1
<1>6. \E o \in Request(Simple("mkdir", CombineSaturnPath(<<>>))) : Take(o)
  BY CombinedBase DEF MakeBase
<1>7. /\ Kept
      /\ \A q \in Rels : OnCard(q)' = OnCard(q) \/ (q = <<>> /\ OnCard(q).kind = "none" /\ OnCard(q)' = Dir)
  BY <1>2, <1>6, MkdirEffect DEF Below0
<1>8. \A q \in Rels : OnCard(q)' = OnCard(q)
  BY <1>7, RelPaths
<1>9. todo' \subseteq Rels
  BY <1>1, <1>2, <1>4 DEF Types
<1>10. Types'
  BY <1>1, <1>2, <1>5, <1>7, <1>9 DEF Types, Kept
<1>11. ModeOf'
  BY <1>1, <1>3, <1>4 DEF ModeOf
<1>12. Counted'
  BY <1>1, <1>3, <1>5, <1>9, Counts DEF Counted
<1>13. Snapshot'
  BY <1>1, <1>3 DEF Inv, Snapshot
<1>14. DOMAIN sitems \subseteq Rels
  BY <1>2 DEF Types
<1>15. Seen'
  BY <1>1, <1>3, <1>5, <1>8, <1>14 DEF Inv, Seen, Current
<1>16. mode = 3 /\ listed => \A p \in Rels : OnCard(p).kind # "none" => p \in DOMAIN sitems
  BY <1>1 DEF Inv, Complete
<1>17. Complete'
  BY <1>1, <1>3, <1>5, <1>8, <1>16 DEF Complete
<1>18. SyncedFiles'
  BY <1>5, Busy
<1>19. Whole'
  BY <1>1, <1>8 DEF Inv, Whole
<1>20. Handled'
  <2>1. ASSUME mode = 3, listed, NEW q \in Rels, q \notin todo'
        PROVE  Settled(q)'
    <3>1. OnCard(q)'.kind = "none" /\ q \notin DOMAIN litems'
      BY <1>1, <1>8, <1>16, <2>1
    <3> QED
      BY <3>1 DEF Settled, FilesOf
  <2> QED
    BY <1>1, <1>3, <1>5, <2>1 DEF Handled
<1> QED
  BY <1>10, <1>11, <1>12, <1>13, <1>15, <1>17, <1>18, <1>19, <1>20 DEF Inv

(* A new sync forgets what the last one promised. *)
LEMMA StartStep == ASSUME Inv, NEW n \in 1 .. 4, Start(n) PROVE Inv'
<1>1. /\ pc = "idle" /\ mode' = n /\ fails' = 0 /\ edited' = {} /\ sitems' = Nothing
      /\ card' = card /\ broken' = broken
  BY DEF Start
<1>2. instep' \in BOOLEAN /\ interrupt' \in BOOLEAN /\ listed' \in BOOLEAN
  <2>1. instep' \in (IF instep THEN {TRUE} ELSE BOOLEAN) /\ interrupt' = FALSE /\ listed' = TRUE
    BY DEF Start
  <2>2. instep' \in BOOLEAN
    BY <2>1
  <2> QED
    BY <2>1, <2>2, Zenon
<1>3. Types /\ Whole
  BY DEF Inv
<1>4. DOMAIN Nothing = {}
  BY DEF Nothing
<1>5. /\ DOMAIN GetLocalTreeRecursive \subseteq Rels
      /\ \A p \in DOMAIN GetLocalTreeRecursive : /\ local[p].kind # "none"
                                                 /\ GetLocalTreeRecursive[p] = local[p]
  <2>1. \A p \in Rels : Kind(local, p) = local[p].kind
    BY <1>3, RelPaths DEF Kind, Types
  <2> QED
    BY <2>1 DEF GetLocalTreeRecursive
<1>6. \A q \in Rels : OnCard(q)' = OnCard(q)
  BY <1>1 DEF OnCard
<1>7. IsTree(card') /\ DOMAIN card' = {Base} \union {CombineSaturnPath(p) : p \in Rels}
  BY <1>1, <1>3 DEF Types
<1>8. CASE n = 1 \/ n = 4
  <2>1. local' = local
    BY <1>8 DEF Start
  <2>2. \/ pc' = "idle" /\ ret' = 0 /\ litems' = litems /\ todo' = todo
        \/ n = 1 /\ pc' = "base" /\ litems' = GetLocalTreeRecursive /\ todo' = {} /\ ret' = ret
    BY <1>8 DEF Start
  <2>3. Types'
    <3>1. DOMAIN litems' \subseteq Rels /\ todo' \subseteq Rels \union {<<>>} /\ ret' \in {0, 1}
      BY <1>3, <1>5, <2>2 DEF Types
    <3>2. pc' \in {"idle", "list", "base", "dirs", "files", "both"} /\ mode' \in 0 .. 4
      BY <1>1, <2>2
    <3> QED
      BY <1>1, <1>2, <1>3, <1>4, <1>7, <2>1, <3>1, <3>2 DEF Types
  <2>4. ModeOf' /\ Snapshot' /\ Complete' /\ Handled'
    BY <1>1, <1>8, <2>2 DEF ModeOf, Snapshot, Complete, Handled
  <2>5. Counted'
    BY <1>1, <2>2, Counts DEF Counted
  <2>6. Seen'
    BY <1>1, <1>4 DEF Seen
  <2>7. SyncedFiles'
    BY <2>2 DEF SyncedFiles, Returned
  <2>8. Whole'
    BY <1>1, <1>3, <1>6, <2>1 DEF Whole
  <2> QED
    BY <2>3, <2>4, <2>5, <2>6, <2>7, <2>8 DEF Inv
<1>9. CASE n = 2 \/ n = 3
  <2>1. /\ CreateDirectories(<<>>) /\ pc' = "list" /\ todo' = {<<>>} /\ ret' = ret
        /\ litems' = IF n = 2 THEN Nothing ELSE GetLocalTreeRecursive
    <3>1. CASE n = 2
      BY <3>1 DEF Start
    <3>2. CASE n = 3
      BY <3>2 DEF Start
    <3> QED
      BY <1>9, <3>1, <3>2
  <2>2. Created(<<>>)
    BY <1>3, <2>1, CreateEffect DEF Below0
  <2>3. DOMAIN local' = DOMAIN local
    BY <2>2 DEF Created
  <2>4. \A q \in Rels : local'[q] = local[q]
    <3> SUFFICES ASSUME NEW q \in Rels PROVE local'[q] = local[q]
      OBVIOUS
    <3>1. q \in Path /\ Len(q) > 0 /\ Len(q) \in Nat /\ <<>> \in Path
      BY RelPaths DEF Below0
    <3>2. Len(<<>>) = 0
      OBVIOUS
    <3>3. ~IsPrefix(q, <<>>)
      <4> SUFFICES ASSUME IsPrefix(q, <<>>) PROVE FALSE
        OBVIOUS
      <4>1. Len(q) \in 0 .. Len(<<>>)
        BY <3>1, PrefixIsInitial
      <4> QED
        BY <3>1, <3>2, <4>1
    <3> QED
      BY <1>3, <2>2, <3>3 DEF Created, Types
  <2>5. \A q \in Below0 : Item(local'[q])
    BY <1>3, <2>2, CreatedKeeps DEF Below0
  <2>6. DOMAIN litems' \subseteq Rels
    BY <1>4, <1>5, <2>1
  <2>7. Types'
    <3>1. broken' \subseteq {q \in Rels : local'[q].kind = "file"}
      BY <1>1, <1>3, <2>4 DEF Types
    <3>2. mode' \in 0 .. 4 /\ ret' \in {0, 1} /\ fails' \in Nat
      BY <1>1, <1>3, <2>1 DEF Types
    <3>3. \A q \in DOMAIN local' : Item(local'[q])
      BY <1>3, <2>3, <2>5 DEF Types, Below0
    <3> QED
      BY <1>1, <1>2, <1>3, <1>4, <1>7, <2>1, <2>3, <2>6, <3>1, <3>2, <3>3 DEF Types
  <2>8. ModeOf' /\ Counted' /\ Handled'
    BY <1>1, <1>9, <2>1 DEF ModeOf, Counted, Handled
  <2>9. Snapshot'
    BY <1>1, <1>5, <2>1, <2>4 DEF Snapshot
  <2>10. Seen'
    BY <1>1, <1>4, <2>1 DEF Seen
  <2>11. Complete'
    <3>1. ASSUME NEW p \in Rels PROVE Pending(p)'
      <4>1. Len(p) \in Nat /\ Len(p) > 0
        BY RelPaths
      <4>2. 0 \in 0 .. (Len(p) - 1) /\ SubSeq(p, 1, 0) = <<>>
        BY <4>1
      <4> QED
        BY <2>1, <4>2 DEF Pending
    <3> QED
      BY <2>1, <3>1 DEF Complete
  <2>12. SyncedFiles'
    BY <2>1, Busy
  <2>13. Whole'
    BY <1>1, <1>3, <1>6, <2>4 DEF Whole
  <2> QED
    BY <2>7, <2>8, <2>9, <2>10, <2>11, <2>12, <2>13 DEF Inv
<1> QED
  BY <1>8, <1>9

(***************************************************************************)
(* One directory is listed: what lay below it has been found, or lies      *)
(* below a directory that has been found.                                  *)
(***************************************************************************)
LEMMA ListStep == ASSUME Inv, ListSaturnDirForSync PROVE Inv'
<1>0. PICK d : d = First(todo)
  OBVIOUS
<1> DEFINE r == Simple("list", CombineSaturnPath(d))
           found(o) == IF o.ret = 1 THEN {SubSeq(q, Len(Base) + 1, Len(q)) : q \in o.answer} ELSE {}
           items(o) == [p \in DOMAIN sitems \union found(o) |-> card[CombineSaturnPath(p)]]
<1>1. /\ pc = "list" /\ todo # {}
      /\ UNCHANGED <<local, pc, mode, litems, fails, ret, interrupt, edited, broken>>
  BY DEF ListSaturnDirForSync
<1>2. PICK o \in Request(r) :
        /\ Take(o) /\ sitems' = items(o)
        /\ todo' = (todo \ {d}) \union {p \in found(o) : items(o)[p].kind = "dir"}
        /\ listed' = (listed /\ (o.ret = 1) /\ o.instep)
  BY <1>0, Zenon DEF ListSaturnDirForSync
<1>3. Types /\ ModeOf /\ Seen /\ Complete
  BY DEF Inv
<1>4. d \in todo /\ d \in Below0
  BY <1>0, <1>1, <1>3, FirstOf DEF Types, Below0
<1>5. Told(o, r, card) /\ (o.instep => instep)
  BY <1>2, <1>3, RequestTold
<1>6. /\ o.ret \in {0, 1} /\ o.instep \in BOOLEAN /\ o.card = card
      /\ o.ret = 1 => o.answer \subseteq Children(card, CombineSaturnPath(d))
      /\ o.ret = 1 /\ o.instep => o.answer = Children(card, CombineSaturnPath(d))
  BY <1>5, ListTold
<1>7. card' = card /\ instep' = o.instep
  BY <1>2, <1>6 DEF Take
<1>8. instep' \in BOOLEAN /\ listed' \in BOOLEAN
  BY <1>2, <1>3, <1>6, <1>7 DEF Types
<1>9. listed' => listed /\ o.ret = 1 /\ o.instep
  BY <1>2
<1>10. \A p \in found(o) : p \in Rels /\ OnCard(p).kind # "none"
  <2> SUFFICES ASSUME NEW p \in found(o) PROVE p \in Rels /\ OnCard(p).kind # "none"
    OBVIOUS
  <2>1. o.ret = 1 /\ \E q \in o.answer : p = SubSeq(q, Len(Base) + 1, Len(q))
    OBVIOUS
  <2>2. PICK q \in o.answer : p = SubSeq(q, Len(Base) + 1, Len(q))
    BY <2>1
  <2>3. q \in Children(card, CombineSaturnPath(d))
    BY <1>6, <2>1
  <2> QED
    BY <1>3, <1>4, <2>2, <2>3, ListingFinds
<1>11. /\ DOMAIN sitems' = DOMAIN sitems \union found(o)
       /\ \A p \in DOMAIN sitems' : sitems'[p] = OnCard(p)
  BY <1>2 DEF OnCard
<1> HIDE DEF found
<1>12. DOMAIN sitems' \subseteq Rels
  BY <1>3, <1>10, <1>11 DEF Types
<1>13. todo' \subseteq Rels \union {<<>>}
  BY <1>2, <1>3, <1>10 DEF Types
<1>14. \A q \in Rels : OnCard(q)' = OnCard(q)
  BY <1>7 DEF OnCard
<1>15. Types'
  BY <1>1, <1>3, <1>7, <1>8, <1>12, <1>13 DEF Types
<1>16. ModeOf' /\ Counted' /\ Snapshot' /\ Handled'
  BY <1>1 DEF Inv, ModeOf, Counted, Snapshot, Handled
<1>17. Seen'
  <2>1. \A p \in DOMAIN sitems' : sitems'[p].kind # "none"
    BY <1>1, <1>3, <1>10, <1>11 DEF Seen, Current
  <2>2. \A p \in DOMAIN sitems' : Current(p)'
    BY <1>11, <1>12, <1>14 DEF Current
  <2> QED
    BY <1>1, <2>1, <2>2 DEF Seen
<1>18. SyncedFiles'
  BY <1>1, Busy
<1>19. Whole'
  BY <1>1, <1>14 DEF Inv, Whole
<1>20. ASSUME listed', NEW p \in Rels, OnCard(p).kind # "none"
       PROVE  p \in DOMAIN sitems' \/ Pending(p)'
  <2>1. listed /\ o.ret = 1 /\ o.instep
    BY <1>9, <1>20
  <2>2. p \in DOMAIN sitems \/ Pending(p)
    BY <1>1, <1>3, <1>20, <2>1 DEF Complete
  <2>3. CASE p \in DOMAIN sitems
    BY <1>11, <2>3
  <2>4. CASE Pending(p)
    <3>1. PICK n \in 0 .. (Len(p) - 1) : SubSeq(p, 1, n) \in todo
      BY <2>4 DEF Pending
    <3>2. CASE SubSeq(p, 1, n) # d
      <4>1. SubSeq(p, 1, n) \in todo'
        BY <1>2, <3>1, <3>2
      <4> QED
        BY <4>1 DEF Pending
    <3>3. CASE SubSeq(p, 1, n) = d
      <4> DEFINE s == SubSeq(p, 1, n + 1)
      <4>1. p \in Path /\ Len(p) \in Nat /\ Len(p) > 0 /\ Len(Base) \in Nat /\ Base \in Path
        BY RelPaths
      <4>2. n \in Nat /\ n + 1 \in 0 .. Len(p) /\ n \in 0 .. (n + 1)
        BY <4>1
      <4>3. s \in Path /\ Len(s) = n + 1
        BY <4>1, <4>2, Initial
      <4>4. SubSeq(s, 1, n) = d
        BY <4>1, <4>2, <3>3, InitialOfInitial
      <4>5. (n + 1 = Len(p) /\ s = p) \/ n + 1 \in 1 .. (Len(p) - 1)
        <5>1. CASE n + 1 = Len(p)
          <6>1. s = p
            <7>1. \A i \in 1 .. (n + 1) : s[i] = p[i]
              BY <4>1, <4>2, Initial
            <7> HIDE DEF s
            <7> QED
              BY <4>1, <4>3, <5>1, <7>1, SamePath
          <6> QED
            BY <5>1, <6>1
        <5>2. CASE n + 1 # Len(p)
          BY <4>1, <4>2, <5>2
        <5> QED
          BY <5>1, <5>2
      <4>6. s \in Rels
        <5>1. \A k \in 1 .. (Len(p) - 1) : SubSeq(p, 1, k) \in Rels
          BY SyncAssumption
        <5> QED
          BY <4>5, <5>1
      <4>7. OnCard(s).kind # "none" /\ (s # p => OnCard(s).kind = "dir")
        <5>1. CASE s = p
          BY <1>20, <5>1
        <5>2. CASE s # p
          <6> DEFINE f == CombineSaturnPath(p)
          <6>1. n + 1 \in 1 .. (Len(p) - 1)
            BY <4>5, <5>2
          <6>2. f \in DOMAIN card /\ Len(f) = Len(Base) + Len(p)
            BY <1>3, <4>1, OnTheCard, Combined DEF Below0
          <6>3. SubSeq(f, 1, Len(Base) + (n + 1)) = CombineSaturnPath(s)
            BY <4>1, <4>2, CombinedInitial
          <6>4. Len(Base) + (n + 1) \in 1 .. (Len(f) - 1)
            BY <4>1, <6>1, <6>2
          <6>5. card[f].kind # "none" => card[SubSeq(f, 1, Len(Base) + (n + 1))].kind = "dir"
            BY <1>3, <6>2, <6>4, TreeParts DEF Types
          <6>6. OnCard(s).kind = "dir"
            BY <1>20, <6>3, <6>5 DEF OnCard
          <6> QED
            BY <6>6
        <5> QED
          BY <5>1, <5>2
      <4>8. Front(s) = d
        <5>1. s # <<>>
          BY <4>6, RelPaths
        <5>2. Front(s) = SubSeq(s, 1, Len(s) - 1)
          BY <4>3, <5>1, FrontOf
        <5>3. Len(s) - 1 = n
          BY <4>2, <4>3
        <5> QED
          BY <4>4, <5>2, <5>3
      <4> HIDE DEF s
      <4>9. CombineSaturnPath(s) \in o.answer
        BY <1>3, <1>6, <2>1, <4>6, <4>7, <4>8, ListingComplete
      <4>10. SubSeq(CombineSaturnPath(s), Len(Base) + 1, Len(CombineSaturnPath(s))) = s
        BY <4>3, Combined
      <4>11. s \in found(o)
        BY <2>1, <4>9, <4>10 DEF found
      <4>12. CASE s = p
        BY <1>11, <4>11, <4>12
      <4>13. CASE s # p
        <5>1. items(o)[s].kind = "dir"
          BY <1>2, <1>11, <4>7, <4>11, <4>13
        <5>2. s \in todo'
          BY <1>2, <4>11, <5>1
        <5>3. n + 1 \in 0 .. (Len(p) - 1)
          BY <4>2, <4>5, <4>13
        <5> QED
          BY <5>2, <5>3 DEF Pending, s
      <4> QED
        BY <4>12, <4>13
    <3> QED
      BY <3>2, <3>3
  <2> QED
    BY <2>2, <2>3, <2>4
<1>21. Complete'
  BY <1>1, <1>14, <1>20 DEF Complete
<1> QED
  BY <1>15, <1>16, <1>17, <1>18, <1>19, <1>21 DEF Inv

(* One path less to do, and at most one failure more. *)
LEMMA CountedStep ==
  ASSUME Inv, pc \in {"files", "both"}, NEW p \in todo, todo' = todo \ {p}, pc' = pc,
         fails' \in {fails, fails + 1}
  PROVE  Counted'
<1>1. todo \subseteq Rels
  BY DEF Inv, Types, ModeOf
<1>2. Cardinality(todo) \in Nat /\ Cardinality(Rels) \in Nat /\ Cardinality(todo \ {p}) = Cardinality(todo) - 1
  BY <1>1, Counts
<1>3. fails \in Nat /\ fails + Cardinality(todo) =< Cardinality(Rels)
  BY DEF Inv, Types, Counted
<1>4. fails' + Cardinality(todo') =< Cardinality(Rels)
  BY <1>2, <1>3
<1> QED
  BY <1>4 DEF Counted

(* What a loop leaves alone. *)
LEMMA LoopFacts ==
  ASSUME Inv, Loop
  PROVE  /\ First(todo) \in todo /\ First(todo) \in Rels /\ Handle(First(todo))
         /\ todo' = todo \ {First(todo)} /\ pc' = pc /\ pc' # "idle" /\ mode' = mode
         /\ UNCHANGED <<litems, sitems, ret, interrupt, listed, edited>>
         /\ pc \in {"dirs", "files", "both"} /\ todo \subseteq Rels
         /\ (pc = "both" /\ mode = 3) \/ (pc \in {"dirs", "files"} /\ mode \in {1, 2})
<1>1. Types /\ ModeOf
  BY DEF Inv
<1>2. /\ pc \in {"dirs", "files", "both"} /\ todo # {} /\ Handle(First(todo)) /\ todo' = todo \ {First(todo)}
      /\ UNCHANGED <<pc, mode, litems, sitems, ret, interrupt, listed, edited>>
  BY DEF Loop
<1>3. todo \subseteq Rels
  BY <1>1, <1>2 DEF Types, ModeOf
<1>4. First(todo) \in todo
  BY <1>2, <1>3, FirstOf DEF Below0
<1> QED
  BY <1>1, <1>2, <1>3, <1>4 DEF ModeOf

(* A directory is made on the card. *)
LEMMA LoopMkdir ==
  ASSUME Inv, Loop, NEW p, p = First(todo), DoMkdir(p),
         \/ pc = "dirs" /\ mode = 1
         \/ pc = "both" /\ p \in DOMAIN litems /\ p \notin DOMAIN sitems /\ litems[p].kind = "dir"
  PROVE  Inv'
<1>1. /\ p \in todo /\ p \in Rels /\ todo' = todo \ {p} /\ pc' = pc /\ pc' # "idle" /\ mode' = mode
      /\ UNCHANGED <<litems, sitems, ret, interrupt, listed, edited>>
      /\ pc \in {"dirs", "files", "both"} /\ todo \subseteq Rels
      /\ (pc = "both" /\ mode = 3) \/ (pc \in {"dirs", "files"} /\ mode \in {1, 2})
  BY LoopFacts
<1>2. UNCHANGED <<local, fails, broken>>
  BY DEF DoMkdir
<1>3. Types /\ ModeOf
  BY DEF Inv
<1>4. \E o \in Request(Simple("mkdir", CombineSaturnPath(p))) : Take(o)
  BY DEF DoMkdir
<1>5. /\ Kept
      /\ \A q \in Rels : OnCard(q)' = OnCard(q) \/ (q = p /\ OnCard(q).kind = "none" /\ OnCard(q)' = Dir)
  BY <1>1, <1>3, <1>4, MkdirEffect DEF Below0
<1>6. Types'
  BY <1>1, <1>2, <1>3, <1>5 DEF Types, Kept
<1>7. ModeOf' /\ Snapshot'
  BY <1>1, <1>2 DEF Inv, ModeOf, Snapshot
<1>8. Counted'
  <2>1. CASE pc = "dirs"
    BY <1>1, <1>2, <2>1 DEF Inv, Counted
  <2>2. CASE pc = "both"
    BY <1>1, <1>2, <2>2, CountedStep
  <2> QED
    BY <2>1, <2>2
<1>9. DOMAIN sitems \subseteq Rels
  BY <1>3 DEF Types
<1>10. pc = "both" => p \in DOMAIN litems /\ p \notin DOMAIN sitems /\ litems[p].kind = "dir"
  OBVIOUS
<1>11. pc = "dirs" => mode = 1
  BY <1>1
<1>12. \A q \in Rels : q # p => OnCard(q)' = OnCard(q)
  BY <1>5
<1>13. Seen'
  BY <1>1, <1>9, <1>10, <1>11, <1>12 DEF Inv, Seen, Current
<1>14. Complete'
  BY <1>1, <1>10, <1>11, <1>12 DEF Inv, Complete
<1>15. SyncedFiles'
  BY <1>1, Busy
<1>16. Whole'
  <2> SUFFICES ASSUME NEW q \in Rels, q \notin broken, local[q].kind = "file", local[q].data \notin Contents
               PROVE  OnCard(q)' = local[q]
    BY <1>2 DEF Whole
  <2>1. OnCard(q) = local[q]
    BY DEF Inv, Whole
  <2> QED
    BY <1>5, <2>1
<1>17. Handled'
  <2>1. CASE pc = "dirs"
    BY <1>1, <2>1 DEF Handled
  <2>2. CASE pc = "both"
    <3> SUFFICES ASSUME instep', fails' = 0, listed', NEW q \in Rels, q \notin edited', q \notin todo'
                 PROVE  Settled(q)'
      BY <1>1, <2>2 DEF Handled
    <3>1. instep /\ fails = 0 /\ listed
      BY <1>1, <1>2, <1>5 DEF Kept
    <3>2. CASE q = p
      <4>1. OnCard(p).kind = "none"
        BY <1>1, <1>10, <2>2, <3>1 DEF Inv, Complete
      <4>2. OnCard(p)'.kind # "file"
        BY <1>1, <1>5, <4>1, ItemKinds
      <4>3. p \notin FilesOf(litems)'
        BY <1>1, <1>10, <2>2 DEF FilesOf
      <4> QED
        BY <3>2, <4>2, <4>3 DEF Settled
    <3>3. CASE q # p
      <4>1. Settled(q)
        BY <1>1, <2>2, <3>1, <3>3 DEF Inv, Handled
      <4> QED
        BY <1>1, <1>2, <1>12, <3>3, <4>1 DEF Settled, FilesOf
    <3> QED
      BY <3>2, <3>3
  <2> QED
    BY <2>1, <2>2
<1> QED
  BY <1>6, <1>7, <1>8, <1>13, <1>14, <1>15, <1>16, <1>17 DEF Inv

(* A file is copied to the card. *)
LEMMA LoopUpload ==
  ASSUME Inv, Loop, NEW p, p = First(todo), DoSdUpload(p),
         (pc = "files" /\ mode = 1) \/ (pc = "both" /\ p \in DOMAIN litems)
  PROVE  Inv'
<1>1. /\ p \in todo /\ p \in Rels /\ todo' = todo \ {p} /\ pc' = pc /\ pc' # "idle" /\ mode' = mode
      /\ UNCHANGED <<litems, sitems, ret, interrupt, listed, edited>>
      /\ pc \in {"dirs", "files", "both"} /\ todo \subseteq Rels
      /\ (pc = "both" /\ mode = 3) \/ (pc \in {"dirs", "files"} /\ mode \in {1, 2})
  BY LoopFacts
<1>2. Types /\ ModeOf
  BY DEF Inv
<1>3. Uploaded(p)
  BY <1>1, <1>2, UploadEffect
<1>4. /\ Kept /\ UNCHANGED <<local, broken>> /\ fails' \in {fails, fails + 1}
      /\ \A q \in Rels : q # p => OnCard(q)' = OnCard(q)
      /\ OnCard(p)' = OnCard(p) \/ (local[p].kind = "file" /\ OnCard(p)' = local[p])
      /\ fails' = fails /\ instep' => local[p].kind = "file" /\ OnCard(p)' = local[p]
  BY <1>3 DEF Uploaded
<1>5. fails \in Nat /\ fails' \in Nat /\ (fails' = 0 => fails = 0 /\ fails' = fails)
  BY <1>2, <1>4 DEF Types
<1>6. Types'
  BY <1>1, <1>2, <1>4, <1>5 DEF Types, Kept
<1>7. ModeOf' /\ Snapshot'
  BY <1>1, <1>4 DEF Inv, ModeOf, Snapshot
<1>8. Counted'
  BY <1>1, <1>4, CountedStep
<1>9. DOMAIN sitems \subseteq Rels
  BY <1>2 DEF Types
<1>10. pc = "both" => p \in DOMAIN litems
  OBVIOUS
<1>11. pc # "both" => pc = "files" /\ mode = 1
  OBVIOUS
<1>13. Seen'
  BY <1>1, <1>4, <1>9, <1>11 DEF Inv, Seen, Current
<1>14. Complete'
  BY <1>1, <1>4, <1>10, <1>11 DEF Inv, Complete
<1>15. SyncedFiles'
  BY <1>1, Busy
<1>16. Whole'
  BY <1>4 DEF Inv, Whole
<1>17. Handled'
  <2> SUFFICES ASSUME instep', fails' = 0 PROVE
        /\ pc' = "files" /\ mode' = 1 => \A q \in FilesOf(litems)' \ todo' : Same(q)'
        /\ pc' = "both" /\ listed' => \A q \in Rels \ (edited' \union todo') : Settled(q)'
    BY <1>1, <1>11 DEF Handled
  <2>1. instep /\ fails = 0 /\ local[p].kind = "file" /\ OnCard(p)' = local[p]
    BY <1>4, <1>5 DEF Kept
  <2>2. ASSUME pc = "files", mode = 1, NEW q \in FilesOf(litems)', q \notin todo' PROVE Same(q)'
    <3>1. CASE q = p
      BY <1>4, <2>1, <3>1 DEF Same
    <3>2. CASE q # p
      <4>1. q \in FilesOf(litems) /\ q \in Rels /\ q \notin todo
        BY <1>1, <1>2, <2>2, <3>2 DEF FilesOf, Types
      <4>2. Same(q)
        BY <2>1, <2>2, <4>1 DEF Inv, Handled
      <4> QED
        BY <1>1, <1>4, <3>2, <4>1, <4>2 DEF Same
    <3> QED
      BY <3>1, <3>2
  <2>3. ASSUME pc = "both", listed, NEW q \in Rels, q \notin edited, q \notin todo' PROVE Settled(q)'
    <3>1. CASE q = p
      BY <1>4, <2>1, <3>1 DEF Settled
    <3>2. CASE q # p
      <4>1. Settled(q)
        BY <1>1, <2>1, <2>3, <3>2 DEF Inv, Handled
      <4> QED
        BY <1>1, <1>4, <3>2, <4>1 DEF Settled, FilesOf
    <3> QED
      BY <3>1, <3>2
  <2> QED
    BY <1>1, <2>2, <2>3
<1> QED
  BY <1>6, <1>7, <1>8, <1>13, <1>14, <1>15, <1>16, <1>17 DEF Inv

(* A directory is made on the local side; it cannot replace what the snapshot found. *)
LEMMA LoopCreate ==
  ASSUME Inv, Loop, NEW p, p = First(todo), CreateDirectories(p), UNCHANGED <<card, instep, fails, broken>>,
         \/ pc = "dirs" /\ mode = 2
         \/ pc = "both" /\ p \notin DOMAIN litems /\ p \in DOMAIN sitems /\ sitems[p].kind = "dir"
  PROVE  Inv'
<1>1. /\ p \in todo /\ p \in Rels /\ todo' = todo \ {p} /\ pc' = pc /\ pc' # "idle" /\ mode' = mode
      /\ UNCHANGED <<litems, sitems, ret, interrupt, listed, edited>>
      /\ pc \in {"dirs", "files", "both"} /\ todo \subseteq Rels
      /\ (pc = "both" /\ mode = 3) \/ (pc \in {"dirs", "files"} /\ mode \in {1, 2})
  BY LoopFacts
<1>2. Types /\ ModeOf
  BY DEF Inv
<1>3. Created(p)
  BY <1>1, <1>2, CreateEffect DEF Below0
<1>4. \A q \in Below0 : /\ Item(local'[q])
                        /\ local[q].kind # "none" => local'[q] = local[q]
                        /\ local'[q].kind # local[q].kind => local[q].kind = "none" /\ local'[q].kind = "dir"
  BY <1>1, <1>2, <1>3, CreatedKeeps DEF Below0
<1>5. DOMAIN local' = Rels \union {<<>>}
  BY <1>2, <1>3 DEF Created, Types
<1>6. \A q \in Rels : OnCard(q)' = OnCard(q)
  BY DEF OnCard
<1>7. Types'
  <2>1. broken' \subseteq {q \in Rels : local'[q].kind = "file"}
    BY <1>2, <1>4 DEF Types, Below0
  <2>2. \A q \in DOMAIN local' : Item(local'[q])
    BY <1>4, <1>5 DEF Below0
  <2> QED
    BY <1>1, <1>2, <1>5, <2>1, <2>2 DEF Types
<1>8. ModeOf'
  BY <1>1 DEF Inv, ModeOf
<1>9. Snapshot'
  <2> SUFFICES ASSUME mode = 3, NEW q \in DOMAIN litems
               PROVE  litems[q].kind # "none" /\ (q \notin edited => local'[q] = litems[q])
    BY <1>1 DEF Snapshot
  <2>1. litems[q].kind # "none" /\ (q \notin edited => local[q] = litems[q]) /\ q \in Rels
    BY <1>2 DEF Inv, Snapshot, Types
  <2> QED
    BY <1>4, <2>1 DEF Below0
<1>10. Counted'
  <2>1. CASE pc = "dirs"
    BY <1>1, <2>1 DEF Inv, Counted
  <2>2. CASE pc = "both"
    BY <1>1, <2>2, CountedStep
  <2> QED
    BY <2>1, <2>2
<1>11. DOMAIN sitems \subseteq Rels
  BY <1>2 DEF Types
<1>12. Seen'
  BY <1>1, <1>6, <1>11 DEF Inv, Seen, Current
<1>13. Complete'
  BY <1>1, <1>6 DEF Inv, Complete
<1>14. SyncedFiles'
  BY <1>1, Busy
<1>15. Whole'
  <2> SUFFICES ASSUME NEW q \in Rels, q \notin broken, local'[q].kind = "file"
               PROVE  local'[q].data \in Contents \/ OnCard(q)' = local'[q]
    BY DEF Whole
  <2>1. local[q].kind # "none"
    BY <1>4 DEF Below0
  <2>2. local'[q] = local[q]
    BY <1>4, <2>1 DEF Below0
  <2> QED
    BY <1>6, <2>2 DEF Inv, Whole
<1>16. Handled'
  <2>1. CASE pc = "dirs"
    BY <1>1, <2>1 DEF Handled
  <2>2. CASE pc = "both"
    <3> SUFFICES ASSUME instep', fails' = 0, listed', NEW q \in Rels, q \notin edited', q \notin todo'
                 PROVE  Settled(q)'
      BY <1>1, <2>2 DEF Handled
    <3>1. instep /\ fails = 0 /\ listed
      BY <1>1
    <3>2. CASE q = p
      <4>1. OnCard(p).kind = "dir"
        BY <1>1, <2>2 DEF Inv, Seen, Current
      <4>2. p \notin FilesOf(litems)'
        BY <1>1, <2>2 DEF FilesOf
      <4>3. OnCard(p)'.kind = "dir"
        BY <1>1, <1>6, <4>1
      <4> QED
        BY <3>2, <4>2, <4>3 DEF Settled
    <3>3. CASE q # p
      <4>1. Settled(q)
        BY <1>1, <2>2, <3>1, <3>3 DEF Inv, Handled
      <4>2. q \in FilesOf(litems)' => q \in FilesOf(litems)
        BY <1>1 DEF FilesOf
      <4>3. local'[q] = local[q] \/ (local[q].kind = "none" /\ local'[q].kind # "file")
        BY <1>4, Items DEF Below0
      <4>4. local'[q].kind = "none" => local[q].kind = "none"
        BY <1>4 DEF Below0
      <4> QED
        BY <1>6, <4>1, <4>2, <4>3, <4>4 DEF Settled
    <3> QED
      BY <3>2, <3>3
  <2> QED
    BY <2>1, <2>2
<1> QED
  BY <1>7, <1>8, <1>9, <1>10, <1>12, <1>13, <1>14, <1>15, <1>16 DEF Inv

(* A file is copied from the card. *)
LEMMA LoopDownload ==
  ASSUME Inv, Loop, NEW p, p = First(todo), DoSdDownload(p),
         \/ pc = "files" /\ mode = 2
         \/ pc = "both" /\ p \notin DOMAIN litems /\ p \in DOMAIN sitems
  PROVE  Inv'
<1>1. /\ p \in todo /\ p \in Rels /\ todo' = todo \ {p} /\ pc' = pc /\ pc' # "idle" /\ mode' = mode
      /\ UNCHANGED <<litems, sitems, ret, interrupt, listed, edited>>
      /\ pc \in {"dirs", "files", "both"} /\ todo \subseteq Rels
      /\ (pc = "both" /\ mode = 3) \/ (pc \in {"dirs", "files"} /\ mode \in {1, 2})
  BY LoopFacts
<1>2. Types /\ ModeOf
  BY DEF Inv
<1>3. Downloaded(p)
  BY <1>1, <1>2, DownloadEffect
<1>4. /\ Kept /\ card' = card /\ fails' \in {fails, fails + 1}
      /\ DOMAIN local' = DOMAIN local /\ \A q \in DOMAIN local : q # p => local'[q] = local[q]
      /\ fails' = fails /\ instep' => local'[p].kind = "file" /\ local'[p] = OnCard(p)
  BY <1>3 DEF Downloaded
<1>5. \/ UNCHANGED <<local, broken>>
      \/ /\ local'[p] = File(local'[p].data)
         /\ \/ broken' = broken \union {p}
            \/ broken' = broken \ {p} /\ local'[p] = OnCard(p)
  BY <1>3 DEF Downloaded
<1>6. fails \in Nat /\ fails' \in Nat /\ (fails' = 0 => fails = 0 /\ fails' = fails)
  BY <1>2, <1>4 DEF Types
<1>7. DOMAIN local = Rels \union {<<>>} /\ p \in DOMAIN local /\ \A q \in DOMAIN local : Item(local[q])
  BY <1>1, <1>2 DEF Types
<1>8. \A q \in DOMAIN local' : Item(local'[q])
  <2>1. Item(local'[p])
    BY <1>5, <1>7, Items
  <2> QED
    BY <1>4, <1>7, <2>1
<1>9. broken' \subseteq {q \in Rels : local'[q].kind = "file"}
  <2> SUFFICES ASSUME NEW q \in broken' PROVE q \in Rels /\ local'[q].kind = "file"
    OBVIOUS
  <2>1. broken \subseteq {x \in Rels : local[x].kind = "file"}
    BY <1>2 DEF Types
  <2>2. CASE UNCHANGED <<local, broken>>
    BY <2>1, <2>2
  <2>3. CASE local'[p] = File(local'[p].data) /\ (broken' = broken \union {p} \/ broken' = broken \ {p})
    <3>1. local'[p].kind = "file"
      BY <2>3, ItemKinds
    <3>2. q = p \/ (q # p /\ q \in broken)
      BY <2>3
    <3> QED
      BY <1>1, <1>4, <1>7, <2>1, <3>1, <3>2
  <2> QED
    BY <1>5, <2>2, <2>3
<1>10. Types'
  BY <1>1, <1>2, <1>4, <1>6, <1>8, <1>9 DEF Types, Kept
<1>11. ModeOf'
  BY <1>1 DEF Inv, ModeOf
<1>12. \A q \in Rels : OnCard(q)' = OnCard(q)
  BY <1>4 DEF OnCard
<1>13. Snapshot'
  <2> SUFFICES ASSUME mode = 3, NEW q \in DOMAIN litems
               PROVE  litems[q].kind # "none" /\ (q \notin edited => local'[q] = litems[q])
    BY <1>1 DEF Snapshot
  <2>1. litems[q].kind # "none" /\ (q \notin edited => local[q] = litems[q]) /\ q \in Rels
    BY <1>2 DEF Inv, Snapshot, Types
  <2>2. q # p
    BY <1>1
  <2> QED
    BY <1>4, <1>7, <2>1, <2>2
<1>14. Counted'
  BY <1>1, <1>4, CountedStep
<1>15. DOMAIN sitems \subseteq Rels
  BY <1>2 DEF Types
<1>16. Seen'
  BY <1>1, <1>12, <1>15 DEF Inv, Seen, Current
<1>17. Complete'
  BY <1>1, <1>12 DEF Inv, Complete
<1>18. SyncedFiles'
  BY <1>1, Busy
<1>19. Whole'
  <2> SUFFICES ASSUME NEW q \in Rels, q \notin broken', local'[q].kind = "file"
               PROVE  local'[q].data \in Contents \/ OnCard(q) = local'[q]
    BY <1>12 DEF Whole
  <2>1. CASE local'[q] = local[q] /\ q \notin broken
    BY <2>1 DEF Inv, Whole
  <2>2. CASE ~(local'[q] = local[q] /\ q \notin broken)
    <3>1. q = p
      BY <1>4, <1>5, <1>7, <2>2
    <3>2. local'[p] = OnCard(p)
      BY <1>5, <2>2, <3>1
    <3> QED
      BY <3>1, <3>2
  <2> QED
    BY <2>1, <2>2
<1>20. Handled'
  <2> SUFFICES ASSUME instep', fails' = 0, listed' PROVE
        /\ pc' = "files" => \A q \in Rels \ todo' : OnCard(q)'.kind = "file" => Same(q)'
        /\ pc' = "both" => \A q \in Rels \ (edited' \union todo') : Settled(q)'
    BY <1>1 DEF Handled
  <2>1. instep /\ fails = 0 /\ listed /\ local'[p].kind = "file" /\ local'[p] = OnCard(p)'
    BY <1>1, <1>4, <1>6, <1>12 DEF Kept
  <2>2. ASSUME pc = "files", NEW q \in Rels, q \notin todo', OnCard(q)'.kind = "file" PROVE Same(q)'
    <3>1. CASE q = p
      BY <2>1, <3>1 DEF Same
    <3>2. CASE q # p
      <4>1. OnCard(q).kind = "file" /\ q \notin todo /\ mode = 2
        BY <1>1, <1>12, <2>2, <3>2
      <4>2. Same(q)
        BY <2>1, <2>2, <4>1 DEF Inv, Handled
      <4> QED
        BY <1>1, <1>4, <1>7, <1>12, <3>2, <4>2 DEF Same
    <3> QED
      BY <3>1, <3>2
  <2>3. ASSUME pc = "both", NEW q \in Rels, q \notin edited, q \notin todo' PROVE Settled(q)'
    <3>1. CASE q = p
      BY <2>1, <3>1 DEF Settled
    <3>2. CASE q # p
      <4>1. Settled(q)
        BY <1>1, <2>1, <2>3, <3>2 DEF Inv, Handled
      <4>2. local'[q] = local[q]
        BY <1>4, <1>7, <3>2
      <4> QED
        BY <1>1, <1>12, <4>1, <4>2 DEF Settled, FilesOf
    <3> QED
      BY <3>1, <3>2
  <2> QED
    BY <1>1, <2>2, <2>3
<1> QED
  BY <1>10, <1>11, <1>13, <1>14, <1>16, <1>17, <1>18, <1>19, <1>20 DEF Inv

(* A path that both sides have, and that is no conflict, is left alone. *)
LEMMA LoopNothing ==
  ASSUME Inv, Loop, NEW p, p = First(todo), UNCHANGED <<local, card, instep, fails, broken>>,
         pc = "both", p \in DOMAIN litems, p \in DOMAIN sitems,
         ~(litems[p].kind = "file" /\ sitems[p].kind = "file" /\ Size(litems[p]) # Size(sitems[p]))
  PROVE  Inv'
<1>1. /\ p \in todo /\ p \in Rels /\ todo' = todo \ {p} /\ pc' = pc /\ pc' # "idle" /\ mode' = mode
      /\ UNCHANGED <<litems, sitems, ret, interrupt, listed, edited>> /\ todo \subseteq Rels /\ mode = 3
  BY LoopFacts
<1>2. Types /\ ModeOf
  BY DEF Inv
<1>3. Types' /\ ModeOf' /\ Snapshot'
  BY <1>1 DEF Inv, Types, ModeOf, Snapshot
<1>4. \A q \in Rels : OnCard(q)' = OnCard(q)
  BY DEF OnCard
<1>5. Counted'
  BY <1>1, CountedStep
<1>6. DOMAIN sitems \subseteq Rels
  BY <1>2 DEF Types
<1>7. Seen'
  BY <1>1, <1>4, <1>6 DEF Inv, Seen, Current
<1>8. Complete'
  BY <1>1, <1>4 DEF Inv, Complete
<1>9. SyncedFiles'
  BY <1>1, Busy
<1>10. Whole'
  BY <1>4 DEF Inv, Whole
<1>11. Handled'
  <2> SUFFICES ASSUME instep, fails = 0, listed, NEW q \in Rels, q \notin edited, q \notin todo'
               PROVE  Settled(q)'
    BY <1>1 DEF Handled
  <2>1. Settled(q)
    <3>1. CASE q # p
      BY <1>1, <3>1 DEF Inv, Handled
    <3>2. CASE q = p
      <4>1. local[p] = litems[p] /\ litems[p].kind # "none"
        BY <1>1, <3>2 DEF Inv, Snapshot
      <4>2. OnCard(p) = sitems[p] /\ sitems[p].kind # "none"
        BY <1>1 DEF Inv, Seen, Current
      <4> QED
        BY <3>2, <4>1, <4>2 DEF Settled
    <3> QED
      BY <3>1, <3>2
  <2> QED
    BY <1>1, <1>4, <2>1 DEF Settled, FilesOf
<1> QED
  BY <1>3, <1>5, <1>7, <1>8, <1>9, <1>10, <1>11 DEF Inv

(* What the loops do with one path, by mode and by what the snapshots say of it. *)
Untouched(p) ==
    /\ pc = "both" /\ p \in DOMAIN litems /\ p \in DOMAIN sitems
    /\ ~(litems[p].kind = "file" /\ sitems[p].kind = "file" /\ Size(litems[p]) # Size(sitems[p]))
    /\ UNCHANGED <<local, card, instep, fails, broken>>
MakesOnCard(p) ==
    /\ DoMkdir(p)
    /\ \/ pc = "dirs" /\ mode = 1
       \/ pc = "both" /\ p \in DOMAIN litems /\ p \notin DOMAIN sitems /\ litems[p].kind = "dir"
MakesLocal(p) ==
    /\ CreateDirectories(p) /\ UNCHANGED <<card, instep, fails, broken>>
    /\ \/ pc = "dirs" /\ mode = 2
       \/ pc = "both" /\ p \notin DOMAIN litems /\ p \in DOMAIN sitems /\ sitems[p].kind = "dir"
Pushes(p) ==
    DoSdUpload(p) /\ ((pc = "files" /\ mode = 1) \/ (pc = "both" /\ p \in DOMAIN litems))
Pulls(p) ==
    /\ DoSdDownload(p)
    /\ \/ pc = "files" /\ mode = 2
       \/ pc = "both" /\ p \notin DOMAIN litems /\ p \in DOMAIN sitems

(* What one turn of the loop does with its path. *)
LEMMA LoopCases ==
  ASSUME Inv, Loop, NEW p, p = First(todo)
  PROVE  Untouched(p) \/ MakesOnCard(p) \/ MakesLocal(p) \/ Pushes(p) \/ Pulls(p)
<1>1. /\ Handle(p) /\ p \in todo
      /\ (pc = "both" /\ mode = 3) \/ (pc \in {"dirs", "files"} /\ mode \in {1, 2})
  BY LoopFacts
<1>2. CASE pc = "dirs"
  BY <1>1, <1>2 DEF Handle, MakesOnCard, MakesLocal
<1>3. CASE pc = "files"
  BY <1>1, <1>3 DEF Handle, Pushes, Pulls
<1>4. CASE pc = "both"
  <2>1. OneOfBoth(p)
    BY <1>1, <1>4 DEF Handle
  <2>2. p \in DOMAIN litems \/ p \in DOMAIN sitems
    BY <1>1, <1>4 DEF Inv, ModeOf
  <2>3. CASE p \in DOMAIN litems /\ p \in DOMAIN sitems
    <3>1. IF litems[p].kind = "file" /\ sitems[p].kind = "file" /\ Size(litems[p]) # Size(sitems[p])
          THEN DoSdUpload(p)
          ELSE UNCHANGED <<local, card, instep, fails, broken>>
      BY <2>1, <2>3 DEF OneOfBoth
    <3> QED
      BY <1>4, <2>3, <3>1 DEF Untouched, Pushes
  <2>4. CASE p \in DOMAIN litems /\ p \notin DOMAIN sitems
    <3>1. IF litems[p].kind = "dir" THEN DoMkdir(p) ELSE DoSdUpload(p)
      BY <2>1, <2>4 DEF OneOfBoth
    <3> QED
      BY <1>4, <2>4, <3>1 DEF MakesOnCard, Pushes
  <2>5. CASE p \notin DOMAIN litems
    <3>1. IF sitems[p].kind = "dir"
          THEN CreateDirectories(p) /\ UNCHANGED <<card, instep, fails, broken>>
          ELSE DoSdDownload(p)
      BY <2>1, <2>5 DEF OneOfBoth
    <3> QED
      BY <1>4, <2>2, <2>5, <3>1 DEF MakesLocal, Pulls
  <2> QED
    BY <2>3, <2>4, <2>5
<1> QED
  BY <1>1, <1>2, <1>3, <1>4

(* A turn of the loop keeps the invariant: one case per thing it does. *)
LEMMA LoopStep == ASSUME Inv, Loop PROVE Inv'
<1>1. PICK p : p = First(todo)
  OBVIOUS
<1>2. Untouched(p) \/ MakesOnCard(p) \/ MakesLocal(p) \/ Pushes(p) \/ Pulls(p)
  BY <1>1, LoopCases
<1>3. CASE Untouched(p)
  BY <1>1, <1>3, LoopNothing DEF Untouched
<1>4. CASE MakesOnCard(p)
  BY <1>1, <1>4, LoopMkdir DEF MakesOnCard
<1>5. CASE MakesLocal(p)
  BY <1>1, <1>5, LoopCreate DEF MakesLocal
<1>6. CASE Pushes(p)
  BY <1>1, <1>6, LoopUpload DEF Pushes
<1>7. CASE Pulls(p)
  BY <1>1, <1>7, LoopDownload DEF Pulls
<1> QED
  BY <1>2, <1>3, <1>4, <1>5, <1>6, <1>7

(* Every step keeps the invariant: one case per action. *)
LEMMA InvNext == Inv /\ [Next]_vars => Inv'
<1> SUFFICES ASSUME Inv, [Next]_vars PROVE Inv'
  OBVIOUS
<1>1. CASE \E n \in 1 .. 4 : Start(n)
  BY <1>1, StartStep
<1>2. CASE Step
  BY <1>2, ListStep, ListedStep, MakeBaseStep, LoopStep, FilesStep, ReturnStep DEF Step
<1>3. CASE Signal
  BY <1>3, SignalStep
<1>4. CASE \E p \in Rels : Edit(p)
  BY <1>4, EditStep
<1>5. CASE UNCHANGED vars
  BY <1>5, StutterStep
<1> QED
  BY <1>1, <1>2, <1>3, <1>4, <1>5 DEF Next

(* The invariant holds in every state. *)
LEMMA Invariance == Spec => []Inv
  BY InvInit, InvNext, PTL DEF Spec

(* The counter of the user's edits, of which the invariant says nothing. *)
EditCount == edits \in Nat

(* The number of the user's edits is a natural number. *)
LEMMA EditsCounted == Spec => []EditCount
<1>1. Init => EditCount
  BY DEF Init, EditCount
<1>2. EditCount /\ [Next]_vars => EditCount'
  <2> SUFFICES ASSUME edits \in Nat, [Next]_vars PROVE edits' \in Nat
    BY DEF EditCount
  <2>1. edits' = edits \/ edits' = edits + 1
    BY DEF Next, Start, Step, ListSaturnDirForSync, Listed, MakeBase, Loop, Files, Return, Signal, Edit, bounds, vars
  <2> QED
    BY <2>1
<1> QED
  BY <1>1, <1>2, PTL DEF Spec

-----------------------------------------------------------------------------
(* The theorems *)

(***************************************************************************)
(* What DoSdSync returns is true, for every tree of files on both sides,   *)
(* any number of syncs in any mode, any outcome of any request and any     *)
(* changes by the user meanwhile.                                          *)
(***************************************************************************)
THEOREM SyncIsTrue == Spec => []SyncTrue
<1>1. Inv => SyncTrue
  <2> SUFFICES ASSUME Inv PROVE SyncTrue
    OBVIOUS
  <2>1. Types /\ Counted /\ ModeOf /\ SyncedFiles
    BY DEF Inv
  <2>2. fails \in Nat /\ Cardinality(Rels) \in Nat /\ pc \in {"idle", "list", "base", "dirs", "files", "both"}
    BY <2>1, Counts DEF Types
  <2>3. CASE pc \in {"files", "both"}
    <3>1. todo \subseteq Rels
      BY <2>1, <2>3 DEF Types, ModeOf
    <3>2. Cardinality(todo) \in Nat /\ fails + Cardinality(todo) =< Cardinality(Rels)
      BY <2>1, <2>3, <3>1, Counts DEF Counted
    <3>3. fails =< Cardinality(Rels)
      BY <2>2, <3>2
    <3> QED
      BY <2>1, <2>2, <3>3 DEF SyncTrue, TypeOK, Types
  <2>4. CASE pc \notin {"files", "both"}
    <3>1. fails =< Cardinality(Rels)
      BY <2>1, <2>2, <2>4 DEF Counted
    <3> QED
      BY <2>1, <2>2, <3>1 DEF SyncTrue, TypeOK, Types
  <2> QED
    BY <2>3, <2>4
<1> QED
  BY <1>1, Invariance, PTL

(***************************************************************************)
(* In a two-way sync the local side never loses: DoSdSync changes a local  *)
(* file only where the card had one and its snapshot of the local          *)
(* directory had none.                                                     *)
(***************************************************************************)
THEOREM LocalIsKept == Spec => LocalKept
<1>1. Inv /\ EditCount /\ [Next]_vars =>
        [pc = "both" /\ UNCHANGED edits =>
           \A p \in Rels : local[p].kind = "file" /\ local'[p] # local[p] =>
             p \in DOMAIN sitems \ DOMAIN litems]_vars
  <2> SUFFICES ASSUME Inv, edits \in Nat, [Next]_vars, pc = "both", edits' = edits,
                      NEW q \in Rels, local[q].kind = "file", local'[q] # local[q]
               PROVE  q \in DOMAIN sitems \ DOMAIN litems
    BY DEF EditCount
  <2>1. \A p \in Rels : ~Edit(p)
    BY DEF Edit
  <2>2. Loop
    BY <2>1 DEF Next, Start, Step, ListSaturnDirForSync, Listed, MakeBase, Files, Return, Signal, vars
  <2>3. PICK p : p = First(todo)
    OBVIOUS
  <2>4. Types /\ p \in Rels /\ q \in DOMAIN local
    BY <2>2, <2>3, LoopFacts DEF Inv, Types
  <2>5. MakesLocal(p) \/ Pulls(p)
    <3>1. Untouched(p) \/ MakesOnCard(p) \/ MakesLocal(p) \/ Pushes(p) \/ Pulls(p)
      BY <2>2, <2>3, LoopCases
    <3>2. Untouched(p) \/ MakesOnCard(p) \/ Pushes(p) => local' = local
      BY DEF Untouched, MakesOnCard, DoMkdir, Pushes, DoSdUpload
    <3> QED
      BY <3>1, <3>2
  <2>6. CASE MakesLocal(p)
    <3>1. Created(p)
      BY <2>4, <2>6, CreateEffect DEF MakesLocal, Below0
    <3> QED
      BY <2>4, <3>1 DEF Created
  <2>7. CASE Pulls(p)
    <3>1. Downloaded(p)
      BY <2>4, <2>7, DownloadEffect DEF Pulls
    <3>2. q = p
      BY <2>4, <3>1 DEF Downloaded
    <3> QED
      BY <2>7, <3>2 DEF Pulls
  <2> QED
    BY <2>5, <2>6, <2>7
<1> QED
  BY <1>1, Invariance, EditsCounted, PTL DEF Spec, LocalKept

(***************************************************************************)
(* What a sync writes to the card is a whole file of the user, unless an   *)
(* earlier download left the local file incomplete.                        *)
(***************************************************************************)
THEOREM CardGetsWholeFiles == Spec => WholeUnlessBroken
<1>1. Inv /\ [Next]_vars =>
        [\A p \in Rels :
           card'[CombineSaturnPath(p)] # OnCard(p) /\ OnCard(p)'.kind = "file" =>
             OnCard(p)'.data \in Contents \/ p \in broken]_vars
  <2> SUFFICES ASSUME Inv, [Next]_vars, NEW q \in Rels, OnCard(q)' # OnCard(q), OnCard(q)'.kind = "file",
                      q \notin broken
               PROVE  OnCard(q)'.data \in Contents
    BY DEF OnCard
  <2>1. card' # card /\ Types
    BY DEF OnCard, Inv
  <2>2. ASSUME NEW p \in Below0, \E o \in Request(Simple("mkdir", CombineSaturnPath(p))) : Take(o)
        PROVE  FALSE
    <3>1. OnCard(q)' = Dir
      BY <2>1, <2>2, MkdirEffect
    <3> QED
      BY <3>1, ItemKinds
  <2>3. ~MakeBase
    BY <2>2, CombinedBase DEF MakeBase, Below0
  <2>4. ~ListSaturnDirForSync
    <3> SUFFICES ASSUME ListSaturnDirForSync PROVE FALSE
      OBVIOUS
    <3>1. PICK d : d = First(todo)
      OBVIOUS
    <3>2. PICK o \in Request(Simple("list", CombineSaturnPath(d))) : Take(o)
      BY <3>1 DEF ListSaturnDirForSync
    <3>3. Told(o, Simple("list", CombineSaturnPath(d)), card)
      BY <2>1, <3>2, RequestTold
    <3>4. o.card = card
      BY <3>3, ListTold
    <3> QED
      BY <2>1, <3>2, <3>4 DEF Take
  <2>5. Loop
    BY <2>1, <2>3, <2>4 DEF Next, Start, Step, Listed, Files, Return, Signal, Edit, vars
  <2>6. PICK p : p = First(todo)
    OBVIOUS
  <2>7. p \in Rels
    BY <2>5, <2>6, LoopFacts
  <2>8. Pushes(p) \/ Pulls(p)
    <3>1. Untouched(p) \/ MakesOnCard(p) \/ MakesLocal(p) \/ Pushes(p) \/ Pulls(p)
      BY <2>5, <2>6, LoopCases
    <3>2. ~Untouched(p) /\ ~MakesLocal(p)
      BY <2>1 DEF Untouched, MakesLocal
    <3>3. ~MakesOnCard(p)
      BY <2>2, <2>7 DEF MakesOnCard, DoMkdir, Below0
    <3> QED
      BY <3>1, <3>2, <3>3
  <2>9. ~Pulls(p)
    <3> SUFFICES ASSUME Pulls(p) PROVE FALSE
      OBVIOUS
    <3>1. Downloaded(p)
      BY <2>1, <2>7, DownloadEffect DEF Pulls
    <3> QED
      BY <2>1, <3>1 DEF Downloaded
  <2>10. Uploaded(p)
    BY <2>1, <2>7, <2>8, <2>9, UploadEffect DEF Pushes
  <2>11. q = p /\ local[q].kind = "file" /\ OnCard(q)' = local[q]
    BY <2>10 DEF Uploaded
  <2> QED
    BY <2>11 DEF Inv, Whole
<1> QED
  BY <1>1, Invariance, PTL DEF Spec, WholeUnlessBroken

=============================================================================
