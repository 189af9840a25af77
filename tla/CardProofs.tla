----------------------------- MODULE CardProofs -----------------------------
(***************************************************************************)
(* Facts about the card that the proofs of its clients share: paths and    *)
(* their prefixes, what each request does, that every request the console  *)
(* carries out keeps the card a tree, and what a caller can be told.       *)
(***************************************************************************)
EXTENDS Card, SequenceTheorems, TLAPS

Path == Seq(STRING)

(* The first n names of a path. *)
LEMMA Initial ==
  ASSUME NEW p \in Path, NEW n \in 0 .. Len(p)
  PROVE  /\ SubSeq(p, 1, n) \in Path /\ Len(SubSeq(p, 1, n)) = n
         /\ \A i \in 1 .. n : SubSeq(p, 1, n)[i] = p[i]
<1>1. Len(p) \in Nat /\ \A i \in 1 .. Len(p) : p[i] \in STRING
  BY LenProperties, ElementOfSeq DEF Path
<1>2. \A i \in 1 .. n : p[i] \in STRING
  BY <1>1
<1> QED
  BY <1>1, <1>2, SubSeqProperties DEF Path

(* The rest of a path. *)
LEMMA Final ==
  ASSUME NEW p \in Path, NEW n \in 0 .. Len(p)
  PROVE  /\ SubSeq(p, n + 1, Len(p)) \in Path /\ Len(SubSeq(p, n + 1, Len(p))) = Len(p) - n
         /\ \A i \in 1 .. (Len(p) - n) : SubSeq(p, n + 1, Len(p))[i] = p[n + i]
<1>1. Len(p) \in Nat /\ \A i \in 1 .. Len(p) : p[i] \in STRING
  BY LenProperties, ElementOfSeq DEF Path
<1>2. \A i \in (n + 1) .. Len(p) : p[i] \in STRING
  BY <1>1
<1> QED
  BY <1>1, <1>2, SubSeqProperties DEF Path

(* Two paths that agree at every place are one. *)
LEMMA SamePath ==
  ASSUME NEW p \in Path, NEW q \in Path, Len(p) = Len(q), \A i \in 1 .. Len(p) : p[i] = q[i]
  PROVE  p = q
  BY SeqEqual DEF Path

(* A prefix of a path, name by name. *)
LEMMA PrefixByNames ==
  ASSUME NEW p \in Path, NEW q \in Path
  PROVE  IsPrefix(p, q) <=> Len(p) =< Len(q) /\ \A i \in 1 .. Len(p) : p[i] = q[i]
<1>1. Len(p) \in Nat /\ Len(q) \in Nat
  BY LenProperties DEF Path
<1>2. SubSeq(p, 1, Len(p)) \in Path /\ Len(SubSeq(p, 1, Len(p))) = Len(p)
      /\ \A i \in 1 .. Len(p) : SubSeq(p, 1, Len(p))[i] = p[i]
  BY <1>1, Initial
<1>3. CASE Len(p) =< Len(q)
  <2>1. SubSeq(q, 1, Len(p)) \in Path /\ Len(SubSeq(q, 1, Len(p))) = Len(p)
        /\ \A i \in 1 .. Len(p) : SubSeq(q, 1, Len(p))[i] = q[i]
    BY <1>1, <1>3, Initial
  <2>2. SubSeq(p, 1, Len(p)) = SubSeq(q, 1, Len(p)) <=> \A i \in 1 .. Len(p) : p[i] = q[i]
    <3> DEFINE a == SubSeq(p, 1, Len(p))
               b == SubSeq(q, 1, Len(p))
    <3>1. /\ a \in Path /\ b \in Path /\ Len(a) = Len(p) /\ Len(b) = Len(p)
          /\ \A i \in 1 .. Len(p) : a[i] = p[i] /\ b[i] = q[i]
      BY <1>2, <2>1
    <3> HIDE DEF a, b
    <3>2. a = b <=> \A i \in 1 .. Len(p) : p[i] = q[i]
      BY <3>1, SamePath
    <3> QED
      BY <3>2 DEF a, b
  <2> QED
    BY <1>3, <2>2 DEF IsPrefix
<1>4. CASE ~(Len(p) =< Len(q))
  BY <1>4 DEF IsPrefix
<1> QED
  BY <1>3, <1>4

(* The first k names of the first n names are the first k names. *)
LEMMA InitialOfInitial ==
  ASSUME NEW p \in Path, NEW n \in 0 .. Len(p), NEW k \in 0 .. n
  PROVE  SubSeq(SubSeq(p, 1, n), 1, k) = SubSeq(p, 1, k)
<1> DEFINE a == SubSeq(p, 1, n)
           b == SubSeq(p, 1, k)
           c == SubSeq(a, 1, k)
<1>1. Len(p) \in Nat /\ k \in 0 .. Len(p)
  BY LenProperties DEF Path
<1>2. a \in Path /\ Len(a) = n /\ \A i \in 1 .. n : a[i] = p[i]
  BY Initial
<1>3. b \in Path /\ Len(b) = k /\ \A i \in 1 .. k : b[i] = p[i]
  BY <1>1, Initial
<1> HIDE DEF a
<1>4. c \in Path /\ Len(c) = k /\ \A i \in 1 .. k : c[i] = a[i]
  BY <1>2, Initial
<1> HIDE DEF b, c
<1>5. \A i \in 1 .. k : c[i] = b[i]
  BY <1>2, <1>3, <1>4
<1>6. c = b
  BY <1>3, <1>4, <1>5, SamePath
<1> QED
  BY <1>6 DEF a, b, c

(* A path begins with its own first names, and prefixes of prefixes are prefixes. *)
LEMMA InitialIsPrefix ==
  ASSUME NEW p \in Path, NEW n \in 0 .. Len(p)
  PROVE  IsPrefix(SubSeq(p, 1, n), p)
<1> DEFINE a == SubSeq(p, 1, n)
<1>1. Len(p) \in Nat /\ a \in Path /\ Len(a) = n /\ \A i \in 1 .. n : a[i] = p[i]
  BY Initial, LenProperties DEF Path
<1> HIDE DEF a
<1>2. IsPrefix(a, p)
  BY <1>1, PrefixByNames
<1> QED
  BY <1>2 DEF a

(* A prefix of a path is its first names. *)
LEMMA PrefixIsInitial ==
  ASSUME NEW p \in Path, NEW q \in Path, IsPrefix(p, q)
  PROVE  Len(p) \in 0 .. Len(q) /\ p = SubSeq(q, 1, Len(p))
<1>1. Len(p) \in Nat /\ Len(q) \in Nat /\ Len(p) =< Len(q) /\ \A i \in 1 .. Len(p) : p[i] = q[i]
  BY PrefixByNames, LenProperties DEF Path
<1> DEFINE a == SubSeq(q, 1, Len(p))
<1>2. a \in Path /\ Len(a) = Len(p) /\ \A i \in 1 .. Len(p) : a[i] = q[i]
  BY <1>1, Initial
<1> HIDE DEF a
<1>3. p = a
  BY <1>1, <1>2, SamePath
<1> QED
  BY <1>1, <1>3 DEF a

(* A directory above a directory above an item is above the item. *)
LEMMA PrefixTransitive ==
  ASSUME NEW p \in Path, NEW q \in Path, NEW r \in Path, IsPrefix(p, q), IsPrefix(q, r)
  PROVE  IsPrefix(p, r)
<1>1. Len(p) \in Nat /\ Len(q) \in Nat /\ Len(r) \in Nat
  BY LenProperties DEF Path
<1>2. /\ Len(p) =< Len(q) /\ \A i \in 1 .. Len(p) : p[i] = q[i]
      /\ Len(q) =< Len(r) /\ \A i \in 1 .. Len(q) : q[i] = r[i]
  BY PrefixByNames
<1>3. Len(p) =< Len(r) /\ \A i \in 1 .. Len(p) : p[i] = r[i]
  BY <1>1, <1>2
<1> QED
  BY <1>3, PrefixByNames

(* A prefix goes on as the whole path does. *)
LEMMA Extended ==
  ASSUME NEW p \in Path, NEW q \in Path
  PROVE  /\ p \o q \in Path /\ Len(p \o q) = Len(p) + Len(q)
         /\ \A i \in 1 .. Len(p) + Len(q) : (p \o q)[i] = IF i =< Len(p) THEN p[i] ELSE q[i - Len(p)]
  BY ConcatProperties DEF Path

(* A path is a prefix of every path that continues it. *)
LEMMA PrefixOfExtended ==
  ASSUME NEW p \in Path, NEW q \in Path PROVE IsPrefix(p, p \o q)
<1> DEFINE r == p \o q
<1>1. Len(p) \in Nat /\ Len(q) \in Nat
  BY LenProperties DEF Path
<1>2. r \in Path /\ Len(r) = Len(p) + Len(q) /\ \A i \in 1 .. Len(p) : r[i] = p[i]
  BY <1>1, Extended
<1> HIDE DEF r
<1>3. IsPrefix(p, r)
  BY <1>1, <1>2, PrefixByNames
<1> QED
  BY <1>3 DEF r

-----------------------------------------------------------------------------
(* The card stays a tree *)

(* The kinds of the three items. *)
LEMMA ItemKinds ==
  /\ None.kind = "none" /\ Dir.kind = "dir" /\ \A d : File(d).kind = "file" /\ File(d).data = d
  BY DEF None, Dir, File

Item(x) == x \in {None, Dir} \/ x = File(x.data)

(* An item is determined by its kind and, for a file, its data. *)
LEMMA Items ==
  /\ Item(None) /\ Item(Dir) /\ \A d : Item(File(d))
  /\ \A x : Item(x) => /\ x.kind \in {"none", "dir", "file"}
                       /\ x.kind = "none" => x = None
                       /\ x.kind = "dir" => x = Dir
                       /\ x.kind = "file" => x = File(x.data)
  BY ItemKinds DEF Item

(* The parts of IsTree. *)
LEMMA TreeParts ==
  ASSUME NEW c
  PROVE  IsTree(c) <=>
           /\ \A p \in DOMAIN c : p \in Path /\ p # <<>> /\ Item(c[p])
           /\ \A p \in DOMAIN c : \A n \in 1 .. (Len(p) - 1) :
                /\ SubSeq(p, 1, n) \in DOMAIN c
                /\ c[p].kind # "none" => c[SubSeq(p, 1, n)].kind = "dir"
  BY DEF IsTree, Path, Item

(* One item of a tree is changed. *)
LEMMA ChangedTree ==
  ASSUME NEW c, IsTree(c), NEW path \in DOMAIN c, NEW x, Item(x),
         x.kind # "none" => \A n \in 1 .. (Len(path) - 1) : c[SubSeq(path, 1, n)].kind = "dir",
         x.kind # "dir" => \A p \in DOMAIN c : \A n \in 1 .. (Len(p) - 1) :
                              c[p].kind # "none" => SubSeq(p, 1, n) # path
  PROVE  IsTree([c EXCEPT ![path] = x])
<1> DEFINE d == [c EXCEPT ![path] = x]
<1>1. DOMAIN d = DOMAIN c /\ d[path] = x /\ \A p \in DOMAIN c : p # path => d[p] = c[p]
  OBVIOUS
<1> HIDE DEF d
<1>2. \A p \in DOMAIN d : p \in Path /\ p # <<>> /\ Item(d[p])
  BY <1>1, TreeParts
<1>3. ASSUME NEW p \in DOMAIN d, NEW n \in 1 .. (Len(p) - 1)
      PROVE  SubSeq(p, 1, n) \in DOMAIN d /\ (d[p].kind # "none" => d[SubSeq(p, 1, n)].kind = "dir")
  <2> DEFINE a == SubSeq(p, 1, n)
  <2>1. a \in DOMAIN c /\ (c[p].kind # "none" => c[a].kind = "dir")
    BY <1>1, TreeParts
  <2>2. a # p
    <3>1. p \in Path /\ Len(p) \in Nat
      BY <1>2, LenProperties DEF Path
    <3>2. Len(a) = n
      BY <3>1, Initial
    <3> QED
      BY <3>1, <3>2
  <2>3. d[p].kind # "none" => d[a].kind = "dir"
    <3>1. CASE p = path
      <4>1. x.kind # "none" => c[a].kind = "dir"
        BY <3>1
      <4> HIDE DEF a
      <4> QED
        BY <1>1, <2>1, <2>2, <3>1, <4>1
    <3>2. CASE p # path /\ a = path
      <4>1. x.kind # "dir" => c[p].kind = "none"
        BY <1>1, <3>2
      <4> HIDE DEF a
      <4> QED
        BY <1>1, <3>2, <4>1
    <3>3. CASE p # path /\ a # path
      <4> HIDE DEF a
      <4> QED
        BY <1>1, <2>1, <3>3
    <3> QED
      BY <3>1, <3>2, <3>3
  <2> QED
    BY <1>1, <2>1, <2>3
<1>4. IsTree(d)
  BY <1>2, <1>3, TreeParts
<1> QED
  BY <1>4 DEF d

(* All that lies above a path whose parent is a directory is one. *)
LEMMA Above ==
  ASSUME NEW c, IsTree(c), NEW path \in DOMAIN c, Kind(c, Front(path)) = "dir"
  PROVE  \A n \in 1 .. (Len(path) - 1) : c[SubSeq(path, 1, n)].kind = "dir"
<1> SUFFICES ASSUME NEW n \in 1 .. (Len(path) - 1) PROVE c[SubSeq(path, 1, n)].kind = "dir"
  OBVIOUS
<1>1. path \in Path /\ Len(path) \in Nat /\ Len(path) > 1
  BY TreeParts, LenProperties DEF Path
<1> DEFINE f == SubSeq(path, 1, Len(path) - 1)
<1>2. f \in Path /\ Len(f) = Len(path) - 1 /\ f \in DOMAIN c
  <2>1. Len(path) - 1 \in 0 .. Len(path) /\ Len(path) - 1 \in 1 .. (Len(path) - 1)
    BY <1>1
  <2> QED
    BY <1>1, <2>1, Initial, TreeParts
<1>3. f # <<>>
  <2>1. Len(f) > 0
    BY <1>1, <1>2
  <2> HIDE DEF f
  <2> QED
    BY <2>1
<1>4. c[f].kind = "dir"
  BY <1>2, <1>3 DEF Kind, Front
<1>5. CASE n = Len(path) - 1
  BY <1>4, <1>5
<1>6. CASE n # Len(path) - 1
  <2>1. n \in 1 .. (Len(f) - 1) /\ Len(path) - 1 \in 0 .. Len(path) /\ n \in 0 .. (Len(path) - 1)
    BY <1>1, <1>2, <1>6
  <2>2. SubSeq(f, 1, n) = SubSeq(path, 1, n)
    BY <1>1, <2>1, InitialOfInitial
  <2>3. c[SubSeq(f, 1, n)].kind = "dir"
    <3> HIDE DEF f
    <3> QED
      BY <1>2, <1>4, <2>1, TreeParts
  <2> QED
    BY <2>2, <2>3
<1> QED
  BY <1>5, <1>6

(* Nothing lies below what is not a directory, or an empty one. *)
LEMMA Below ==
  ASSUME NEW c, IsTree(c), NEW path \in DOMAIN c, c[path].kind # "dir" \/ Children(c, path) = {},
         NEW p \in DOMAIN c, NEW n \in 1 .. (Len(p) - 1), c[p].kind # "none"
  PROVE  SubSeq(p, 1, n) # path
<1>1. p \in Path /\ Len(p) \in Nat
  BY TreeParts, LenProperties DEF Path
<1>2. c[SubSeq(p, 1, n)].kind = "dir"
  BY TreeParts
<1>3. CASE Children(c, path) = {}
  <2> SUFFICES ASSUME SubSeq(p, 1, n) = path PROVE FALSE
    OBVIOUS
  <2> DEFINE a == SubSeq(p, 1, n + 1)
  <2>1. n + 1 \in 0 .. Len(p) /\ n \in 0 .. (n + 1) /\ n \in Nat
    BY <1>1
  <2>2. a \in Path /\ Len(a) = n + 1
    BY <1>1, <2>1, Initial
  <2>3. Front(a) = path
    <3>1. Len(a) - 1 = n
      BY <2>1, <2>2
    <3>2. SubSeq(a, 1, n) = SubSeq(p, 1, n)
      BY <1>1, <2>1, InitialOfInitial
    <3> QED
      BY <3>1, <3>2 DEF Front
  <2>4. a \in DOMAIN c /\ c[a].kind # "none"
    <3>1. CASE n + 1 = Len(p)
      <4>1. \A i \in 1 .. Len(p) : a[i] = p[i]
        BY <1>1, <2>1, <3>1, Initial
      <4>2. Len(a) = Len(p)
        BY <2>2, <3>1
      <4> HIDE DEF a
      <4>3. a = p
        BY <1>1, <2>2, <4>1, <4>2, SamePath
      <4> QED
        BY <4>3
    <3>2. CASE n + 1 # Len(p)
      <4>1. n + 1 \in 1 .. (Len(p) - 1)
        BY <1>1, <3>2
      <4>2. a \in DOMAIN c /\ c[a].kind = "dir"
        BY <4>1, TreeParts
      <4> QED
        BY <4>2
    <3> QED
      BY <3>1, <3>2
  <2>5. a # <<>>
    BY <2>1, <2>2
  <2> HIDE DEF a
  <2> QED
    BY <1>3, <2>3, <2>4, <2>5 DEF Children
<1> QED
  BY <1>2, <1>3

(* What lies at a path that something exists at. *)
LEMMA Existing ==
  ASSUME NEW c, NEW p, p # <<>>, Kind(c, p) # "none"
  PROVE  p \in DOMAIN c /\ c[p].kind = Kind(c, p)
  BY DEF Kind

(* A rename to where nothing is, outside of what is renamed, keeps the tree. *)
LEMMA RenamedTree ==
  ASSUME NEW c, IsTree(c), NEW p \in DOMAIN c, NEW q \in DOMAIN c,
         Kind(c, Front(q)) = "dir", ~IsPrefix(p, q)
  PROVE  IsTree(Renamed(c, p, q)) /\ DOMAIN Renamed(c, p, q) = DOMAIN c
<1> DEFINE d == Renamed(c, p, q)
           old(x) == p \o SubSeq(x, Len(q) + 1, Len(x))
<1>1. DOMAIN d = DOMAIN c
  BY DEF Renamed
<1>2. ASSUME NEW x \in DOMAIN c
      PROVE  /\ IsPrefix(q, x) /\ old(x) \in DOMAIN c => d[x] = c[old(x)]
             /\ IsPrefix(q, x) /\ old(x) \notin DOMAIN c => d[x] = None
             /\ ~IsPrefix(q, x) /\ IsPrefix(p, x) => d[x] = None
             /\ ~IsPrefix(q, x) /\ ~IsPrefix(p, x) => d[x] = c[x]
  BY DEF Renamed
<1> HIDE DEF d
<1>3. p \in Path /\ q \in Path /\ Len(p) \in Nat /\ Len(q) \in Nat /\ Len(p) > 0
  <2>1. p \in Path /\ q \in Path /\ p # <<>>
    BY TreeParts
  <2> QED
    BY <2>1, LenProperties, EmptySeq DEF Path
<1>4. ASSUME NEW x \in DOMAIN d PROVE x \in Path /\ x # <<>> /\ Item(d[x])
  <2>1. x \in Path /\ x # <<>> /\ Item(c[x]) /\ (old(x) \in DOMAIN c => Item(c[old(x)]))
    BY <1>1, TreeParts
  <2> HIDE DEF old
  <2> QED
    BY <1>1, <1>2, <2>1, Items
<1>5. ASSUME NEW x \in DOMAIN d, NEW n \in 1 .. (Len(x) - 1)
      PROVE  SubSeq(x, 1, n) \in DOMAIN d /\ (d[x].kind # "none" => d[SubSeq(x, 1, n)].kind = "dir")
  <2> DEFINE a == SubSeq(x, 1, n)
  <2>1. x \in Path /\ Len(x) \in Nat /\ n \in 0 .. Len(x)
    BY <1>4, LenProperties DEF Path
  <2>2. a \in Path /\ Len(a) = n /\ IsPrefix(a, x) /\ \A i \in 1 .. n : a[i] = x[i]
    BY <2>1, Initial, InitialIsPrefix
  <2>3. a \in DOMAIN c /\ (c[x].kind # "none" => c[a].kind = "dir")
    BY <1>1, TreeParts
  <2>4. ASSUME d[x].kind # "none" PROVE d[a].kind = "dir"
    <3>1. CASE IsPrefix(q, x) /\ n >= Len(q)
      <4> DEFINE s == SubSeq(x, Len(q) + 1, Len(x))
                 t == SubSeq(a, Len(q) + 1, Len(a))
                 m == Len(p) + n - Len(q)
                 y == p \o s
                 z == p \o t
                 w == SubSeq(y, 1, m)
      <4>1. Len(q) =< Len(x) /\ \A i \in 1 .. Len(q) : q[i] = x[i]
        BY <1>3, <2>1, <3>1, PrefixByNames
      <4>2. s \in Path /\ Len(s) = Len(x) - Len(q) /\ \A i \in 1 .. (Len(x) - Len(q)) : s[i] = x[Len(q) + i]
        BY <1>3, <2>1, <4>1, Final
      <4>3. t \in Path /\ Len(t) = n - Len(q) /\ \A i \in 1 .. (n - Len(q)) : t[i] = a[Len(q) + i]
        <5>1. Len(q) \in 0 .. Len(a)
          BY <1>3, <2>2, <3>1
        <5> HIDE DEF a
        <5> QED
          BY <2>2, <5>1, Final
      <4>4. IsPrefix(q, a)
        <5>1. Len(q) =< Len(a) /\ \A i \in 1 .. Len(q) : q[i] = a[i]
          BY <1>3, <2>1, <2>2, <3>1, <4>1
        <5> HIDE DEF a
        <5> QED
          BY <1>3, <2>2, <5>1, PrefixByNames
      <4> HIDE DEF s, t
      <4>5. y \in Path /\ Len(y) = Len(p) + Len(x) - Len(q)
            /\ \A i \in 1 .. Len(p) + Len(s) : y[i] = IF i =< Len(p) THEN p[i] ELSE s[i - Len(p)]
        BY <1>3, <2>1, <4>2, Extended
      <4>6. z \in Path /\ Len(z) = m
            /\ \A i \in 1 .. Len(p) + Len(t) : z[i] = IF i =< Len(p) THEN p[i] ELSE t[i - Len(p)]
        BY <1>3, <2>1, <4>3, Extended
      <4>7. m \in 1 .. (Len(y) - 1) /\ m \in 0 .. Len(y) /\ m \in Nat
        BY <1>3, <2>1, <3>1, <4>1, <4>5
      <4> HIDE DEF y, z, a
      <4>8. w \in Path /\ Len(w) = m /\ \A i \in 1 .. m : w[i] = y[i]
        BY <4>5, <4>7, Initial
      <4> HIDE DEF w
      <4>9. \A i \in 1 .. m : z[i] = w[i]
        <5> SUFFICES ASSUME NEW i \in 1 .. m PROVE z[i] = w[i]
          OBVIOUS
        <5>1. CASE i =< Len(p)
          <6>1. i \in 1 .. Len(p) + Len(t) /\ i \in 1 .. Len(p) + Len(s)
            BY <1>3, <2>1, <3>1, <4>1, <4>2, <4>3, <4>7, <5>1
          <6> QED
            BY <4>5, <4>6, <4>8, <5>1, <6>1
        <5>2. CASE i > Len(p)
          <6>1. /\ i \in 1 .. Len(p) + Len(t) /\ i \in 1 .. Len(p) + Len(s) /\ ~(i =< Len(p))
                /\ i - Len(p) \in 1 .. (n - Len(q)) /\ i - Len(p) \in 1 .. (Len(x) - Len(q))
                /\ Len(q) + (i - Len(p)) \in 1 .. n
            BY <1>3, <2>1, <3>1, <4>1, <4>2, <4>3, <4>7, <5>2
          <6>2. z[i] = t[i - Len(p)] /\ w[i] = s[i - Len(p)]
            BY <4>5, <4>6, <4>8, <6>1
          <6>3. t[i - Len(p)] = a[Len(q) + (i - Len(p))] /\ s[i - Len(p)] = x[Len(q) + (i - Len(p))]
            BY <4>2, <4>3, <6>1
          <6>4. a[Len(q) + (i - Len(p))] = x[Len(q) + (i - Len(p))]
            BY <2>2, <6>1
          <6> QED
            BY <6>2, <6>3, <6>4
        <5> QED
          BY <1>3, <4>7, <5>1, <5>2
      <4>10. z = w
        BY <4>6, <4>8, <4>9, SamePath
      <4>11. y = old(x) /\ z = old(a)
        BY DEF y, z, s, t
      <4> HIDE DEF old
      <4>12. y \in DOMAIN c /\ c[y].kind # "none"
        BY <1>1, <1>2, <2>4, <3>1, <4>11, ItemKinds
      <4>13. w \in DOMAIN c /\ c[w].kind = "dir"
        <5> HIDE DEF m
        <5> QED
          BY <4>7, <4>12, TreeParts DEF w
      <4> QED
        BY <1>2, <2>3, <4>4, <4>10, <4>11, <4>13
    <3>2. CASE IsPrefix(q, x) /\ n < Len(q)
      <4> DEFINE b == SubSeq(q, 1, n)
      <4>1. Len(q) =< Len(x) /\ \A i \in 1 .. Len(q) : q[i] = x[i]
        BY <1>3, <2>1, <3>2, PrefixByNames
      <4>2. n \in 0 .. Len(q) /\ n \in 1 .. (Len(q) - 1)
        BY <1>3, <2>1, <3>2
      <4>3. b \in Path /\ Len(b) = n /\ IsPrefix(b, q) /\ \A i \in 1 .. n : b[i] = q[i]
        BY <1>3, <4>2, Initial, InitialIsPrefix
      <4>4. \A i \in 1 .. Len(a) : a[i] = b[i]
        BY <1>3, <2>1, <2>2, <4>1, <4>2, <4>3
      <4> HIDE DEF a, b
      <4>5. a = b
        BY <2>2, <4>3, <4>4, SamePath
      <4>6. ~IsPrefix(p, a)
        BY <1>3, <4>3, <4>5, PrefixTransitive
      <4>7. ~IsPrefix(q, a)
        BY <1>3, <2>1, <2>2, <3>2, PrefixByNames
      <4>8. c[b].kind = "dir"
        BY <4>2, Above DEF b
      <4> QED
        BY <1>2, <2>3, <4>5, <4>6, <4>7, <4>8
    <3>3. CASE ~IsPrefix(q, x)
      <4> HIDE DEF old, a
      <4>1. ~IsPrefix(p, x) /\ d[x] = c[x]
        BY <1>1, <1>2, <2>4, <3>3, ItemKinds
      <4>2. ~IsPrefix(q, a) /\ ~IsPrefix(p, a)
        BY <1>3, <2>1, <2>2, <3>3, <4>1, PrefixTransitive
      <4> QED
        BY <1>2, <2>3, <2>4, <4>1, <4>2
    <3> QED
      BY <1>3, <2>1, <3>1, <3>2, <3>3
  <2> QED
    BY <1>1, <2>3, <2>4
<1>6. IsTree(d)
  BY <1>4, <1>5, TreeParts
<1> QED
  BY <1>1, <1>6 DEF d

(* What can be asked, what it does and what it answers, one kind of request at a time. *)
LEMMA ListRequest ==
  ASSUME NEW c, NEW p
  PROVE  LET r == Simple("list", p)
         IN  /\ Possible(r, c) = (Kind(c, p) = "dir") /\ Effect(r, c) = c
             /\ Answer(r, c) = Children(c, p) /\ NoAnswer(r) = {} /\ r.op = "list" /\ r.path = p
  BY DEF Possible, Effect, Answer, NoAnswer, Simple, Req

(* What a download requires, does and answers. *)
LEMMA DownloadRequest ==
  ASSUME NEW c, NEW p
  PROVE  LET r == Simple("download", p)
         IN  /\ Possible(r, c) = (Kind(c, p) = "file") /\ Effect(r, c) = c
             /\ Answer(r, c) = c[p].data /\ r.op = "download"
  BY DEF Possible, Effect, Answer, Simple, Req

(* What the removal of a file or a directory requires and does. *)
LEMMA RemoveRequest ==
  ASSUME NEW c, NEW p, NEW op \in {"remove", "rmdir"}
  PROVE  LET r == Simple(op, p)
         IN  /\ Possible(r, c) => p # <<>> /\ Kind(c, p) # "none" /\ Children(c, p) = {}
             /\ Effect(r, c) = [c EXCEPT ![p] = None] /\ r.op = op
<1>1. CASE op = "remove"
  BY <1>1 DEF Possible, Effect, Simple, Req
<1>2. CASE op = "rmdir"
  BY <1>2 DEF Possible, Effect, Simple, Req
<1> QED
  BY <1>1, <1>2

(* What a new directory requires and does. *)
LEMMA MkdirRequest ==
  ASSUME NEW c, NEW p
  PROVE  LET r == Simple("mkdir", p)
         IN  /\ Possible(r, c) => Kind(c, p) = "none" /\ p \in DOMAIN c /\ Kind(c, Front(p)) = "dir"
             /\ Effect(r, c) = [c EXCEPT ![p] = Dir] /\ r.op = "mkdir"
  BY DEF Possible, Effect, Simple, Req

(* What an upload requires and does. *)
LEMMA UploadRequest ==
  ASSUME NEW c, NEW p, NEW d
  PROVE  LET r == Req("upload", p, p, d)
         IN  /\ Possible(r, c) => Kind(c, p) # "dir" /\ p \in DOMAIN c /\ Kind(c, Front(p)) = "dir"
             /\ Effect(r, c) = [c EXCEPT ![p] = File(d)] /\ r.op = "upload"
  BY DEF Possible, Effect, Req

(* What a rename requires and does. *)
LEMMA RenameRequest ==
  ASSUME NEW c, NEW p, NEW q
  PROVE  LET r == Req("rename", p, q, <<>>)
         IN  /\ Possible(r, c) => /\ p # <<>> /\ Kind(c, p) # "none" /\ Kind(c, q) = "none"
                                  /\ q \in DOMAIN c /\ Kind(c, Front(q)) = "dir" /\ ~IsPrefix(p, q)
             /\ Effect(r, c) = Renamed(c, p, q) /\ r.op = "rename"
  BY DEF Possible, Effect, Req

(* A request that the console carries out keeps the tree. *)
LEMMA RemoveTree ==
  ASSUME NEW c, IsTree(c), NEW p, NEW op \in {"remove", "rmdir"}, Possible(Simple(op, p), c)
  PROVE  /\ p \in DOMAIN c /\ DOMAIN Effect(Simple(op, p), c) = DOMAIN c
         /\ IsTree(Effect(Simple(op, p), c))
<1>1. p # <<>> /\ Kind(c, p) # "none" /\ Children(c, p) = {} /\ Effect(Simple(op, p), c) = [c EXCEPT ![p] = None]
  BY RemoveRequest
<1>2. p \in DOMAIN c
  BY <1>1, Existing
<1>3. \A x \in DOMAIN c : \A n \in 1 .. (Len(x) - 1) : c[x].kind # "none" => SubSeq(x, 1, n) # p
  BY <1>1, <1>2, Below
<1>4. IsTree([c EXCEPT ![p] = None])
  BY <1>2, <1>3, ChangedTree, ItemKinds, Items
<1> QED
  BY <1>1, <1>2, <1>4

(* A new directory leaves the card a tree. *)
LEMMA MkdirTree ==
  ASSUME NEW c, IsTree(c), NEW p, Possible(Simple("mkdir", p), c)
  PROVE  /\ p \in DOMAIN c /\ DOMAIN Effect(Simple("mkdir", p), c) = DOMAIN c
         /\ IsTree(Effect(Simple("mkdir", p), c))
<1>1. p \in DOMAIN c /\ Kind(c, Front(p)) = "dir" /\ Effect(Simple("mkdir", p), c) = [c EXCEPT ![p] = Dir]
  BY MkdirRequest
<1>2. \A n \in 1 .. (Len(p) - 1) : c[SubSeq(p, 1, n)].kind = "dir"
  BY <1>1, Above
<1>3. IsTree([c EXCEPT ![p] = Dir])
  BY <1>1, <1>2, ChangedTree, ItemKinds, Items
<1> QED
  BY <1>1, <1>3

(* An uploaded file leaves the card a tree. *)
LEMMA UploadTree ==
  ASSUME NEW c, IsTree(c), NEW p, NEW d, Possible(Req("upload", p, p, d), c)
  PROVE  /\ p \in DOMAIN c /\ DOMAIN Effect(Req("upload", p, p, d), c) = DOMAIN c
         /\ IsTree(Effect(Req("upload", p, p, d), c))
<1>1. /\ p \in DOMAIN c /\ Kind(c, Front(p)) = "dir" /\ Kind(c, p) # "dir"
      /\ Effect(Req("upload", p, p, d), c) = [c EXCEPT ![p] = File(d)]
  BY UploadRequest
<1>2. \A n \in 1 .. (Len(p) - 1) : c[SubSeq(p, 1, n)].kind = "dir"
  BY <1>1, Above
<1>3. c[p].kind # "dir"
  BY <1>1 DEF Kind
<1>4. \A x \in DOMAIN c : \A n \in 1 .. (Len(x) - 1) : c[x].kind # "none" => SubSeq(x, 1, n) # p
  BY <1>1, <1>3, Below
<1>5. IsTree([c EXCEPT ![p] = File(d)])
  BY <1>1, <1>2, <1>4, ChangedTree, ItemKinds, Items
<1> QED
  BY <1>1, <1>5

(* A rename leaves the card a tree. *)
LEMMA RenameTree ==
  ASSUME NEW c, IsTree(c), NEW p, NEW q, Possible(Req("rename", p, q, <<>>), c)
  PROVE  /\ p \in DOMAIN c /\ q \in DOMAIN c /\ DOMAIN Effect(Req("rename", p, q, <<>>), c) = DOMAIN c
         /\ IsTree(Effect(Req("rename", p, q, <<>>), c))
<1>1. /\ p # <<>> /\ Kind(c, p) # "none" /\ q \in DOMAIN c /\ Kind(c, Front(q)) = "dir" /\ ~IsPrefix(p, q)
      /\ Effect(Req("rename", p, q, <<>>), c) = Renamed(c, p, q)
  BY RenameRequest
<1>2. p \in DOMAIN c
  BY <1>1, Existing
<1> QED
  BY <1>1, <1>2, RenamedTree

-----------------------------------------------------------------------------
(* What a request to the console can end with *)

(* The request was carried out, and nothing of what was on the way is left. *)
Succeeded(o, r, c) == o.ret = 1 /\ Possible(r, c) /\ o.card = Effect(r, c) /\ o.answer = Answer(r, c)

(* What a request that succeeded says, on a link in step. *)
LEMMA SuccessFacts ==
  ASSUME NEW r, NEW c, NEW o \in Successes(r, c)
  PROVE  Succeeded(o, r, c) /\ o.instep = TRUE
<1>1. Possible(r, c) /\ o = Outcome(1, Effect(r, c), Answer(r, c), TRUE)
  BY DEF Successes
<1> QED
  BY <1>1 DEF Succeeded, Outcome

(* What every outcome has in common: a link that is still in step has told the truth, and *)
(* a listing never tells of what is not there. *)
Told(o, r, c) ==
    /\ o.ret \in {0, 1} /\ o.instep \in BOOLEAN
    /\ o.instep => Succeeded(o, r, c) \/ (o.ret = 0 /\ o.card = c)
    /\ o.card = c \/ (Possible(r, c) /\ o.card = Effect(r, c))
    /\ r.op = "list" /\ o.ret = 1 => o.answer \subseteq Children(c, r.path)

(* Every outcome of a request, also one that failed or lost step, is told. *)
LEMMA OutcomeTold ==
  ASSUME NEW r, NEW c, NEW s \in BOOLEAN, NEW i \in BOOLEAN, NEW o \in Outcomes(r, c, s, i)
  PROVE  Told(o, r, c) /\ (o.instep => s) /\ (s /\ o.ret = 1 /\ r.op # "list" => o.instep)
<1> DEFINE Cards2 == {c} \union {x.card : x \in Successes(r, c)}
<1>1. \A e \in Cards2 : e = c \/ (Possible(r, c) /\ e = Effect(r, c))
  BY SuccessFacts DEF Succeeded
<1> HIDE DEF Cards2
<1>2. CASE o \in Failures(r, c)
  <2>1. PICK e \in Cards2 : o = Outcome(0, e, NoAnswer(r), FALSE)
    BY <1>2 DEF Failures, Cards2
  <2>2. o.ret = 0 /\ o.card = e
    BY <2>1 DEF Outcome
  <2>3. o.instep = FALSE
    BY <2>1 DEF Outcome
  <2>4. o.ret # 1 /\ o.ret \in {0, 1}
    BY <2>2
  <2>5. Told(o, r, c)
    BY <1>1, <2>2, <2>3, <2>4 DEF Told
  <2> QED
    BY <2>3, <2>4, <2>5
<1>3. CASE ~s /\ o \in Muddled(r, c)
  <2>1. PICK ret \in {0, 1}, e \in Cards2 : o = Outcome(ret, e, NoAnswer(r), FALSE)
    BY <1>3 DEF Muddled, Outcome, Cards2
  <2>2. o.ret = ret /\ o.card = e /\ o.answer = NoAnswer(r)
    BY <2>1 DEF Outcome
  <2>3. o.instep = FALSE
    BY <2>1 DEF Outcome
  <2>4. r.op = "list" => o.answer = {}
    BY <2>2 DEF NoAnswer
  <2>5. Told(o, r, c)
    BY <1>1, <2>2, <2>3, <2>4 DEF Told
  <2> QED
    BY <1>3, <2>3, <2>5
<1>4. CASE s /\ o \in Successes(r, c)
  <2>1. Succeeded(o, r, c) /\ o.instep = TRUE
    BY <1>4, SuccessFacts
  <2>2. o.ret \in {0, 1} /\ Possible(r, c) /\ o.card = Effect(r, c) /\ o.answer = Answer(r, c)
    BY <2>1 DEF Succeeded
  <2>3. r.op = "list" => o.answer = Children(c, r.path)
    BY <2>2 DEF Answer
  <2>4. Told(o, r, c)
    BY <2>1, <2>2, <2>3 DEF Told
  <2> QED
    BY <1>4, <2>1, <2>4
<1>5. CASE s /\ o \in Refusals(r, c)
  <2>1. o = Outcome(0, c, NoAnswer(r), TRUE)
    BY <1>5 DEF Refusals
  <2>2. o.ret = 0 /\ o.card = c
    BY <2>1 DEF Outcome
  <2>3. o.instep = TRUE
    BY <2>1 DEF Outcome
  <2>4. o.ret # 1 /\ o.ret \in {0, 1}
    BY <2>2
  <2>5. o.instep \in BOOLEAN
    BY <2>3, Zenon
  <2>6. Told(o, r, c)
    <3>1. o.instep => Succeeded(o, r, c) \/ (o.ret = 0 /\ o.card = c)
      BY <2>2
    <3>2. r.op = "list" /\ o.ret = 1 => o.answer \subseteq Children(c, r.path)
      BY <2>4
    <3> QED
      BY <2>2, <2>4, <2>5, <3>1, <3>2 DEF Told
  <2> QED
    BY <1>5, <2>4, <2>6
<1>6. CASE o \in CutListings(r, c)
  <2>1. r.op = "list"
    BY <1>6 DEF CutListings
  <2>2. PICK a \in SUBSET Children(c, r.path) : o = Outcome(1, c, a, FALSE)
    BY <1>6, <2>1 DEF CutListings
  <2>3. o.ret = 1 /\ o.card = c /\ o.answer = a
    BY <2>2 DEF Outcome
  <2>4. o.instep = FALSE
    BY <2>2 DEF Outcome
  <2>5. Told(o, r, c)
    BY <2>3, <2>4 DEF Told
  <2> QED
    BY <2>1, <2>4, <2>5
<1> QED
  BY <1>2, <1>3, <1>4, <1>5, <1>6 DEF Outcomes

(* What that means for each kind of request. *)
LEMMA ListTold ==
  ASSUME NEW c, NEW p, NEW o, Told(o, Simple("list", p), c)
  PROVE  /\ o.ret \in {0, 1} /\ o.instep \in BOOLEAN /\ o.card = c
         /\ o.ret = 1 => o.answer \subseteq Children(c, p)
         /\ o.ret = 1 /\ o.instep => o.answer = Children(c, p)
<1> DEFINE r == Simple("list", p)
<1>1. Effect(r, c) = c /\ Answer(r, c) = Children(c, p) /\ r.op = "list" /\ r.path = p
  BY ListRequest
<1>2. Told(o, r, c)
  OBVIOUS
<1> HIDE DEF r
<1>3. o.ret \in {0, 1} /\ o.instep \in BOOLEAN /\ o.card = c /\ (o.ret = 1 => o.answer \subseteq Children(c, p))
  BY <1>1, <1>2 DEF Told
<1>4. o.ret = 1 /\ o.instep => o.answer = Children(c, p)
  BY <1>1, <1>2 DEF Told, Succeeded
<1> QED
  BY <1>3, <1>4

(* What is known after a download, by what it returned. *)
LEMMA DownloadTold ==
  ASSUME NEW c, IsTree(c), NEW p, NEW o, Told(o, Simple("download", p), c)
  PROVE  /\ o.ret \in {0, 1} /\ o.instep \in BOOLEAN /\ o.card = c
         /\ o.instep /\ o.ret = 1 => p \in DOMAIN c /\ c[p].kind = "file" /\ c[p] = File(o.answer)
<1> DEFINE r == Simple("download", p)
<1>1. Effect(r, c) = c /\ Answer(r, c) = c[p].data /\ (Possible(r, c) => Kind(c, p) = "file")
  BY DownloadRequest
<1>2. Told(o, r, c)
  OBVIOUS
<1> HIDE DEF r
<1>3. o.ret \in {0, 1} /\ o.instep \in BOOLEAN /\ o.card = c
  BY <1>1, <1>2 DEF Told
<1>4. o.instep /\ o.ret = 1 => Kind(c, p) = "file" /\ o.answer = c[p].data
  BY <1>1, <1>2 DEF Told, Succeeded
<1>5. ASSUME Kind(c, p) = "file" PROVE p \in DOMAIN c /\ c[p].kind = "file" /\ c[p] = File(c[p].data)
  <2>1. p \in DOMAIN c /\ c[p].kind = "file"
    BY <1>5 DEF Kind
  <2>2. Item(c[p])
    BY <2>1, TreeParts
  <2> QED
    BY <2>1, <2>2, Items
<1> QED
  BY <1>3, <1>4, <1>5

(* What is known after a removal, by what it returned. *)
LEMMA RemoveTold ==
  ASSUME NEW c, IsTree(c), NEW p, NEW op \in {"remove", "rmdir"}, NEW o, Told(o, Simple(op, p), c)
  PROVE  /\ o.ret \in {0, 1} /\ o.instep \in BOOLEAN /\ IsTree(o.card) /\ DOMAIN o.card = DOMAIN c
         /\ o.card = c \/ (p \in DOMAIN c /\ o.card = [c EXCEPT ![p] = None])
         /\ o.instep => (o.ret = 1 /\ p \in DOMAIN c /\ o.card = [c EXCEPT ![p] = None]) \/ (o.ret = 0 /\ o.card = c)
<1> DEFINE r == Simple(op, p)
<1>1. Possible(r, c) => DOMAIN Effect(r, c) = DOMAIN c /\ IsTree(Effect(r, c))
  BY RemoveTree
<1>2. ASSUME Possible(r, c), o.card = Effect(r, c) PROVE p \in DOMAIN c /\ o.card = [c EXCEPT ![p] = None]
  BY <1>2, RemoveTree, RemoveRequest
<1>3. Told(o, r, c)
  OBVIOUS
<1> HIDE DEF r
<1>4. o.ret \in {0, 1} /\ o.instep \in BOOLEAN /\ IsTree(o.card) /\ DOMAIN o.card = DOMAIN c
  BY <1>1, <1>3 DEF Told
<1>5. o.card = c \/ (p \in DOMAIN c /\ o.card = [c EXCEPT ![p] = None])
  BY <1>2, <1>3 DEF Told
<1>6. o.instep => (o.ret = 1 /\ p \in DOMAIN c /\ o.card = [c EXCEPT ![p] = None]) \/ (o.ret = 0 /\ o.card = c)
  BY <1>2, <1>3 DEF Told, Succeeded
<1> QED
  BY <1>4, <1>5, <1>6

(* What is known after a new directory was asked for, by what was returned. *)
LEMMA MkdirTold ==
  ASSUME NEW c, IsTree(c), NEW p, NEW o, Told(o, Simple("mkdir", p), c)
  PROVE  /\ o.ret \in {0, 1} /\ o.instep \in BOOLEAN /\ IsTree(o.card) /\ DOMAIN o.card = DOMAIN c
         /\ o.card = c \/ (p \in DOMAIN c /\ Kind(c, p) = "none" /\ o.card = [c EXCEPT ![p] = Dir])
         /\ o.instep => (o.ret = 1 /\ p \in DOMAIN c /\ Kind(c, p) = "none" /\ o.card = [c EXCEPT ![p] = Dir]) \/ (o.ret = 0 /\ o.card = c)
<1> DEFINE r == Simple("mkdir", p)
<1>1. Possible(r, c) => DOMAIN Effect(r, c) = DOMAIN c /\ IsTree(Effect(r, c))
  BY MkdirTree
<1>2. ASSUME Possible(r, c), o.card = Effect(r, c) PROVE p \in DOMAIN c /\ Kind(c, p) = "none" /\ o.card = [c EXCEPT ![p] = Dir]
  BY <1>2, MkdirTree, MkdirRequest
<1>3. Told(o, r, c)
  OBVIOUS
<1> HIDE DEF r
<1>4. o.ret \in {0, 1} /\ o.instep \in BOOLEAN /\ IsTree(o.card) /\ DOMAIN o.card = DOMAIN c
  BY <1>1, <1>3 DEF Told
<1>5. o.card = c \/ (p \in DOMAIN c /\ Kind(c, p) = "none" /\ o.card = [c EXCEPT ![p] = Dir])
  BY <1>2, <1>3 DEF Told
<1>6. o.instep => (o.ret = 1 /\ p \in DOMAIN c /\ Kind(c, p) = "none" /\ o.card = [c EXCEPT ![p] = Dir]) \/ (o.ret = 0 /\ o.card = c)
  BY <1>2, <1>3 DEF Told, Succeeded
<1> QED
  BY <1>4, <1>5, <1>6

(* What is known after an upload, by what it returned. *)
LEMMA UploadTold ==
  ASSUME NEW c, IsTree(c), NEW p, NEW d, NEW o, Told(o, Req("upload", p, p, d), c)
  PROVE  /\ o.ret \in {0, 1} /\ o.instep \in BOOLEAN /\ IsTree(o.card) /\ DOMAIN o.card = DOMAIN c
         /\ o.card = c \/ (p \in DOMAIN c /\ o.card = [c EXCEPT ![p] = File(d)])
         /\ o.instep => (o.ret = 1 /\ p \in DOMAIN c /\ o.card = [c EXCEPT ![p] = File(d)]) \/ (o.ret = 0 /\ o.card = c)
<1> DEFINE r == Req("upload", p, p, d)
<1>1. Possible(r, c) => DOMAIN Effect(r, c) = DOMAIN c /\ IsTree(Effect(r, c))
  BY UploadTree
<1>2. ASSUME Possible(r, c), o.card = Effect(r, c) PROVE p \in DOMAIN c /\ o.card = [c EXCEPT ![p] = File(d)]
  BY <1>2, UploadTree, UploadRequest
<1>3. Told(o, r, c)
  OBVIOUS
<1> HIDE DEF r
<1>4. o.ret \in {0, 1} /\ o.instep \in BOOLEAN /\ IsTree(o.card) /\ DOMAIN o.card = DOMAIN c
  BY <1>1, <1>3 DEF Told
<1>5. o.card = c \/ (p \in DOMAIN c /\ o.card = [c EXCEPT ![p] = File(d)])
  BY <1>2, <1>3 DEF Told
<1>6. o.instep => (o.ret = 1 /\ p \in DOMAIN c /\ o.card = [c EXCEPT ![p] = File(d)]) \/ (o.ret = 0 /\ o.card = c)
  BY <1>2, <1>3 DEF Told, Succeeded
<1> QED
  BY <1>4, <1>5, <1>6

RenamedTo(o, c, p, q) ==
    /\ p \in DOMAIN c /\ c[p].kind # "none" /\ q \in DOMAIN c /\ c[q].kind = "none" /\ ~IsPrefix(p, q)
    /\ o.card = Renamed(c, p, q)

(* What is known after a rename, by what it returned. *)
LEMMA RenameTold ==
  ASSUME NEW c, IsTree(c), NEW p, NEW q, NEW o, Told(o, Req("rename", p, q, <<>>), c)
  PROVE  /\ o.ret \in {0, 1} /\ o.instep \in BOOLEAN /\ IsTree(o.card) /\ DOMAIN o.card = DOMAIN c
         /\ o.card = c \/ (RenamedTo(o, c, p, q))
         /\ o.instep => (o.ret = 1 /\ RenamedTo(o, c, p, q)) \/ (o.ret = 0 /\ o.card = c)
<1> DEFINE r == Req("rename", p, q, <<>>)
<1>1. Possible(r, c) => DOMAIN Effect(r, c) = DOMAIN c /\ IsTree(Effect(r, c))
  BY RenameTree
<1>2. ASSUME Possible(r, c), o.card = Effect(r, c) PROVE RenamedTo(o, c, p, q)
  BY <1>2, RenameTree, RenameRequest DEF RenamedTo, Kind
<1>3. Told(o, r, c)
  OBVIOUS
<1> HIDE DEF r
<1>4. o.ret \in {0, 1} /\ o.instep \in BOOLEAN /\ IsTree(o.card) /\ DOMAIN o.card = DOMAIN c
  BY <1>1, <1>3 DEF Told
<1>5. o.card = c \/ (RenamedTo(o, c, p, q))
  BY <1>2, <1>3 DEF Told
<1>6. o.instep => (o.ret = 1 /\ RenamedTo(o, c, p, q)) \/ (o.ret = 0 /\ o.card = c)
  BY <1>2, <1>3 DEF Told, Succeeded
<1> QED
  BY <1>4, <1>5, <1>6

=============================================================================
