--------------------------- MODULE TomlTreeProofs ---------------------------
(***************************************************************************)
(* Paths and trees, for every tree the parser can produce: what the proofs *)
(* about both back ends rest on.                                           *)
(***************************************************************************)
EXTENDS TomlTree, SequenceTheorems, TLAPS

Path == Seq(Key)

-----------------------------------------------------------------------------
(* Paths, key by key.                                                      *)

\* A prefix has the first keys of what it is a prefix of.
LEMMA PrefixKeys ==
  ASSUME NEW s \in Path, NEW t \in Path
  PROVE  IsPrefix(s, t) <=> (Len(s) <= Len(t) /\ \A i \in 1 .. Len(s) : s[i] = t[i])
BY DEF IsPrefix, Path

\* The first keys of a path.
LEMMA FirstKeys ==
  ASSUME NEW p \in Path, NEW n \in 0 .. Len(p)
  PROVE  /\ SubSeq(p, 1, n) \in Path /\ Len(SubSeq(p, 1, n)) = n
         /\ \A i \in 1 .. n : SubSeq(p, 1, n)[i] = p[i]
BY DEF Path

\* An ancestor is a proper prefix.
LEMMA AncestorKeys ==
  ASSUME NEW p \in Path, NEW a
  PROVE  a \in Ancestors(p) <=>
           (a \in Path /\ Len(a) < Len(p) /\ \A i \in 1 .. Len(a) : a[i] = p[i])
BY DEF Ancestors, Path

\* A path with one key more.
LEMMA AppendKey ==
  ASSUME NEW s \in Path, NEW k \in Key
  PROVE  /\ Append(s, k) \in Path
         /\ Len(Append(s, k)) = Len(s) + 1
         /\ Append(s, k)[Len(s) + 1] = k
         /\ \A i \in 1 .. Len(s) : Append(s, k)[i] = s[i]
BY DEF Path

\* A path with two keys more.
LEMMA AppendTwoKeys ==
  ASSUME NEW s \in Path, NEW k \in Key, NEW l \in Key
  PROVE  /\ s \o <<k, l>> \in Path
         /\ Len(s \o <<k, l>>) = Len(s) + 2
         /\ (s \o <<k, l>>)[Len(s) + 1] = k
         /\ \A i \in 1 .. Len(s) : (s \o <<k, l>>)[i] = s[i]
<1>1. /\ <<k, l>> \in Path
      /\ Len(<<k, l>>) = 2
      /\ <<k, l>>[1] = k
      BY DEF Path
<1>2. /\ s \o <<k, l>> \in Path
      /\ Len(s \o <<k, l>>) = Len(s) + Len(<<k, l>>)
      /\ \A i \in 1 .. Len(s) + Len(<<k, l>>) :
           (s \o <<k, l>>)[i] = IF i <= Len(s) THEN s[i] ELSE <<k, l>>[i - Len(s)]
      BY <1>1, ConcatProperties DEF Path
<1>3. Len(s) \in Nat
      BY DEF Path
<1> HIDE DEF Path
<1> QED
      BY <1>1, <1>2, <1>3

-----------------------------------------------------------------------------
(* Prefixes and ancestors.                                                 *)

\* What is above a prefix of a path is above the path.
LEMMA AncestorOfPrefix ==
  ASSUME NEW p \in Path, NEW q \in Path, IsPrefix(p, q), NEW a \in Ancestors(p)
  PROVE  a \in Ancestors(q)
<1>1. Len(p) \in Nat /\ Len(q) \in Nat
      BY DEF Path
<1>2. a \in Path /\ Len(a) < Len(p) /\ \A i \in 1 .. Len(a) : a[i] = p[i]
      BY AncestorKeys
<1>3. Len(p) <= Len(q) /\ \A i \in 1 .. Len(p) : p[i] = q[i]
      BY PrefixKeys
<1>4. Len(a) \in Nat
      BY <1>2 DEF Path
<1> HIDE DEF Path
<1>5. Len(a) < Len(q) /\ \A i \in 1 .. Len(a) : a[i] = q[i]
      BY <1>1, <1>2, <1>3, <1>4
<1> QED
      BY <1>2, <1>5, AncestorKeys

\* An ancestor of a path is a prefix of it, and so is a prefix of an ancestor.
LEMMA PrefixOfAncestor ==
  ASSUME NEW p \in Path, NEW q \in Path, NEW a \in Ancestors(q), IsPrefix(p, a)
  PROVE  IsPrefix(p, q)
<1>1. a \in Path /\ Len(a) < Len(q) /\ \A i \in 1 .. Len(a) : a[i] = q[i]
      BY AncestorKeys
<1>2. Len(p) <= Len(a) /\ \A i \in 1 .. Len(p) : p[i] = a[i]
      BY <1>1, PrefixKeys
<1>3. Len(p) \in Nat /\ Len(q) \in Nat /\ Len(a) \in Nat
      BY <1>1 DEF Path
<1> HIDE DEF Path
<1>4. Len(p) <= Len(q) /\ \A i \in 1 .. Len(p) : p[i] = q[i]
      BY <1>1, <1>2, <1>3
<1> QED
      BY <1>4, PrefixKeys

\* A path is a prefix of itself, and prefixes are transitive.
LEMMA PrefixOrder ==
  /\ \A p \in Path : IsPrefix(p, p)
  /\ \A p, q, r \in Path : IsPrefix(p, q) /\ IsPrefix(q, r) => IsPrefix(p, r)
<1>1. \A p \in Path : Len(p) \in Nat
      BY DEF Path
<1> HIDE DEF Path
<1>2. ASSUME NEW p \in Path PROVE IsPrefix(p, p)
      BY <1>1, PrefixKeys
<1>3. ASSUME NEW p \in Path, NEW q \in Path, NEW r \in Path, IsPrefix(p, q), IsPrefix(q, r)
      PROVE  IsPrefix(p, r)
  <2>1. Len(p) <= Len(q) /\ \A i \in 1 .. Len(p) : p[i] = q[i]
        BY <1>3, PrefixKeys
  <2>2. Len(q) <= Len(r) /\ \A i \in 1 .. Len(q) : q[i] = r[i]
        BY <1>3, PrefixKeys
  <2>3. Len(p) <= Len(r) /\ \A i \in 1 .. Len(p) : p[i] = r[i]
        BY <1>1, <2>1, <2>2
  <2> QED
        BY <2>3, PrefixKeys
<1> QED
      BY <1>2, <1>3

\* The ancestors of an ancestor are ancestors; a path is not its own.
LEMMA AncestorOrder ==
  ASSUME NEW p \in Path
  PROVE  /\ p \notin Ancestors(p)
         /\ \A a \in Ancestors(p) : a \in Path /\ IsPrefix(a, p) /\ Ancestors(a) \subseteq Ancestors(p)
<1>1. \A q \in Path : Len(q) \in Nat
      BY DEF Path
<1> HIDE DEF Path
<1>2. p \notin Ancestors(p)
      BY <1>1, AncestorKeys
<1>3. ASSUME NEW a \in Ancestors(p)
      PROVE  a \in Path /\ IsPrefix(a, p) /\ Ancestors(a) \subseteq Ancestors(p)
  <2>1. a \in Path /\ Len(a) < Len(p) /\ \A i \in 1 .. Len(a) : a[i] = p[i]
        BY AncestorKeys
  <2>2. IsPrefix(a, p)
        BY <1>1, <2>1, PrefixKeys
  <2> QED
        BY <2>1, <2>2, AncestorOfPrefix
<1> QED
      BY <1>2, <1>3

\* Paths that agree but for the last key have the same ancestors.
LEMMA SameAncestors ==
  ASSUME NEW p \in Path, NEW q \in Path,
         Len(p) <= Len(q), \A i \in 1 .. Len(p) - 1 : p[i] = q[i]
  PROVE  Ancestors(p) \subseteq Ancestors(q)
<1> SUFFICES ASSUME NEW a \in Ancestors(p) PROVE a \in Ancestors(q)
    OBVIOUS
<1>1. a \in Path /\ Len(a) < Len(p) /\ \A i \in 1 .. Len(a) : a[i] = p[i]
      BY AncestorKeys
<1>2. Len(a) \in Nat /\ Len(p) \in Nat /\ Len(q) \in Nat
      BY <1>1 DEF Path
<1> HIDE DEF Path
<1>3. Len(a) < Len(q) /\ \A i \in 1 .. Len(a) : a[i] = q[i]
      BY <1>1, <1>2
<1> QED
      BY <1>1, <1>3, AncestorKeys

\* A prefix of a path that is not the path is above it.
LEMMA ProperPrefix ==
  ASSUME NEW p \in Path, NEW q \in Path, IsPrefix(p, q), p # q
  PROVE  p \in Ancestors(q)
<1>1. Len(p) <= Len(q) /\ \A i \in 1 .. Len(p) : p[i] = q[i]
      BY PrefixKeys
<1>2. Len(p) \in Nat /\ Len(q) \in Nat
      BY DEF Path
<1>3. Len(p) # Len(q)
      BY <1>1 DEF Path
<1> HIDE DEF Path
<1> QED
      BY <1>1, <1>2, <1>3, AncestorKeys

\* Where there is something below a path there is an entry of it.
LEMMA NextKey ==
  ASSUME NEW p \in Path, NEW q \in Path, IsPrefix(p, q), p # q
  PROVE  \E k \in Path : k \in Ancestors(q) \union {q} /\ k # Root /\ Front(k) = p
<1>1. Len(p) \in Nat /\ Len(q) \in Nat /\ Len(p) < Len(q)
  <2>1. p \in Ancestors(q)
        BY ProperPrefix
  <2> QED
        BY <2>1, AncestorKeys DEF Path
<1>2. \A i \in 1 .. Len(p) : p[i] = q[i]
      BY PrefixKeys
<1> DEFINE k == SubSeq(q, 1, Len(p) + 1)
<1>3. k \in Path /\ Len(k) = Len(p) + 1 /\ \A i \in 1 .. Len(k) : k[i] = q[i]
      BY <1>1 DEF Path
<1>4. k \in Ancestors(q) \union {q}
  <2>1. CASE Len(q) = Len(p) + 1
        BY <2>1, SubSeqFull DEF Path
  <2>2. CASE Len(q) # Len(p) + 1
    <3>1. Len(p) + 1 \in 0 .. Len(q) - 1
          BY <1>1, <2>2
    <3> QED
          BY <3>1 DEF Ancestors
  <2> QED
        BY <2>1, <2>2
<1> HIDE DEF k
<1>5. k # Root
      BY <1>1, <1>3 DEF Root
<1>6. Front(k) = p
  <2>1. Front(k) \in Path /\ Len(Front(k)) = Len(p) /\ \A i \in 1 .. Len(p) : Front(k)[i] = k[i]
        BY <1>1, <1>3 DEF Front, Path
  <2>2. \A i \in 1 .. Len(p) : Front(k)[i] = p[i]
        BY <1>1, <1>2, <1>3, <2>1
  <2> QED
        BY <2>1, <2>2, SeqEqual DEF Path
<1> QED
      BY <1>3, <1>4, <1>5, <1>6

\* An entry of a path is below it.
LEMMA FrontIsAbove ==
  ASSUME NEW k \in Path, k # Root
  PROVE  Front(k) \in Path /\ IsPrefix(Front(k), k) /\ Front(k) # k
<1>1. Len(k) \in Nat /\ Len(k) # 0
      BY DEF Path, Root
<1>2. /\ Front(k) \in Path /\ Len(Front(k)) = Len(k) - 1
      /\ \A i \in 1 .. Len(k) - 1 : Front(k)[i] = k[i]
      BY <1>1 DEF Front, Path
<1>3. IsPrefix(Front(k), k)
      BY <1>1, <1>2, PrefixKeys
<1>4. Front(k) # k
      BY <1>1, <1>2
<1> QED
      BY <1>2, <1>3, <1>4

\* Paths that differ in a key of both are neither above one another.
LEMMA DifferentPaths ==
  ASSUME NEW p \in Path, NEW q \in Path,
         NEW k \in 1 .. Len(p), k <= Len(q), p[k] # q[k]
  PROVE  p \notin Ancestors(q) /\ ~IsPrefix(p, q)
<1>1. p \notin Ancestors(q)
      BY AncestorKeys
<1>2. ~IsPrefix(p, q)
      BY PrefixKeys
<1> QED
      BY <1>1, <1>2

\* Of two prefixes of a path one is above the other, or they are the same.
LEMMA PrefixesCompare ==
  ASSUME NEW p \in Path, NEW q \in Path, NEW r \in Path, IsPrefix(p, r), IsPrefix(q, r)
  PROVE  IsPrefix(p, q) \/ q \in Ancestors(p)
<1>1. /\ Len(p) <= Len(r) /\ \A i \in 1 .. Len(p) : p[i] = r[i]
      /\ Len(q) <= Len(r) /\ \A i \in 1 .. Len(q) : q[i] = r[i]
      BY PrefixKeys
<1>2. Len(p) \in Nat /\ Len(q) \in Nat
      BY DEF Path
<1> HIDE DEF Path
<1>3. CASE Len(p) <= Len(q)
  <2>1. \A i \in 1 .. Len(p) : p[i] = q[i]
        BY <1>1, <1>2, <1>3
  <2> QED
        BY <1>3, <2>1, PrefixKeys
<1>4. CASE Len(q) < Len(p)
  <2>1. \A i \in 1 .. Len(q) : q[i] = p[i]
        BY <1>1, <1>2, <1>4
  <2> QED
        BY <1>4, <2>1, AncestorKeys
<1> QED
      BY <1>2, <1>3, <1>4

-----------------------------------------------------------------------------
(* SetPath.                                                                *)

\* What SetPath leaves of a tree.
Kept(t, p) == {q \in DOMAIN t : ~IsPrefix(p, q)}

\* What is in the tree after SetPath, when only tables are in its way.
LEMMA SetPathContents ==
  ASSUME NEW t, WellFormed(t), NEW p \in Path, NEW v,
         \A a \in Ancestors(p) : GetPath(t, a) \in {Table, Absent}
  PROVE  /\ DOMAIN SetPath(t, p, v) = Kept(t, p) \union Ancestors(p) \union {p}
         /\ SetPath(t, p, v)[p] = v
         /\ \A a \in Ancestors(p) : SetPath(t, p, v)[a] = Table
         /\ \A q \in Kept(t, p) : SetPath(t, p, v)[q] = t[q]
<1> DEFINE s    == SetPath(t, p, v)
           kept == Kept(t, p)
<1>1. s = [q \in kept \union Ancestors(p) \union {p} |->
             IF q = p THEN v ELSE IF q \in kept THEN t[q] ELSE Table]
      BY DEF SetPath, Kept
<1>2. p \notin kept /\ p \notin Ancestors(p)
      BY PrefixOrder, AncestorOrder DEF Kept
<1>3. \A a \in Ancestors(p) : a \in kept => t[a] = Table
      BY DEF GetPath, WellFormed, Kept
<1> QED
      BY <1>1, <1>2, <1>3

\* SetPath writes the value, makes the tables above it, and changes nothing that is
\* neither above nor below.
LEMMA SetPathElsewhere ==
  ASSUME NEW t, WellFormed(t), NEW p \in Path, NEW v
  PROVE  /\ GetPath(SetPath(t, p, v), p) = v
         /\ \A q : ~IsPrefix(p, q) /\ q \notin Ancestors(p) =>
              GetPath(SetPath(t, p, v), q) = GetPath(t, q)
         /\ \A a \in Ancestors(p) :
              GetPath(t, a) \in {Table, Absent} => GetPath(SetPath(t, p, v), a) = Table
<1> DEFINE s    == SetPath(t, p, v)
           kept == Kept(t, p)
<1>1. s = [q \in kept \union Ancestors(p) \union {p} |->
             IF q = p THEN v ELSE IF q \in kept THEN t[q] ELSE Table]
      BY DEF SetPath, Kept
<1> HIDE DEF s, kept
<1>2. GetPath(s, p) = v
      BY <1>1 DEF GetPath
<1>3. ASSUME NEW q, ~IsPrefix(p, q), q \notin Ancestors(p) PROVE GetPath(s, q) = GetPath(t, q)
  <2>1. q # p
        BY <1>3, PrefixOrder
  <2>2. q \in kept <=> q \in DOMAIN t
        BY <1>3 DEF kept, Kept
  <2> QED
        BY <1>1, <1>3, <2>1, <2>2 DEF GetPath
<1>4. ASSUME NEW a \in Ancestors(p), GetPath(t, a) \in {Table, Absent} PROVE GetPath(s, a) = Table
  <2>1. a # p /\ a \in DOMAIN s
        BY <1>1, AncestorOrder
  <2>2. CASE a \in kept
    <3>1. t[a] = Table
          BY <1>4, <2>2 DEF GetPath, kept, Kept, WellFormed
    <3> QED
          BY <1>1, <2>1, <2>2, <3>1 DEF GetPath
  <2>3. CASE a \notin kept
        BY <1>1, <2>1, <2>3 DEF GetPath
  <2> QED
        BY <2>2, <2>3
<1> QED
      BY <1>2, <1>3, <1>4 DEF s

\* SetPath keeps a tree a tree.
LEMMA SetPathWellFormed ==
  ASSUME NEW t, WellFormed(t), NEW p \in Path, p # Root, NEW v, v \notin {Table, Absent},
         \A a \in Ancestors(p) : GetPath(t, a) \in {Table, Absent}
  PROVE  WellFormed(SetPath(t, p, v))
<1> DEFINE s    == SetPath(t, p, v)
           kept == Kept(t, p)
<1>1. /\ DOMAIN s = kept \union Ancestors(p) \union {p}
      /\ s[p] = v
      /\ \A a \in Ancestors(p) : s[a] = Table
      /\ \A q \in kept : s[q] = t[q]
      BY SetPathContents
<1>2. /\ DOMAIN t \subseteq Path
      /\ Root \in DOMAIN t
      /\ \A q \in DOMAIN t : t[q] # Absent
      /\ \A q \in DOMAIN t : \A a \in Ancestors(q) : a \in DOMAIN t /\ t[a] = Table
      BY DEF WellFormed, Path
<1> HIDE DEF s
<1> USE DEF Kept
<1>3. DOMAIN s \subseteq Path
      BY <1>1, <1>2, AncestorOrder
<1>4. Root \in DOMAIN s /\ s[Root] = Table
  <2>1. Root \in Path /\ Len(Root) = 0 /\ Len(p) \in Nat /\ Len(p) # 0
        BY DEF Root, Path
  <2>2. Root \in Ancestors(p)
        BY <2>1, AncestorKeys
  <2> QED
        BY <1>1, <2>2
<1>5. ASSUME NEW q \in DOMAIN s, NEW a \in Ancestors(q)
      PROVE  a \in DOMAIN s /\ s[a] = Table
  <2>1. CASE q = p \/ q \in Ancestors(p)
        BY <1>1, <2>1, AncestorOrder
  <2>2. CASE q \in kept
    <3>1. a \in DOMAIN t /\ t[a] = Table
          BY <1>2, <2>2
    <3>2. ~IsPrefix(p, a)
          BY <1>2, <2>2, <3>1, PrefixOfAncestor
    <3> QED
          BY <1>1, <3>1, <3>2
  <2> QED
        BY <1>1, <2>1, <2>2
<1>6. \A q \in DOMAIN s : s[q] # Absent
      BY <1>1, <1>2, MarkersDiffer
<1> QED
      BY <1>3, <1>4, <1>5, <1>6 DEF WellFormed, Path, s

-----------------------------------------------------------------------------
(* DeletePath.                                                             *)

\* DeletePath takes what is at and below the path, and leaves a tree.
LEMMA DeletePathEffect ==
  ASSUME NEW t, WellFormed(t), NEW p \in Path, p # Root
  PROVE  /\ WellFormed(DeletePath(t, p))
         /\ \A q : GetPath(DeletePath(t, p), q) = IF IsPrefix(p, q) THEN Absent ELSE GetPath(t, q)
<1> DEFINE d == DeletePath(t, p)
<1>1. DOMAIN d = Kept(t, p) /\ \A q \in Kept(t, p) : d[q] = t[q]
      BY DEF DeletePath, Kept
<1>2. /\ DOMAIN t \subseteq Path
      /\ Root \in DOMAIN t /\ t[Root] = Table
      /\ \A q \in DOMAIN t : t[q] # Absent
      /\ \A q \in DOMAIN t : \A a \in Ancestors(q) : a \in DOMAIN t /\ t[a] = Table
      BY DEF WellFormed, Path
<1> HIDE DEF d
<1>3. Root \in Kept(t, p)
  <2>1. Root \in Path /\ Len(Root) = 0 /\ Len(p) \in Nat /\ Len(p) # 0
        BY DEF Root, Path
  <2>2. ~IsPrefix(p, Root)
        BY <2>1, PrefixKeys
  <2> QED
        BY <1>2, <2>2 DEF Kept
<1>4. \A q \in Kept(t, p) : \A a \in Ancestors(q) : a \in Kept(t, p) /\ t[a] = Table
      BY <1>2, PrefixOfAncestor DEF Kept
<1>5. WellFormed(d)
      BY <1>1, <1>2, <1>3, <1>4 DEF WellFormed, Kept, Path
<1>6. \A q : GetPath(d, q) = IF IsPrefix(p, q) THEN Absent ELSE GetPath(t, q)
      BY <1>1 DEF GetPath, Kept
<1> QED
      BY <1>5, <1>6 DEF d

-----------------------------------------------------------------------------
(* CopyTable.                                                              *)

\* A path below `from', moved below `to'.
Moved(q, from, to) == to \o SubSeq(q, Len(from) + 1, Len(q))

\* It has the keys of `to' and then those of the path.
LEMMA MovedKeys ==
  ASSUME NEW from \in Path, NEW to \in Path, Len(from) = Len(to),
         NEW q \in Path, Len(from) <= Len(q)
  PROVE  /\ Moved(q, from, to) \in Path
         /\ Len(Moved(q, from, to)) = Len(q)
         /\ \A i \in 1 .. Len(q) : Moved(q, from, to)[i] = IF i <= Len(to) THEN to[i] ELSE q[i]
<1> DEFINE l == Len(to)
           r == SubSeq(q, l + 1, Len(q))
<1>1. l \in Nat /\ Len(q) \in Nat /\ l <= Len(q)
      BY DEF Path
<1>2. r \in Path /\ Len(r) = Len(q) - l /\ \A i \in 1 .. Len(q) - l : r[i] = q[l + i]
      BY <1>1 DEF Path
<1> HIDE DEF r
<1>3. /\ to \o r \in Path
      /\ Len(to \o r) = l + Len(r)
      /\ \A i \in 1 .. l + Len(r) : (to \o r)[i] = IF i <= l THEN to[i] ELSE r[i - l]
      BY <1>2, ConcatProperties DEF Path
<1>4. \A i \in 1 .. Len(q) : i > l => i - l \in 1 .. Len(q) - l /\ l + (i - l) = i
      BY <1>1
<1>5. Moved(q, from, to) = to \o r
      BY DEF Moved, r
<1> HIDE DEF Path
<1> QED
      BY <1>1, <1>2, <1>3, <1>4, <1>5

\* Moved there and back it is the same.
LEMMA MovedBack ==
  ASSUME NEW from \in Path, NEW to \in Path, Len(from) = Len(to),
         NEW q \in Path, IsPrefix(from, q)
  PROVE  /\ Moved(q, from, to) \in Path /\ IsPrefix(to, Moved(q, from, to))
         /\ Moved(Moved(q, from, to), to, from) = q
<1>1. Len(from) <= Len(q) /\ \A i \in 1 .. Len(from) : from[i] = q[i]
      BY PrefixKeys
<1> DEFINE m == Moved(q, from, to)
           b == Moved(m, to, from)
<1>2. /\ m \in Path /\ Len(m) = Len(q)
      /\ \A i \in 1 .. Len(q) : m[i] = IF i <= Len(to) THEN to[i] ELSE q[i]
      BY <1>1, MovedKeys
<1> HIDE DEF m
<1>3. /\ b \in Path /\ Len(b) = Len(q)
      /\ \A i \in 1 .. Len(q) : b[i] = IF i <= Len(from) THEN from[i] ELSE m[i]
      BY <1>1, <1>2, MovedKeys
<1> HIDE DEF b
<1>4. Len(q) \in Nat /\ Len(from) \in Nat
      BY DEF Path
<1>5. \A i \in 1 .. Len(q) : b[i] = q[i]
      BY <1>1, <1>2, <1>3, <1>4
<1>6. b = q
      BY <1>3, <1>5, SeqEqual DEF Path
<1>7. \A i \in 1 .. Len(to) : to[i] = m[i]
      BY <1>1, <1>2, <1>4
<1>8. IsPrefix(to, m)
      BY <1>1, <1>2, <1>7, PrefixKeys
<1> QED
      BY <1>2, <1>6, <1>8 DEF m, b

\* What is above a moved path and not above `to' is moved itself.
LEMMA MovedAncestor ==
  ASSUME NEW from \in Path, NEW to \in Path, Len(from) = Len(to),
         NEW q \in Path, IsPrefix(from, q), NEW a \in Ancestors(Moved(q, from, to))
  PROVE  \/ a \in Ancestors(to)
         \/ \E b \in Ancestors(q) : IsPrefix(from, b) /\ a = Moved(b, from, to)
<1>1. Len(from) <= Len(q) /\ \A i \in 1 .. Len(from) : from[i] = q[i]
      BY PrefixKeys
<1>2. /\ Moved(q, from, to) \in Path /\ Len(Moved(q, from, to)) = Len(q)
      /\ \A i \in 1 .. Len(q) : Moved(q, from, to)[i] = IF i <= Len(to) THEN to[i] ELSE q[i]
      BY <1>1, MovedKeys
<1>3. a \in Path /\ Len(a) < Len(q) /\ \A i \in 1 .. Len(a) : a[i] = Moved(q, from, to)[i]
      BY <1>2, AncestorKeys
<1>4. Len(a) \in Nat /\ Len(q) \in Nat /\ Len(to) \in Nat
      BY <1>3 DEF Path
<1>5. \A i \in 1 .. Len(a) : a[i] = IF i <= Len(to) THEN to[i] ELSE q[i]
      BY <1>2, <1>3, <1>4
<1>6. CASE Len(a) < Len(to)
  <2>1. \A i \in 1 .. Len(a) : a[i] = to[i]
        BY <1>4, <1>5, <1>6
  <2> QED
        BY <1>3, <1>6, <2>1, AncestorKeys
<1>7. CASE Len(to) <= Len(a)
  <2> DEFINE b == SubSeq(q, 1, Len(a))
  <2>1. b \in Path /\ Len(b) = Len(a) /\ \A i \in 1 .. Len(a) : b[i] = q[i]
        BY <1>3, <1>4 DEF Path
  <2> HIDE DEF b
  <2>2. b \in Ancestors(q)
        BY <1>3, <2>1, AncestorKeys
  <2>3. IsPrefix(from, b)
    <3>1. Len(from) <= Len(b) /\ \A i \in 1 .. Len(from) : from[i] = b[i]
          BY <1>1, <1>4, <1>7, <2>1
    <3> QED
          BY <2>1, <3>1, PrefixKeys
  <2>4. a = Moved(b, from, to)
    <3>1. /\ Moved(b, from, to) \in Path /\ Len(Moved(b, from, to)) = Len(a)
          /\ \A i \in 1 .. Len(a) : Moved(b, from, to)[i] = IF i <= Len(to) THEN to[i] ELSE b[i]
          BY <1>7, <2>1, MovedKeys
    <3>2. \A i \in 1 .. Len(a) : Moved(b, from, to)[i] = a[i]
          BY <1>5, <2>1, <3>1
    <3> QED
          BY <1>3, <3>1, <3>2, SeqEqual DEF Path
  <2> QED
        BY <2>2, <2>3, <2>4
<1> QED
      BY <1>4, <1>6, <1>7

\* CopyTable makes a table at `to', changes nothing that is neither above nor below,
\* and leaves a tree.
LEMMA CopyTableEffect ==
  ASSUME NEW t, WellFormed(t),
         NEW from \in Path, NEW to \in Path, Len(from) = Len(to), to # Root,
         IsTable(t, from), \A a \in Ancestors(to) : GetPath(t, a) \in {Table, Absent}
  PROVE  /\ WellFormed(CopyTable(t, from, to))
         /\ \A a \in Ancestors(to) \union {to} : GetPath(CopyTable(t, from, to), a) = Table
         /\ \A q \in Path : ~IsPrefix(to, q) /\ q \notin Ancestors(to) =>
              GetPath(CopyTable(t, from, to), q) = GetPath(t, q)
<1> DEFINE below == {q \in DOMAIN t : IsPrefix(from, q)}
           moved == {Moved(q, from, to) : q \in below}
           kept  == Kept(t, to)
           c     == CopyTable(t, from, to)
<1>1. c = [p \in kept \union Ancestors(to) \union moved |->
             IF IsPrefix(to, p) THEN t[Moved(p, to, from)]
             ELSE IF p \in kept THEN t[p] ELSE Table]
      BY DEF CopyTable, Moved, Kept
<1>2. /\ DOMAIN t \subseteq Path
      /\ Root \in DOMAIN t /\ t[Root] = Table
      /\ \A q \in DOMAIN t : t[q] # Absent
      /\ \A q \in DOMAIN t : \A a \in Ancestors(q) : a \in DOMAIN t /\ t[a] = Table
      BY DEF WellFormed, Path
<1>3. \A q \in below : /\ q \in Path /\ q \in DOMAIN t /\ IsPrefix(from, q)
                       /\ Moved(q, from, to) \in Path /\ IsPrefix(to, Moved(q, from, to))
                       /\ Moved(Moved(q, from, to), to, from) = q
      BY <1>2, MovedBack
<1>4. \A p \in kept : p \in DOMAIN t /\ p \in Path /\ ~IsPrefix(to, p)
      BY <1>2 DEF Kept
<1>5. \A a \in Ancestors(to) : /\ a \in Path /\ ~IsPrefix(to, a)
                               /\ a \in kept => t[a] = Table
  <2>1. ASSUME NEW a \in Ancestors(to) PROVE a \in Path /\ ~IsPrefix(to, a)
    <3>1. a \in Path /\ Len(a) < Len(to)
          BY AncestorKeys
    <3>2. Len(a) \in Nat /\ Len(to) \in Nat
          BY <3>1 DEF Path
    <3> HIDE DEF Path
    <3> QED
          BY <3>1, <3>2, PrefixKeys
  <2>2. ASSUME NEW a \in Ancestors(to), a \in kept PROVE t[a] = Table
        BY <1>2, <1>4, <2>2 DEF GetPath
  <2> QED
        BY <2>1, <2>2
<1>6. from \in below /\ t[from] = Table
      BY PrefixOrder, MarkersDiffer DEF IsTable, GetPath
<1>7. Moved(from, from, to) = to
  <2>1. IsPrefix(from, from) /\ Len(to) \in Nat
        BY PrefixOrder DEF Path
  <2>2. /\ Moved(from, from, to) \in Path /\ Len(Moved(from, from, to)) = Len(to)
        /\ \A i \in 1 .. Len(to) : Moved(from, from, to)[i] = to[i]
        BY <2>1, MovedKeys
  <2> QED
        BY <2>2, SeqEqual DEF Path
<1> HIDE DEF c, below, kept
<1>8. /\ \A p \in kept : p \in DOMAIN c /\ c[p] = t[p]
      /\ \A a \in Ancestors(to) : a \in DOMAIN c /\ c[a] = Table
      /\ \A q \in below : Moved(q, from, to) \in DOMAIN c /\ c[Moved(q, from, to)] = t[q]
      /\ \A p \in DOMAIN c : p \in kept \/ p \in Ancestors(to) \/ p \in moved
  <2>1. \A p \in kept : p \in DOMAIN c /\ c[p] = t[p]
        BY <1>1, <1>4
  <2>2. \A a \in Ancestors(to) : a \in DOMAIN c /\ c[a] = Table
        BY <1>1, <1>5
  <2>3. ASSUME NEW q \in below PROVE Moved(q, from, to) \in DOMAIN c /\ c[Moved(q, from, to)] = t[q]
    <3>1. Moved(q, from, to) \in moved
          OBVIOUS
    <3> HIDE DEF moved
    <3> QED
          BY <1>1, <1>3, <3>1
  <2>4. \A p \in DOMAIN c : p \in kept \/ p \in Ancestors(to) \/ p \in moved
    <3> HIDE DEF moved
    <3> QED
          BY <1>1
  <2> QED
        BY <2>1, <2>2, <2>3, <2>4
<1>9. ASSUME NEW p \in DOMAIN c, NEW a \in Ancestors(p) PROVE a \in DOMAIN c /\ c[a] = Table
  <2>1. CASE p \in kept
    <3>1. a \in DOMAIN t /\ t[a] = Table /\ a \in Path /\ p \in Path /\ ~IsPrefix(to, p)
          BY <1>2, <1>4, <2>1
    <3>2. a \in kept
          BY <3>1, PrefixOfAncestor DEF kept, Kept
    <3> QED
          BY <1>8, <3>1, <3>2
  <2>2. CASE p \in Ancestors(to)
        BY <1>8, <2>2, AncestorOrder
  <2>3. ASSUME NEW q \in below, p = Moved(q, from, to) PROVE a \in DOMAIN c /\ c[a] = Table
    <3>1. q \in Path /\ IsPrefix(from, q)
          BY <1>3
    <3>2. CASE a \in Ancestors(to)
          BY <1>8, <3>2
    <3>3. ASSUME NEW b \in Ancestors(q), IsPrefix(from, b), a = Moved(b, from, to)
          PROVE  a \in DOMAIN c /\ c[a] = Table
      <4>1. b \in DOMAIN t /\ t[b] = Table
            BY <1>2, <1>3
      <4>2. b \in below
            BY <3>3, <4>1 DEF below
      <4> QED
            BY <1>8, <3>3, <4>1, <4>2
    <3> QED
          BY <2>3, <3>1, <3>2, <3>3, MovedAncestor
  <2> QED
        BY <1>8, <2>1, <2>2, <2>3
<1>10. WellFormed(c)
  <2>1. DOMAIN c \subseteq Path
        BY <1>3, <1>4, <1>5, <1>8
  <2>2. \A p \in DOMAIN c : c[p] # Absent
        BY <1>2, <1>3, <1>4, <1>8, MarkersDiffer
  <2>3. Root \in DOMAIN c /\ c[Root] = Table
    <3>1. Root \in Path /\ Len(Root) = 0 /\ Len(to) \in Nat /\ Len(to) # 0
          BY DEF Root, Path
    <3>2. Root \in Ancestors(to)
          BY <3>1, AncestorKeys
    <3> QED
          BY <1>8, <3>2
  <2> QED
        BY <1>9, <2>1, <2>2, <2>3 DEF WellFormed, Path
<1>11. \A a \in Ancestors(to) \union {to} : GetPath(c, a) = Table
       BY <1>6, <1>7, <1>8 DEF GetPath
<1>12. ASSUME NEW q \in Path, ~IsPrefix(to, q), q \notin Ancestors(to)
       PROVE  GetPath(c, q) = GetPath(t, q)
  <2>1. q \in kept <=> q \in DOMAIN t
        BY <1>12 DEF kept, Kept
  <2>2. q \notin moved
        BY <1>3, <1>12
  <2> QED
        BY <1>8, <1>12, <2>1, <2>2 DEF GetPath
<1> QED
      BY <1>10, <1>11, <1>12 DEF c

\* What was at `to' makes no difference to what CopyTable gives.
LEMMA CopyTableAnew ==
  ASSUME NEW t, WellFormed(t),
         NEW from \in Path, NEW to \in Path, Len(from) = Len(to), from # to
  PROVE  CopyTable(DeletePath(t, to), from, to) = CopyTable(t, from, to)
<1> DEFINE d        == DeletePath(t, to)
           below(u) == {q \in DOMAIN u : IsPrefix(from, q)}
           moved(u) == {Moved(q, from, to) : q \in below(u)}
           dom(u)   == Kept(u, to) \union Ancestors(to) \union moved(u)
           value(u, p) == IF IsPrefix(to, p) THEN u[Moved(p, to, from)]
                          ELSE IF p \in Kept(u, to) THEN u[p] ELSE Table
<1>1. \A u : CopyTable(u, from, to) = [p \in dom(u) |-> value(u, p)]
      BY DEF CopyTable, Moved, Kept
<1>2. DOMAIN d = Kept(t, to) /\ \A q \in Kept(t, to) : d[q] = t[q]
      BY DEF DeletePath, Kept
<1>3. DOMAIN t \subseteq Path
      BY DEF WellFormed, Path
<1> HIDE DEF d
<1>4. ASSUME NEW q \in Path, IsPrefix(from, q) PROVE ~IsPrefix(to, q)
  <2>1. Len(from) \in Nat /\ Len(to) \in Nat
        BY DEF Path
  <2>2. ASSUME IsPrefix(to, q) PROVE \A i \in 1 .. Len(from) : from[i] = to[i]
        BY <1>4, <2>1, <2>2, PrefixKeys
  <2>3. ASSUME IsPrefix(to, q) PROVE from = to
        BY <2>2, <2>3, SeqEqual DEF Path
  <2> QED
        BY <2>3
<1>5. Kept(d, to) = Kept(t, to) /\ below(d) = below(t)
      BY <1>2, <1>3, <1>4 DEF Kept
<1>6. \A q \in below(t) : /\ q \in Path /\ q \in Kept(t, to)
                          /\ IsPrefix(to, Moved(q, from, to))
                          /\ Moved(Moved(q, from, to), to, from) = q
      BY <1>3, <1>4, MovedBack DEF Kept
<1>7. \A a \in Ancestors(to) : ~IsPrefix(to, a)
  <2>1. ASSUME NEW a \in Ancestors(to) PROVE ~IsPrefix(to, a)
    <3>1. a \in Path /\ Len(a) < Len(to)
          BY AncestorKeys
    <3>2. Len(a) \in Nat /\ Len(to) \in Nat
          BY <3>1 DEF Path
    <3> HIDE DEF Path
    <3> QED
          BY <3>1, <3>2, PrefixKeys
  <2> QED
        BY <2>1
<1>8. dom(d) = dom(t)
  <2>1. moved(d) = moved(t)
        BY <1>5
  <2> HIDE DEF moved
  <2> QED
        BY <1>5, <2>1
<1>9. ASSUME NEW p \in dom(t) PROVE value(d, p) = value(t, p)
  <2>1. CASE p \in moved(t)
    <3>1. PICK q \in below(t) : p = Moved(q, from, to)
          BY <2>1
    <3> HIDE DEF below, moved
    <3>2. Moved(p, to, from) = q /\ q \in Kept(t, to) /\ IsPrefix(to, p)
          BY <1>6, <3>1
    <3> QED
          BY <1>2, <3>2
  <2>2. CASE p \in Kept(t, to)
        BY <1>2, <1>5, <2>2 DEF Kept
  <2>3. CASE p \in Ancestors(to)
        BY <1>2, <1>5, <1>7, <2>3
  <2> QED
        BY <2>1, <2>2, <2>3
<1> HIDE DEF dom, value
<1>10. [p \in dom(d) |-> value(d, p)] = [p \in dom(t) |-> value(t, p)]
       BY <1>8, <1>9
<1> QED
      BY <1>1, <1>10 DEF d

=============================================================================
