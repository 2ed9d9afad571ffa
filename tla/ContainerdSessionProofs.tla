----------------------- MODULE ContainerdSessionProofs -----------------------
(***************************************************************************)
(* Theorems about ContainerdSession, for any names, paths and files: its   *)
(* trees stay trees, they keep what is the administrator's, no default is  *)
(* left that names a runtime that was removed, and a runtime that points   *)
(* to a kata configuration can be used.  Once the last runtime is removed  *)
(* the first tree is back.  And the calls are those of RuntimeInterface.   *)
(*                                                                         *)
(* The invariants speak of the trees there are.  To be inductive they have *)
(* to speak of what Setup would read as well, which is an empty tree once  *)
(* Save has removed the file: that it was right to do so (nothing of the   *)
(* administrator's was left) is what the invariant then says of it.        *)
(***************************************************************************)
EXTENDS ContainerdSession, ContainerdConfigProofs

\* What the file held at first, but for a default, is in t.
Keeps(t) ==
  \A p \in UserLeaves(Content(original)) \ {DefaultPath} :
    GetPath(t, p) = Content(original)[p]

\* The default of t can be used.
Defined(t) == DefaultRuntime(t) \in Names => DefaultRuntime(t) \in RuntimesOf(t)

\* The runtimes of t can be used.
Annotations(n) == Append(RuntimePath(n), "pod_annotations")

Usable(t) ==
  \A n \in RuntimesOf(t) :
    /\ GetPath(t, TypePath(n)) # Absent
    /\ GetPath(t, ConfigPath(n)) \in KataConfigs => GetPath(t, Annotations(n)) = PodAnnotations

Good(t) == Editable(t) /\ Keeps(t) /\ Defined(t) /\ Usable(t)

\* The inductive invariant.
IInv ==
  /\ Editable(Content(original))
  /\ Good(Content(file))
  /\ tree # NoTree => Good(tree)

-----------------------------------------------------------------------------
(* One key written.                                                        *)

\* An operation that keeps all that is the administrator's keeps what he had.
LEMMA SameConfigKeeps ==
  ASSUME Editable(Content(original)), NEW t, NEW s, Keeps(t), UserConfig(s) = UserConfig(t)
  PROVE  Keeps(s)
<1> SUFFICES ASSUME NEW p \in UserLeaves(Content(original)) \ {DefaultPath}
             PROVE  GetPath(s, p) = Content(original)[p]
    BY DEF Keeps
<1> DEFINE v == Content(original)[p]
<1>1. GetPath(t, p) = v
      BY DEF Keeps
<1>2. CASE p \in UserLeaves(t)
  <2>1. UserLeaves(s) = UserLeaves(t) /\ \A q \in UserLeaves(t) : s[q] = t[q]
    <3>1. DOMAIN UserConfig(s) = UserLeaves(s) /\ DOMAIN UserConfig(t) = UserLeaves(t)
          BY DEF UserConfig
    <3>2. \A q \in UserLeaves(t) : UserConfig(t)[q] = t[q]
          BY DEF UserConfig
    <3>3. \A q \in UserLeaves(s) : UserConfig(s)[q] = s[q]
          BY DEF UserConfig
    <3> QED
          BY <3>1, <3>2, <3>3
  <2>2. p \in DOMAIN s /\ p \in DOMAIN t
        BY <1>2, <2>1 DEF UserLeaves, Leaves
  <2> QED
        BY <1>1, <1>2, <2>1, <2>2 DEF GetPath
<1>3. p \in UserLeaves(t)
  <2>1. /\ p \in DOMAIN Content(original) /\ v # Table /\ v # Absent
        /\ ~\E n \in Names : IsPrefix(RuntimePath(n), p)
        /\ p # VersionPath /\ p # DefaultPath
        BY DEF UserLeaves, Leaves, Managed, Editable, WellFormed
  <2>2. p \in DOMAIN t
        BY <1>1, <2>1 DEF GetPath
  <2> QED
        BY <1>1, <2>1, <2>2 DEF UserLeaves, Leaves, Managed, GetPath
<1> QED
      BY <1>2, <1>3

\* Entries that are the same can be used alike.
LEMMA SameEntriesUsable ==
  ASSUME NEW s, NEW t, NEW N \in SUBSET Names, Usable(t),
         \A n \in N, q \in Path : IsPrefix(RuntimePath(n), q) => GetPath(s, q) = GetPath(t, q)
  PROVE  \A n \in N \intersect RuntimesOf(s) :
           /\ GetPath(s, TypePath(n)) # Absent
           /\ GetPath(s, ConfigPath(n)) \in KataConfigs =>
                GetPath(s, Annotations(n)) = PodAnnotations
<1>1. \A n \in N : Annotations(n) \in Path /\ IsPrefix(RuntimePath(n), Annotations(n))
      BY EntryKeys, KeysAreStrings DEF Annotations
<1>2. \A n \in N : \A q \in {RuntimePath(n), TypePath(n), ConfigPath(n), Annotations(n)} :
        GetPath(s, q) = GetPath(t, q)
      BY <1>1, EntryPaths
<1> QED
      BY <1>2 DEF Usable, RuntimesOf

\* The default is not a part of an entry.
LEMMA DefaultElsewhere ==
  ASSUME NEW t, WellFormed(t), NEW v, NEW n \in Names, NEW q \in Path, IsPrefix(RuntimePath(n), q)
  PROVE  GetPath(SetPath(t, DefaultPath, v), q) = GetPath(t, q)
<1>1. ~IsPrefix(q, DefaultPath) /\ DefaultPath \notin Ancestors(q) /\ q # DefaultPath
      BY EntryIsApart, EntryIsDeep
<1>2. ~IsPrefix(DefaultPath, q)
      BY <1>1, DefaultIsApart, ProperPrefix
<1>3. q \notin Ancestors(DefaultPath)
      BY <1>1, DefaultIsApart, AncestorOrder
<1> QED
      BY <1>2, <1>3, DefaultIsApart, SetPathElsewhere

\* Making a runtime that is there the default.
LEMMA SetDefaultGood ==
  ASSUME Editable(Content(original)), NEW t, Editable(t), Keeps(t), Usable(t),
         NEW n \in Names, n \in RuntimesOf(t)
  PROVE  Good(SetPath(t, DefaultPath, n))
<1> DEFINE s    == SetPath(t, DefaultPath, n)
           kept == Kept(t, DefaultPath)
<1>1. \A a \in Ancestors(DefaultPath) : GetPath(t, a) \in {Table, Absent}
      BY DefaultIsApart DEF Editable
<1>2. WellFormed(t) /\ n \notin {Table, Absent}
      BY ValuesAreNoMarkers DEF Editable
<1>3. WellFormed(s)
      BY <1>1, <1>2, SetPathWellFormed, DefaultIsApart
<1>4. /\ DOMAIN s = kept \union Ancestors(DefaultPath) \union {DefaultPath}
      /\ s[DefaultPath] = n
      /\ \A a \in Ancestors(DefaultPath) : s[a] = Table
      /\ \A q \in kept : s[q] = t[q]
  <2>1. DefaultPath \in Path
        BY DefaultIsApart
  <2> QED
    <3>1. s = [q \in kept \union Ancestors(DefaultPath) \union {DefaultPath} |->
                 IF q = DefaultPath THEN n ELSE IF q \in kept THEN t[q] ELSE Table]
          BY DEF SetPath, Kept
    <3>2. DefaultPath \notin kept /\ DefaultPath \notin Ancestors(DefaultPath)
          BY <2>1, PrefixOrder, AncestorOrder DEF Kept
    <3>3. \A a \in Ancestors(DefaultPath) : a \in kept => t[a] = Table
          BY <1>1, <1>2 DEF GetPath, WellFormed, Kept
    <3> HIDE DEF s, kept
    <3> QED
          BY <3>1, <3>2, <3>3
<1> HIDE DEF s
<1>5. \A q : q # DefaultPath => GetPath(s, q) \in {Table, Absent} \/ GetPath(s, q) = GetPath(t, q)
      BY <1>4 DEF GetPath, Kept
<1>6. Editable(s)
  <2>1. \A m \in Names : \A a \in Ancestors(ConfigPath(m)) : GetPath(s, a) \in {Table, Absent}
        BY <1>5, DefaultIsApart DEF Editable
  <2>2. ~IsTable(s, DefaultPath)
        BY <1>2, <1>4 DEF IsTable, GetPath
  <2>3. ~IsTable(s, VersionPath)
        BY <1>4, DefaultIsApart, MarkersDiffer DEF Editable, IsTable, GetPath, Kept
  <2> QED
        BY <1>3, <2>1, <2>2, <2>3 DEF Editable
<1>7. Keeps(s)
  <2>1. SUFFICES ASSUME NEW p \in UserLeaves(Content(original)) \ {DefaultPath}
                 PROVE  GetPath(s, p) = Content(original)[p]
        BY DEF Keeps
  <2>2. /\ Content(original)[p] \notin {Table, Absent}
        /\ GetPath(t, p) = Content(original)[p]
        BY DEF UserLeaves, Leaves, Editable, WellFormed, Keeps
  <2>3. p \in DOMAIN t /\ p \in Path /\ t[p] = GetPath(t, p)
        BY <1>2, <2>2 DEF GetPath, WellFormed, Path
  <2>4. ~IsPrefix(DefaultPath, p)
    <3>1. SUFFICES ASSUME IsPrefix(DefaultPath, p) PROVE FALSE
          OBVIOUS
    <3>2. DefaultPath \in Ancestors(p)
          BY <2>3, <3>1, ProperPrefix, DefaultIsApart
    <3>3. DefaultPath \in DOMAIN t /\ t[DefaultPath] = Table
          BY <1>2, <2>3, <3>2 DEF WellFormed
    <3> QED
          BY <3>3 DEF Editable, IsTable, GetPath
  <2> QED
        BY <1>4, <2>2, <2>3, <2>4 DEF GetPath, Kept
<1>8. n \in RuntimesOf(s)
      BY <1>4, DefaultIsApart DEF RuntimesOf, GetPath, Kept, Editable, WellFormed
<1>9. DefaultRuntime(s) = n
      BY <1>4 DEF DefaultRuntime, GetPath
<1>10. Usable(s)
  <2>1. \A m \in Names, q \in Path : IsPrefix(RuntimePath(m), q) => GetPath(s, q) = GetPath(t, q)
        BY <1>2, DefaultElsewhere DEF s
  <2>2. RuntimesOf(s) \subseteq Names
        BY DEF RuntimesOf
  <2> QED
        BY <2>1, <2>2, SameEntriesUsable DEF Usable
<1> QED
      BY <1>6, <1>7, <1>8, <1>9, <1>10 DEF Good, Defined, s

-----------------------------------------------------------------------------
(* The operations.                                                         *)

\* AddRuntime.
LEMMA AddRuntimeGood ==
  ASSUME Editable(Content(original)), NEW t, Good(t), NEW n \in Names,
         NEW path \in KataConfigs, NEW setAsDefault \in BOOLEAN
  PROVE  Good(AddRuntime(t, n, path, setAsDefault))
<1> DEFINE a == AddRuntime(t, n, path, FALSE)
<1>1. AddRuntime(t, n, path, setAsDefault) = IF setAsDefault THEN SetPath(a, DefaultPath, n) ELSE a
      BY DEF AddRuntime
<1>2. /\ Editable(a) /\ UserConfig(a) = UserConfig(t)
      /\ DefaultRuntime(a) = DefaultRuntime(t)
      /\ RuntimesOf(a) = RuntimesOf(t) \union {n}
      /\ MakesEntry(t, a, n, path)
      /\ \A m \in Names \ {n}, q \in Path :
           IsPrefix(RuntimePath(m), q) => GetPath(a, q) = GetPath(t, q)
  <2>1. Editable(t)
        BY DEF Good
  <2>2. path \notin {Table, Absent}
        BY PathsAreValues
  <2>3. AddsOnly(t, a, n) /\ MakesEntry(t, a, n, path)
        BY <2>1, <2>2, AddRuntimeEffect
  <2> HIDE DEF a
  <2> QED
        BY <2>3 DEF AddsOnly
<1> HIDE DEF a
<1>3. Keeps(a)
      BY <1>2, SameConfigKeeps DEF Good
<1>4. Usable(a)
  <2>1. /\ GetPath(a, TypePath(n)) # Absent
        /\ GetPath(a, Annotations(n)) = PodAnnotations
        BY <1>2, ValuesAreNoMarkers DEF MakesEntry, Annotations, Good, Usable
  <2>2. \A m \in (Names \ {n}) \intersect RuntimesOf(a) :
          /\ GetPath(a, TypePath(m)) # Absent
          /\ GetPath(a, ConfigPath(m)) \in KataConfigs =>
               GetPath(a, Annotations(m)) = PodAnnotations
        BY <1>2, SameEntriesUsable DEF Good
  <2>3. RuntimesOf(a) \subseteq Names
        BY DEF RuntimesOf
  <2> QED
        BY <2>1, <2>2, <2>3 DEF Usable
<1>5. Good(a)
      BY <1>2, <1>3, <1>4 DEF Good, Defined
<1>6. Good(SetPath(a, DefaultPath, n))
      BY <1>2, <1>3, <1>4, SetDefaultGood
<1> QED
      BY <1>1, <1>5, <1>6

\* RemoveRuntime takes no other runtime, and the default with the one it names.
LEMMA RemoveRuntimeGood ==
  ASSUME Editable(Content(original)), NEW t, Good(t), NEW n \in Names
  PROVE  Good(RemoveRuntime(t, n))
<1> DEFINE r == RemoveRuntime(t, n)
<1>1. Editable(r) /\ UserConfig(r) = UserConfig(t)
      BY RemoveRuntimeKeeps DEF Good
<1>2. Keeps(r)
      BY <1>1, SameConfigKeeps DEF Good
<1>3. /\ DefaultRuntime(r) = IF DefaultRuntime(t) = n THEN Absent ELSE DefaultRuntime(t)
      /\ RuntimesOf(r) = RuntimesOf(t) \ {n}
      /\ \A m \in Names \ {n}, q \in Path :
           IsPrefix(RuntimePath(m), q) => GetPath(r, q) = GetPath(t, q)
      BY RemoveRuntimeEffect DEF Good
<1> HIDE DEF r
<1>4. Defined(r)
      BY <1>3, ValuesAreNoMarkers DEF Good, Defined
<1>5. Usable(r)
  <2>1. RuntimesOf(r) \subseteq Names \ {n}
        BY <1>3 DEF RuntimesOf
  <2> QED
        BY <1>3, <2>1, SameEntriesUsable DEF Good, Usable
<1> QED
      BY <1>1, <1>2, <1>4, <1>5 DEF Good, r

-----------------------------------------------------------------------------
(* The loop of RemoveRuntime.                                              *)

\* The part of a tree that is left.
Cut(t, D) == [p \in D |-> t[p]]

\* The parts that are trees.
Parts(t) == {D \in SUBSET DOMAIN t : Root \in D /\ \A q \in D : Ancestors(q) \subseteq D}

\* What lies under p.
Below(D, p) == {q \in D : IsPrefix(p, q) /\ q # p}

\* What is in a part, and what is left of it.
LEMMA CutPath ==
  ASSUME NEW t, NEW D \in SUBSET DOMAIN t
  PROVE  /\ \A p : GetPath(Cut(t, D), p) = IF p \in D THEN t[p] ELSE Absent
         /\ \A p : DeletePath(Cut(t, D), p) = Cut(t, {q \in D : ~IsPrefix(p, q)})
         /\ \A p : Keys(Cut(t, D), p) = {q \in D : q # Root /\ Front(q) = p}
BY DEF GetPath, Cut, DeletePath, Keys

\* A table without an entry has nothing below it.
LEMMA NoKeysNothingBelow ==
  ASSUME NEW t, WellFormed(t), NEW D \in Parts(t), NEW p \in Path
  PROVE  Keys(Cut(t, D), p) = {} <=> Below(D, p) = {}
<1>1. D \subseteq Path /\ D \subseteq DOMAIN t /\ \A q \in D : Ancestors(q) \subseteq D
      BY DEF WellFormed, Path, Parts
<1>2. Keys(Cut(t, D), p) = {q \in D : q # Root /\ Front(q) = p}
      BY <1>1, CutPath
<1>3. ASSUME NEW q \in Below(D, p) PROVE Keys(Cut(t, D), p) # {}
  <2>1. q \in Path /\ q \in D /\ IsPrefix(p, q) /\ p # q
        BY <1>1, <1>3 DEF Below
  <2>2. PICK k \in Path : k \in Ancestors(q) \union {q} /\ k # Root /\ Front(k) = p
        BY <2>1, NextKey
  <2> QED
        BY <1>1, <1>2, <2>1, <2>2
<1>4. ASSUME NEW k \in D, k # Root, Front(k) = p PROVE k \in Below(D, p)
      BY <1>1, <1>4, FrontIsAbove DEF Below
<1> QED
      BY <1>2, <1>3, <1>4

\* A pruning step leaves an empty table out.
LEMMA PruneCut ==
  ASSUME NEW t, WellFormed(t), NEW D \in Parts(t), NEW c \in Path, c # Root,
         c \in DOMAIN t => t[c] = Table
  PROVE  LET rest == IF Below(D, c) = {} THEN D \ {c} ELSE D
         IN  Prune(Cut(t, D), c) = Cut(t, rest) /\ rest \in Parts(t)
<1> DEFINE rest == IF Below(D, c) = {} THEN D \ {c} ELSE D
<1>1. /\ D \subseteq Path /\ D \subseteq DOMAIN t /\ \A q \in D : Ancestors(q) \subseteq D
      /\ Root \in D
      BY DEF WellFormed, Path, Parts
<1>2. IsTable(Cut(t, D), c) <=> c \in D
      BY <1>1, CutPath, MarkersDiffer DEF IsTable
<1>3. DeletePath(Cut(t, D), c) = Cut(t, {q \in D : ~IsPrefix(c, q)})
      BY <1>1, CutPath
<1>4. Below(D, c) = {} => {q \in D : ~IsPrefix(c, q)} = D \ {c}
      BY PrefixOrder DEF Below
<1>5. Keys(Cut(t, D), c) = {} <=> Below(D, c) = {}
      BY NoKeysNothingBelow
<1>6. Prune(Cut(t, D), c) = Cut(t, rest)
  <2>1. CASE c \in D /\ Below(D, c) = {}
        BY <1>2, <1>3, <1>4, <1>5, <2>1 DEF Prune
  <2>2. CASE Below(D, c) # {}
        BY <1>5, <2>2 DEF Prune
  <2>3. CASE c \notin D /\ Below(D, c) = {}
    <3>1. D \ {c} = D
          BY <2>3
    <3> QED
          BY <1>2, <2>3, <3>1 DEF Prune
  <2> QED
        BY <2>1, <2>2, <2>3
<1>7. rest \in Parts(t)
  <2>1. \A q \in D : c \in Ancestors(q) => q \in Below(D, c)
        BY <1>1, AncestorOrder DEF Below
  <2> QED
        BY <1>1, <2>1 DEF Parts
<1> QED
      BY <1>6, <1>7

\* The tables of the chain.
Link(i) == SubSeq(RuntimesPath, 1, i)

\* They lie one in the other.
LEMMA Links ==
  /\ Chain = {Link(i) : i \in 1 .. 4}
  /\ \A i \in 1 .. 4 : Link(i) \in Path /\ Link(i) # Root
  /\ \A i, j \in 1 .. 4 : IsPrefix(Link(i), Link(j)) => i <= j
<1>1. RuntimesPath \in Path /\ Len(RuntimesPath) = 4
      BY KeysAreStrings DEF RuntimesPath, Path
<1>2. Chain = {Link(i) : i \in 1 .. 4}
      BY <1>1 DEF Chain, Link
<1>3. \A i \in 1 .. 4 : Link(i) \in Path /\ Len(Link(i)) = i
      BY <1>1 DEF Link, Path
<1>4. Len(Root) = 0
      BY DEF Root
<1>5. \A i \in 1 .. 4 : Link(i) # Root
      BY <1>3, <1>4
<1>6. \A i, j \in 1 .. 4 : IsPrefix(Link(i), Link(j)) => i <= j
      BY <1>3, PrefixKeys
<1> QED
      BY <1>2, <1>3, <1>5, <1>6

\* The tables of the chain that have nothing but tables of the chain below them.
Hollow(L) == {c \in L \intersect Chain : \A q \in L : IsPrefix(c, q) => q \in Chain}

\* What is left once the loop has come down to Link(i).
LeftFrom(L, i) == L \ {c \in Hollow(L) : \E j \in i .. 4 : c = Link(j)}

\* One turn of the loop takes the table if it is hollow.
LEMMA OneTurn ==
  ASSUME NEW t, WellFormed(t), NEW L \in Parts(t), NEW i \in 1 .. 4
  PROVE  LeftFrom(L, i) = IF Below(LeftFrom(L, i + 1), Link(i)) = {}
                          THEN LeftFrom(L, i + 1) \ {Link(i)} ELSE LeftFrom(L, i + 1)
<1> DEFINE c == Link(i)
           D == LeftFrom(L, i + 1)
<1>1. /\ L \subseteq Path /\ c \in Path /\ c \in Chain /\ Chain \subseteq Path
      BY Links DEF WellFormed, Path, Parts
<1>2. LeftFrom(L, i) = IF c \in Hollow(L) THEN D \ {c} ELSE D
  <2>1. i .. 4 = {i} \union (i + 1) .. 4
        OBVIOUS
  <2>2. \A x : (\E j \in i .. 4 : x = Link(j)) <=> x = c \/ \E j \in (i + 1) .. 4 : x = Link(j)
        BY <2>1
  <2> HIDE DEF c
  <2> QED
        BY <2>2 DEF LeftFrom
<1> HIDE DEF c
<1>3. ASSUME Below(D, c) = {}, c \in L PROVE c \in Hollow(L)
  <2>1. SUFFICES ASSUME NEW q \in L, IsPrefix(c, q) PROVE q \in Chain
        BY <1>1, <1>3 DEF Hollow
  <2>2. q = c \/ q \notin D
        BY <1>3, <2>1 DEF Below
  <2> QED
        BY <1>1, <2>2 DEF LeftFrom, Hollow
<1>4. ASSUME c \in Hollow(L), NEW q \in Below(D, c) PROVE FALSE
  <2>1. q \in L /\ q \in Chain /\ IsPrefix(c, q) /\ q # c /\ q \in D
        BY <1>4 DEF Hollow, Below, LeftFrom
  <2>2. PICK j \in 1 .. 4 : q = Link(j)
        BY <2>1, Links
  <2>3. j \in (i + 1) .. 4
        BY <2>1, <2>2, Links DEF c
  <2>4. q \in Hollow(L)
        BY <1>1, <1>4, <2>1, PrefixOrder DEF Hollow
  <2> QED
        BY <2>1, <2>2, <2>3, <2>4 DEF LeftFrom
<1>5. c \notin L => c \notin Hollow(L) /\ D \ {c} = D
      BY DEF Hollow, LeftFrom
<1> HIDE DEF D
<1>6. Below(D, c) = {} => LeftFrom(L, i) = D \ {c}
      BY <1>2, <1>3, <1>5
<1>7. Below(D, c) # {} => LeftFrom(L, i) = D
      BY <1>2, <1>4
<1> QED
      BY <1>6, <1>7 DEF c, D

\* The loop leaves the hollow tables out.
LEMMA LoopPrunes ==
  ASSUME NEW t, WellFormed(t), \A c \in Chain : c \in DOMAIN t => t[c] = Table,
         NEW L \in Parts(t)
  PROVE  /\ PruneUpwards(Cut(t, L)) = Cut(t, L \ Hollow(L))
         /\ L \ Hollow(L) \in Parts(t)
<1>1. ASSUME NEW i \in 1 .. 4, LeftFrom(L, i + 1) \in Parts(t)
      PROVE  /\ Prune(Cut(t, LeftFrom(L, i + 1)), Link(i)) = Cut(t, LeftFrom(L, i))
             /\ LeftFrom(L, i) \in Parts(t)
  <2>1. Link(i) \in Path /\ Link(i) # Root /\ (Link(i) \in DOMAIN t => t[Link(i)] = Table)
        BY Links
  <2> QED
        BY <1>1, <2>1, OneTurn, PruneCut
<1>2. LeftFrom(L, 5) = L
      BY DEF LeftFrom
<1>3. LeftFrom(L, 1) = L \ Hollow(L)
      BY Links DEF LeftFrom, Hollow
<1>4. /\ Prune(Cut(t, L), Link(4)) = Cut(t, LeftFrom(L, 4))
      /\ LeftFrom(L, 4) \in Parts(t)
      BY <1>1, <1>2
<1>5. /\ Prune(Cut(t, LeftFrom(L, 4)), Link(3)) = Cut(t, LeftFrom(L, 3))
      /\ LeftFrom(L, 3) \in Parts(t)
      BY <1>1, <1>4
<1>6. /\ Prune(Cut(t, LeftFrom(L, 3)), Link(2)) = Cut(t, LeftFrom(L, 2))
      /\ LeftFrom(L, 2) \in Parts(t)
      BY <1>1, <1>5
<1>7. /\ Prune(Cut(t, LeftFrom(L, 2)), Link(1)) = Cut(t, LeftFrom(L, 1))
      /\ LeftFrom(L, 1) \in Parts(t)
      BY <1>1, <1>6
<1> QED
      BY <1>3, <1>4, <1>5, <1>6, <1>7 DEF PruneUpwards, Link

\* The version goes if nothing else is left.
LEMMA LastIsVersion ==
  ASSUME NEW t, WellFormed(t), ~IsTable(t, VersionPath), NEW D \in Parts(t)
  PROVE  DropVersion(Cut(t, D)) = Cut(t, IF D = {Root, VersionPath} THEN {Root} ELSE D)
<1>1. /\ D \subseteq Path /\ D \subseteq DOMAIN t /\ \A q \in D : Ancestors(q) \subseteq D
      /\ Root \in D
      BY DEF WellFormed, Path, Parts
<1>2. VersionPath \in Path /\ VersionPath # Root /\ Front(VersionPath) = Root
  <2>1. Len(VersionPath) = 1 /\ VersionPath \in Path
        BY OtherPathsShape
  <2> QED
        BY <2>1, SubSeqEmpty DEF Front, Root
<1>3. Keys(Cut(t, D), Root) = {q \in D : q # Root /\ Front(q) = Root}
      BY <1>1, CutPath
<1>4. D = {Root, VersionPath} => Keys(Cut(t, D), Root) = {VersionPath}
      BY <1>2, <1>3
<1>5. ASSUME Keys(Cut(t, D), Root) = {VersionPath} PROVE D = {Root, VersionPath}
  <2>1. VersionPath \in D
        BY <1>3, <1>5
  <2>2. ASSUME NEW q \in D, q # Root PROVE q = VersionPath
    <3>1. Root \in Path /\ q \in Path /\ IsPrefix(Root, q)
          BY <1>1, PrefixKeys DEF Root, Path
    <3>2. PICK k \in Path : k \in Ancestors(q) \union {q} /\ k # Root /\ Front(k) = Root
          BY <2>2, <3>1, NextKey
    <3>3. k = VersionPath
          BY <1>1, <1>3, <1>5, <2>2, <3>2
    <3>4. VersionPath \notin Ancestors(q)
          BY <1>1, <2>2 DEF WellFormed, IsTable, GetPath
    <3> QED
          BY <3>2, <3>3, <3>4
  <2> QED
        BY <1>1, <2>1, <2>2
<1>6. DeletePath(Cut(t, D), VersionPath) = Cut(t, {q \in D : ~IsPrefix(VersionPath, q)})
      BY <1>1, CutPath
<1>7. ~IsPrefix(VersionPath, Root) /\ IsPrefix(VersionPath, VersionPath)
  <2>1. Root \in Path /\ Len(Root) = 0 /\ Len(VersionPath) = 1
        BY OtherPathsShape DEF Root, Path
  <2> QED
        BY <1>2, <2>1, PrefixKeys, PrefixOrder
<1>8. D = {Root, VersionPath} => {q \in D : ~IsPrefix(VersionPath, q)} = {Root}
      BY <1>7
<1> QED
      BY <1>4, <1>5, <1>6, <1>8 DEF DropVersion

\* What is left without the entry and a default that names it.
LEMMA EntryTaken ==
  ASSUME NEW t, Editable(t), NEW n \in Names
  PROVE  LET L == DOMAIN t \ ({p \in DOMAIN t : IsPrefix(RuntimePath(n), p)}
                              \union IF DefaultRuntime(t) = n THEN {DefaultPath} ELSE {})
         IN  /\ DropDefault(DeletePath(t, RuntimePath(n)), n) = Cut(t, L)
             /\ L \in Parts(t)
<1> DEFINE below == {p \in DOMAIN t : IsPrefix(RuntimePath(n), p)}
           D     == DOMAIN t \ below
           named == IF DefaultRuntime(t) = n THEN {DefaultPath} ELSE {}
           L     == DOMAIN t \ (below \union named)
<1>1. /\ DOMAIN t \subseteq Path
      /\ Root \in DOMAIN t
      /\ \A q \in DOMAIN t : \A a \in Ancestors(q) : a \in DOMAIN t /\ t[a] = Table
      BY DEF Editable, WellFormed, Path
<1>2. /\ DefaultPath \in Path /\ DefaultPath # Root
      /\ DefaultPath \notin below /\ RuntimePath(n) \in Path
      /\ n \notin {Table, Absent}
      BY DefaultIsApart, RuntimePathShape, ValuesAreNoMarkers
<1>3. DeletePath(t, RuntimePath(n)) = Cut(t, D)
      BY DEF DeletePath, Cut
<1>4. DefaultRuntime(Cut(t, D)) = DefaultRuntime(t)
      BY <1>2, CutPath DEF DefaultRuntime, GetPath
<1>5. DefaultRuntime(t) = n => DefaultPath \in DOMAIN t /\ t[DefaultPath] = n
      BY <1>2 DEF DefaultRuntime, GetPath
<1>6. ASSUME DefaultRuntime(t) = n
      PROVE  {q \in D : ~IsPrefix(DefaultPath, q)} = D \ {DefaultPath}
  <2>1. ASSUME NEW q \in D, IsPrefix(DefaultPath, q), q # DefaultPath PROVE FALSE
    <3>1. DefaultPath \in Ancestors(q)
          BY <1>1, <1>2, <2>1, ProperPrefix
    <3> QED
          BY <1>1, <1>2, <1>5, <1>6, <2>1, <3>1
  <2>2. IsPrefix(DefaultPath, DefaultPath)
        BY <1>2, PrefixOrder
  <2> QED
        BY <2>1, <2>2
<1>7. DropDefault(Cut(t, D), n) = Cut(t, L)
  <2>1. CASE DefaultRuntime(t) = n
    <3>1. D \ {DefaultPath} = L
          BY <2>1
    <3>2. DeletePath(Cut(t, D), DefaultPath) = Cut(t, D \ {DefaultPath})
          BY <1>6, <2>1, CutPath
    <3> QED
          BY <1>4, <2>1, <3>1, <3>2 DEF DropDefault
  <2>2. CASE DefaultRuntime(t) # n
    <3>1. D = L
          BY <2>2
    <3> QED
          BY <1>4, <2>2, <3>1 DEF DropDefault
  <2> QED
        BY <2>1, <2>2
<1>8. L \in Parts(t)
  <2>1. Root \notin below
    <3>1. Root \in Path /\ Len(Root) = 0 /\ Len(RuntimePath(n)) = 5
          BY RuntimePathShape DEF Root, Path
    <3> QED
          BY <1>2, <3>1, PrefixKeys
  <2>2. ASSUME NEW q \in L, NEW a \in Ancestors(q) PROVE a \in L
    <3>1. a \in DOMAIN t /\ t[a] = Table /\ q \in Path /\ a \in Path
          BY <1>1, <2>2
    <3>2. a \notin below
          BY <1>2, <2>2, <3>1, PrefixOfAncestor
    <3> QED
          BY <1>2, <1>5, <3>1, <3>2
  <2> QED
        BY <1>1, <1>2, <2>1, <2>2 DEF Parts
<1> HIDE DEF L, D
<1> QED
      BY <1>3, <1>7, <1>8 DEF L

\* RemoveRuntime takes what the loop of the code takes.
LEMMA RemovesAsTheLoop ==
  ASSUME NEW t, Editable(t), NEW n \in Names
  PROVE  RemoveRuntime(t, n) =
           DropVersion(PruneUpwards(DropDefault(DeletePath(t, RuntimePath(n)), n)))
<1> DEFINE L    == DOMAIN t \ ({p \in DOMAIN t : IsPrefix(RuntimePath(n), p)}
                               \union IF DefaultRuntime(t) = n THEN {DefaultPath} ELSE {})
           rest == L \ Hollow(L)
<1>1. DropDefault(DeletePath(t, RuntimePath(n)), n) = Cut(t, L) /\ L \in Parts(t)
      BY EntryTaken
<1>2. RemoveRuntime(t, n) = Cut(t, IF rest = {Root, VersionPath} THEN {Root} ELSE rest)
      BY Zenon DEF RemoveRuntime, Cut, Hollow
<1> HIDE DEF L
<1>3. WellFormed(t) /\ ~IsTable(t, VersionPath) /\ \A c \in Chain : c \in DOMAIN t => t[c] = Table
  <2>1. ASSUME NEW c \in Chain, c \in DOMAIN t PROVE t[c] = Table
        BY <2>1, ChainIsAbove DEF Editable, WellFormed, GetPath
  <2> QED
        BY <2>1 DEF Editable
<1>4. PruneUpwards(Cut(t, L)) = Cut(t, rest) /\ rest \in Parts(t)
      BY <1>1, <1>3, LoopPrunes
<1> QED
      BY <1>1, <1>2, <1>3, <1>4, LastIsVersion

-----------------------------------------------------------------------------
(* What is reverted.                                                       *)

\* The paths the operations make or take are those of entries and of the tables
\* above them; the others are the file's, but for the version and the default.
Outside == {q \in Path \ (Chain \union {Root}) : \A n \in Names : ~IsPrefix(RuntimePath(n), q)}

Fixed == Outside \ {VersionPath, DefaultPath}

\* Of the tree b there is nothing that keeps the version: only RemoveRuntime takes it.
Bare(b, t) ==
  /\ \A q \in Fixed : GetPath(b, q) = Absent
  /\ DefaultRuntime(t) = DefaultRuntime(b) => DefaultRuntime(b) \in Names \union {Absent}

\* What may differ in t, outside of the entries, from the tree b it was made from.
Kin(b, t) ==
  /\ \A q \in Fixed : GetPath(t, q) = GetPath(b, q)
  /\ DefaultRuntime(t) \in {DefaultRuntime(b), Absent} \union Names
  /\ \/ GetPath(t, VersionPath) = GetPath(b, VersionPath)
     \/ GetPath(t, VersionPath) = Absent /\ Bare(b, t)

\* RemoveRuntime has cleared t of the tables that lead to nothing.
Pruned(t) ==
  /\ \A c \in Chain \intersect DOMAIN t : \E q \in DOMAIN t \ Chain : IsPrefix(c, q)
  /\ VersionPath \in DOMAIN t => DOMAIN t # {Root, VersionPath}
  /\ t = [p \in DOMAIN t |-> t[p]]

\* A tree without runtimes is the first one, or one RemoveRuntime has left.
Cleared(b, t) == RuntimesOf(t) = {} /\ t # b => Pruned(t)

Reverts(b, t) == Kin(b, t) /\ Cleared(b, t)

\* The tables above what belongs to an entry are not outside.
LEMMA AboveIsInside ==
  ASSUME NEW n \in Names
  PROVE  Ancestors(ConfigPath(n)) \intersect Outside = {}
<1> SUFFICES ASSUME NEW a \in Ancestors(ConfigPath(n)), a \in Outside PROVE FALSE
    OBVIOUS
<1>1. /\ ConfigPath(n) \in Path /\ RuntimePath(n) \in Path /\ Len(RuntimePath(n)) = 5
      /\ \A i \in 1 .. 5 : ConfigPath(n)[i] = RuntimePath(n)[i]
      /\ \A i \in 1 .. 4 : RuntimePath(n)[i] = RuntimesPath[i]
      BY RuntimePathShape, ConfigPathShape
<1>2. RuntimesPath \in Path /\ Len(RuntimesPath) = 4
      BY KeysAreStrings DEF RuntimesPath, Path
<1>3. a \in Path /\ \A i \in 1 .. Len(a) : a[i] = ConfigPath(n)[i]
      BY <1>1, AncestorKeys
<1>4. Len(a) \in Nat
      BY <1>3 DEF Path
<1>5. CASE Len(a) = 0
  <2>1. a = Root
        BY <1>3, <1>5, EmptySeq DEF Path, Root
  <2> QED
        BY <2>1 DEF Outside
<1>6. CASE Len(a) \in 1 .. 4
  <2> DEFINE c == SubSeq(RuntimesPath, 1, Len(a))
  <2>1. c \in Path /\ Len(c) = Len(a) /\ \A i \in 1 .. Len(a) : c[i] = RuntimesPath[i]
    <3>1. Len(a) \in 0 .. Len(RuntimesPath)
          BY <1>2, <1>6
    <3> QED
          BY <1>2, <3>1, FirstKeys
  <2>2. c \in Chain
        BY <1>2, <1>6 DEF Chain
  <2> HIDE DEF c
  <2>3. \A i \in 1 .. Len(a) : a[i] = c[i]
        BY <1>1, <1>3, <1>6, <2>1
  <2>4. a = c
        BY <1>3, <2>1, <2>3, SeqEqual DEF Path
  <2> QED
        BY <2>2, <2>4 DEF Outside
<1>7. CASE Len(a) >= 5
  <2>1. \A i \in 1 .. 5 : RuntimePath(n)[i] = a[i]
        BY <1>1, <1>3, <1>4, <1>7
  <2>2. IsPrefix(RuntimePath(n), a)
        BY <1>1, <1>3, <1>7, <2>1, PrefixKeys
  <2> QED
        BY <2>2 DEF Outside
<1>8. \A l \in Nat : l = 0 \/ l \in 1 .. 4 \/ l >= 5
      OBVIOUS
<1> QED
      BY <1>4, <1>5, <1>6, <1>7, <1>8

\* The version and the default are outside.
LEMMA OutsideByThemselves == VersionPath \in Outside /\ DefaultPath \in Outside /\ VersionPath # DefaultPath
<1>1. RuntimesPath \in Path /\ Len(RuntimesPath) = 4 /\ RuntimesPath[1] = "plugins"
      /\ RuntimesPath[4] = "runtimes"
      BY KeysAreStrings DEF RuntimesPath, Path
<1>2. /\ DefaultPath \in Path /\ Len(DefaultPath) = 4 /\ DefaultPath[4] = "default_runtime_name"
      /\ VersionPath \in Path /\ Len(VersionPath) = 1 /\ VersionPath[1] = "version"
      BY OtherPathsShape
<1>3. ASSUME NEW a \in Chain PROVE a # VersionPath /\ a # DefaultPath
  <2>1. PICK l \in 1 .. 4 : a = SubSeq(RuntimesPath, 1, l)
        BY <1>1 DEF Chain
  <2>2. Len(a) = l /\ \A i \in 1 .. l : a[i] = RuntimesPath[i]
        BY <1>1, <2>1, FirstKeys
  <2>3. a[1] = "plugins"
        BY <1>1, <2>2
  <2>4. l = 4 => a[4] = "runtimes"
        BY <1>1, <2>2
  <2>5. "plugins" # "version" /\ "runtimes" # "default_runtime_name"
        OBVIOUS
  <2>6. a # VersionPath
        BY <1>2, <2>3, <2>5
  <2>7. a # DefaultPath
        BY <1>2, <2>2, <2>4, <2>5
  <2> QED
        BY <2>6, <2>7
<1>4. Root # VersionPath /\ Root # DefaultPath
  <2>1. Len(Root) = 0
        BY DEF Root
  <2> QED
        BY <1>2, <2>1
<1>5. ASSUME NEW n \in Names PROVE ~IsPrefix(RuntimePath(n), VersionPath) /\ ~IsPrefix(RuntimePath(n), DefaultPath)
  <2>1. RuntimePath(n) \in Path /\ Len(RuntimePath(n)) = 5
        BY RuntimePathShape
  <2>2. ~(5 <= 1) /\ ~(5 <= 4)
        OBVIOUS
  <2>3. \A q \in Path : IsPrefix(RuntimePath(n), q) => 5 <= Len(q)
        BY <2>1, PrefixKeys
  <2> QED
        BY <1>2, <2>2, <2>3
<1> QED
      BY <1>2, <1>3, <1>4, <1>5, DefaultIsApart DEF Outside

\* AddRuntime without setAsDefault changes nothing outside.
LEMMA AddRuntimeOutside ==
  ASSUME NEW t, Editable(t), NEW n \in Names, NEW path, path \notin {Table, Absent}
  PROVE  \A q \in Outside : GetPath(AddRuntime(t, n, path, FALSE), q) = GetPath(t, q)
<1> DEFINE at(k) == Append(RuntimePath(n), k)
           c  == ConfigPath(n)
           Same(s) == Editable(s) /\ \A q \in Outside : GetPath(s, q) = GetPath(t, q)
           t1 == SetPath(t, at("runtime_type"), RuntimeType)
           t2 == SetPath(t1, at("privileged_without_host_devices"), "true")
           t3 == IF GetPath(t, RuntimePath(n)) = Absent THEN t2 ELSE t
           t4 == SetPath(t3, at("pod_annotations"), PodAnnotations)
           t5 == SetPath(t4, c, path)
<1>1. /\ at("runtime_type") \in EntryKey(n) /\ RuntimeType \notin {Table, Absent}
      /\ at("privileged_without_host_devices") \in EntryKey(n) /\ "true" \notin {Table, Absent}
      /\ at("pod_annotations") \in EntryKey(n) /\ PodAnnotations \notin {Table, Absent}
      /\ c \in EntryKey(n)
      BY KeysAreStrings, ValuesAreNoMarkers DEF EntryKey
<1>2. ASSUME NEW s, Same(s), NEW p \in EntryKey(n), NEW v, v \notin {Table, Absent}
      PROVE  Same(SetPath(s, p, v))
  <2>1. Editable(SetPath(s, p, v))
        BY <1>2, EntryKeyWritten
  <2>2. /\ p \in Path /\ IsPrefix(RuntimePath(n), p)
        /\ Ancestors(p) \subseteq Ancestors(ConfigPath(n))
        BY EntryKeys DEF EntryKey
  <2>3. ASSUME NEW q \in Outside PROVE ~IsPrefix(p, q) /\ q \notin Ancestors(p)
    <3>1. q \in Path /\ RuntimePath(n) \in Path /\ ~IsPrefix(RuntimePath(n), q)
          BY RuntimePathShape DEF Outside
    <3> QED
          BY <2>2, <3>1, PrefixOrder, AboveIsInside
  <2>4. WellFormed(s)
        BY <1>2 DEF Editable
  <2>5. \A q \in Outside : GetPath(SetPath(s, p, v), q) = GetPath(s, q)
        BY <2>2, <2>3, <2>4, SetPathElsewhere
  <2> QED
        BY <1>2, <2>1, <2>5
<1>3. AddRuntime(t, n, path, FALSE) = t5
      BY DEF AddRuntime
<1>4. Same(t)
      OBVIOUS
<1>5. \A s : Same(s) => \A q \in Outside : GetPath(s, q) = GetPath(t, q)
      OBVIOUS
<1> HIDE DEF Same, at, c
<1>6. Same(t1)
      BY <1>1, <1>2, <1>4
<1> HIDE DEF t1
<1>7. Same(t2)
      BY <1>1, <1>2, <1>6
<1> HIDE DEF t2
<1>8. Same(t3)
      BY <1>4, <1>7
<1> HIDE DEF t3
<1>9. Same(t4)
      BY <1>1, <1>2, <1>8
<1> HIDE DEF t4
<1>10. Same(t5)
      BY <1>1, <1>2, <1>9
<1> QED
      BY <1>3, <1>5, <1>10

\* Nor does a default, but the default.
LEMMA SetDefaultOutside ==
  ASSUME NEW t, Editable(t), NEW n \in Names, Editable(SetPath(t, DefaultPath, n))
  PROVE  /\ DefaultRuntime(SetPath(t, DefaultPath, n)) = n
         /\ \A q \in Outside \ {DefaultPath} : GetPath(SetPath(t, DefaultPath, n), q) = GetPath(t, q)
<1> DEFINE s == SetPath(t, DefaultPath, n)
<1>1. /\ DefaultPath \in Path /\ WellFormed(t)
      /\ Ancestors(DefaultPath) \subseteq Ancestors(ConfigPath(n))
      BY DefaultIsApart DEF Editable
<1>2. /\ GetPath(s, DefaultPath) = n
      /\ \A q : ~IsPrefix(DefaultPath, q) /\ q \notin Ancestors(DefaultPath) => GetPath(s, q) = GetPath(t, q)
      BY <1>1, SetPathElsewhere
<1> HIDE DEF s
<1>3. ASSUME NEW u, Editable(u), NEW q \in Path, q # DefaultPath, IsPrefix(DefaultPath, q)
      PROVE  GetPath(u, q) = Absent
  <2>1. DefaultPath \in Ancestors(q)
        BY <1>1, <1>3, ProperPrefix
  <2> QED
        BY <1>3, <2>1 DEF Editable, WellFormed, IsTable, GetPath
<1>4. ASSUME NEW q \in Outside \ {DefaultPath} PROVE GetPath(s, q) = GetPath(t, q)
  <2>1. q \in Path /\ q \notin Ancestors(DefaultPath)
        BY <1>1, AboveIsInside DEF Outside
  <2> QED
        BY <1>2, <1>3, <2>1 DEF s
<1> QED
      BY <1>2, <1>4 DEF DefaultRuntime, s

\* RemoveRuntime takes nothing outside but the version, if that is all there is, and the
\* default, and what it leaves is cleared.
LEMMA RemoveRuntimeOutside ==
  ASSUME NEW t, Editable(t), NEW n \in Names
  PROVE  LET r == RemoveRuntime(t, n)
         IN  /\ \A q \in Fixed : GetPath(r, q) = GetPath(t, q)
             /\ DefaultRuntime(r) \in {DefaultRuntime(t), Absent}
             /\ \/ GetPath(r, VersionPath) = GetPath(t, VersionPath)
                \/ DOMAIN r = {Root}
             /\ Pruned(r)
<1> DEFINE entry  == {p \in DOMAIN t : IsPrefix(RuntimePath(n), p)}
           named  == IF DefaultRuntime(t) = n THEN {DefaultPath} ELSE {}
           left   == DOMAIN t \ (entry \union named)
           hollow == {p \in left \intersect Chain : \A q \in left : IsPrefix(p, q) => q \in Chain}
           rest   == left \ hollow
           D      == IF rest = {Root, VersionPath} THEN {Root} ELSE rest
           r      == RemoveRuntime(t, n)
<1>1. DOMAIN r = D /\ (\A p \in D : r[p] = t[p]) /\ r = [p \in D |-> t[p]]
      BY Zenon DEF RemoveRuntime
<1>2. r = [p \in DOMAIN r |-> r[p]]
      BY <1>1
<1>3. Root \in DOMAIN t
      BY DEF Editable, WellFormed
<1>4. D \subseteq rest \/ D = {Root}
      OBVIOUS
<1>5. D \subseteq DOMAIN t
      BY <1>3, <1>4
<1>6. \A q \in DOMAIN t : ~IsPrefix(RuntimePath(n), q) /\ q \notin Chain /\ q # DefaultPath => q \in rest
      OBVIOUS
<1>7. DOMAIN r = {Root} \/ DOMAIN r = rest
      BY <1>1
<1>8. rest \subseteq D \union {VersionPath}
      OBVIOUS
<1>9. D = rest => rest # {Root, VersionPath}
  <2>1. {Root} # {Root, VersionPath}
        BY OtherPathsShape DEF Root
  <2> HIDE DEF rest
  <2> QED
        BY <2>1
<1>10. \A c \in rest \intersect Chain : \E q \in rest : q \notin Chain /\ IsPrefix(c, q)
       OBVIOUS
<1>11. Root \notin Chain /\ VersionPath \notin Chain
       BY OutsideByThemselves, Links DEF Outside
<1> HIDE DEF D, r, rest
<1>12. \A q \in Fixed : GetPath(r, q) = GetPath(t, q)
  <2>1. ASSUME NEW q \in Fixed, q \in DOMAIN t PROVE q \in D
        BY <1>6, <1>8, <2>1 DEF Fixed, Outside
  <2> QED
        BY <1>1, <1>5, <2>1 DEF GetPath
<1>13. DefaultRuntime(r) \in {DefaultRuntime(t), Absent}
       BY <1>1, <1>5 DEF DefaultRuntime, GetPath
<1>14. ASSUME DOMAIN r # {Root} PROVE GetPath(r, VersionPath) = GetPath(t, VersionPath)
  <2>1. D = rest
        BY <1>1, <1>7, <1>14
  <2>2. VersionPath \in DOMAIN t => VersionPath \in rest
        BY <1>6, OutsideByThemselves DEF Outside
  <2> QED
        BY <1>1, <1>5, <2>1, <2>2 DEF GetPath
<1>15. Pruned(r)
  <2>1. ASSUME NEW c \in Chain \intersect DOMAIN r
        PROVE  \E q \in DOMAIN r \ Chain : IsPrefix(c, q)
    <3>1. D = rest
          BY <1>1, <1>7, <1>11, <2>1
    <3> QED
          BY <1>1, <1>10, <2>1, <3>1
  <2>2. ASSUME VersionPath \in DOMAIN r PROVE DOMAIN r # {Root, VersionPath}
    <3>1. VersionPath # Root
          BY OutsideByThemselves DEF Outside
    <3>2. D = rest
          BY <1>1, <1>7, <2>2, <3>1
    <3> QED
          BY <1>1, <1>9, <3>2
  <2> QED
        BY <1>2, <2>1, <2>2 DEF Pruned
<1> QED
      BY <1>12, <1>13, <1>14, <1>15 DEF r

\* AddRuntime goes on from a tree it can be reverted from.
LEMMA AddReverts ==
  ASSUME NEW b, NEW t, Good(t), Kin(b, t), Editable(Content(original)),
         NEW n \in Names, NEW path \in KataConfigs, NEW setAsDefault \in BOOLEAN
  PROVE  Reverts(b, AddRuntime(t, n, path, setAsDefault))
<1> DEFINE a == AddRuntime(t, n, path, FALSE)
           u == AddRuntime(t, n, path, setAsDefault)
<1>1. u = IF setAsDefault THEN SetPath(a, DefaultPath, n) ELSE a
      BY DEF AddRuntime
<1>2. Good(a) /\ Good(u)
      BY AddRuntimeGood
<1>3. RuntimesOf(a) = RuntimesOf(t) \union {n} /\ \A q \in Outside : GetPath(a, q) = GetPath(t, q)
  <2>1. Editable(t) /\ path \notin {Table, Absent}
        BY PathsAreValues DEF Good
  <2>2. AddsOnly(t, a, n)
        BY <2>1, AddRuntimeEffect
  <2>3. \A q \in Outside : GetPath(a, q) = GetPath(t, q)
        BY <2>1, AddRuntimeOutside
  <2> HIDE DEF a
  <2> QED
        BY <2>2, <2>3 DEF AddsOnly
<1> HIDE DEF a, u
<1>4. ASSUME u = SetPath(a, DefaultPath, n)
      PROVE  DefaultRuntime(u) = n /\ \A q \in Outside \ {DefaultPath} : GetPath(u, q) = GetPath(a, q)
      BY <1>2, <1>4, SetDefaultOutside DEF Good
<1>5. /\ \A q \in Outside \ {DefaultPath} : GetPath(u, q) = GetPath(t, q)
      /\ DefaultRuntime(u) \in {DefaultRuntime(t), n}
      BY <1>1, <1>3, <1>4, OutsideByThemselves DEF DefaultRuntime
<1>6. n \in RuntimesOf(u)
  <2>1. CASE u = a
        BY <1>3, <2>1
  <2>2. CASE u = SetPath(a, DefaultPath, n)
    <3>1. DefaultRuntime(u) = n
          BY <1>4, <2>2
    <3> QED
          BY <1>2, <3>1 DEF Good, Defined
  <2> QED
        BY <1>1, <2>1, <2>2
<1>7. Kin(b, u)
  <2>1. \A q \in Fixed : GetPath(u, q) = GetPath(b, q)
        BY <1>5 DEF Kin, Fixed
  <2>2. GetPath(u, VersionPath) = GetPath(t, VersionPath)
        BY <1>5, OutsideByThemselves
  <2>3. Bare(b, t) => Bare(b, u)
        BY <1>5 DEF Bare
  <2> QED
        BY <1>5, <2>1, <2>2, <2>3 DEF Kin
<1> QED
      BY <1>6, <1>7 DEF Reverts, Cleared, u

\* So does RemoveRuntime.
LEMMA RemoveReverts ==
  ASSUME NEW b, NEW t, Good(t), Kin(b, t), NEW n \in Names
  PROVE  Reverts(b, RemoveRuntime(t, n))
<1> DEFINE r == RemoveRuntime(t, n)
<1>1. /\ \A q \in Fixed : GetPath(r, q) = GetPath(t, q)
      /\ DefaultRuntime(r) \in {DefaultRuntime(t), Absent}
      /\ \/ GetPath(r, VersionPath) = GetPath(t, VersionPath)
         \/ DOMAIN r = {Root}
      /\ Pruned(r)
      BY RemoveRuntimeOutside DEF Good
<1> HIDE DEF r
<1>2. \A q \in Fixed : GetPath(r, q) = GetPath(b, q)
      BY <1>1 DEF Kin
<1>3. CASE DOMAIN r = {Root}
  <2>1. \A q \in Outside : GetPath(r, q) = Absent
        BY <1>3 DEF Outside, GetPath
  <2>2. DefaultRuntime(r) = Absent /\ GetPath(r, VersionPath) = Absent
        BY <2>1, OutsideByThemselves DEF DefaultRuntime
  <2>3. Bare(b, r)
        BY <1>2, <2>1, <2>2 DEF Bare, Fixed
  <2> QED
        BY <1>1, <1>2, <2>2, <2>3 DEF Kin, Reverts, Cleared, r
<1>4. CASE GetPath(r, VersionPath) = GetPath(t, VersionPath)
  <2>1. Bare(b, t) => Bare(b, r)
        BY <1>1 DEF Bare, Kin
  <2> QED
        BY <1>1, <1>2, <1>4, <2>1 DEF Kin, Reverts, Cleared, r
<1> QED
      BY <1>1, <1>3, <1>4

\* And Save, when it removes the file.
LEMMA EmptyReverts ==
  ASSUME NEW b, NEW t, WellFormed(t), Kin(b, t), RendersEmpty(t)
  PROVE  Reverts(b, EmptyTree)
<1>1. DOMAIN EmptyTree = {Root}
      BY DEF EmptyTree
<1>2. DOMAIN t = {Root}
      BY ZeroBytesIsRoot
<1>3. \A q \in Outside : GetPath(t, q) = Absent /\ GetPath(EmptyTree, q) = Absent
      BY <1>1, <1>2 DEF Outside, GetPath
<1>4. Kin(b, EmptyTree)
      BY <1>3, OutsideByThemselves DEF Kin, Bare, Fixed, DefaultRuntime
<1>5. Pruned(EmptyTree)
  <2>1. Root \notin Chain /\ VersionPath # Root
        BY OutsideByThemselves, Links DEF Outside
  <2>2. EmptyTree = [p \in DOMAIN EmptyTree |-> EmptyTree[p]]
        BY DEF EmptyTree
  <2> QED
        BY <1>1, <2>1, <2>2 DEF Pruned
<1> QED
      BY <1>4, <1>5 DEF Reverts, Cleared

\* A tree without runtimes holds nothing of their entries.
LEMMA NothingInside ==
  ASSUME NEW t, WellFormed(t), RuntimesOf(t) = {}
  PROVE  DOMAIN t \subseteq Outside \union Chain \union {Root}
<1> SUFFICES ASSUME NEW q \in DOMAIN t, NEW n \in Names, IsPrefix(RuntimePath(n), q) PROVE FALSE
    BY DEF Outside, WellFormed, Path
<1>1. q \in Path /\ RuntimePath(n) \in Path
      BY RuntimePathShape DEF WellFormed, Path
<1>2. RuntimePath(n) \in Ancestors(q) \union {q}
      BY <1>1, ProperPrefix
<1>3. RuntimePath(n) \in DOMAIN t /\ t[RuntimePath(n)] # Absent
      BY <1>2 DEF WellFormed
<1> QED
      BY <1>3 DEF RuntimesOf, GetPath

\* What is below a table of the chain is neither the root nor the version.
LEMMA BelowChain ==
  ASSUME NEW c \in Chain, NEW q \in Path, IsPrefix(c, q)
  PROVE  q # Root /\ q # VersionPath
<1>1. PICK i \in 1 .. 4 : c = Link(i)
      BY Links
<1>2. RuntimesPath \in Path /\ Len(RuntimesPath) = 4 /\ RuntimesPath[1] = "plugins"
      BY KeysAreStrings DEF RuntimesPath, Path
<1>3. c \in Path /\ Len(c) = i /\ c[1] = "plugins"
  <2>1. i \in 0 .. Len(RuntimesPath) /\ 1 \in 1 .. i
        BY <1>2
  <2> QED
        BY <1>1, <1>2, <2>1, FirstKeys DEF Link
<1>4. 1 <= Len(q) /\ q[1] = "plugins"
  <2>1. Len(c) <= Len(q) /\ \A j \in 1 .. Len(c) : c[j] = q[j]
        BY <1>3, PrefixKeys
  <2>2. Len(q) \in Nat
        BY DEF Path
  <2> QED
        BY <1>3, <2>1, <2>2
<1>5. q # Root
  <2>1. Len(Root) = 0
        BY DEF Root
  <2> QED
        BY <1>4, <2>1
<1>6. q # VersionPath
  <2>1. VersionPath[1] = "version" /\ "version" # "plugins"
        BY OtherPathsShape
  <2> QED
        BY <1>4, <2>1
<1> QED
      BY <1>5, <1>6

\* What keeps the tables above it.
Foreign(t) == {p \in DOMAIN t \ (Chain \union {Root, VersionPath}) : ~Managed(t, p)}

\* It is what is fixed, and a default that names no runtime.
LEMMA ForeignIsOutside ==
  ASSUME NEW d, WellFormed(d), NEW p
  PROVE  p \in Foreign(d) <=>
           /\ p \in DOMAIN d /\ p \in Outside /\ p # VersionPath
           /\ p = DefaultPath => DefaultRuntime(d) \notin Names
<1>1. DOMAIN d \subseteq Path
      BY DEF WellFormed, Path
<1>2. DefaultPath \in DOMAIN d => DefaultRuntime(d) = d[DefaultPath]
      BY DEF DefaultRuntime, GetPath
<1>3. DefaultPath # VersionPath
      BY OutsideByThemselves
<1> QED
      BY <1>1, <1>2, <1>3 DEF Foreign, Managed, Outside

\* A pruned tree without runtimes that has of d all that is outside is d stripped.
LEMMA PrunedIsStripped ==
  ASSUME NEW d, WellFormed(d), NEW t, Editable(t), RuntimesOf(t) = {}, Pruned(t),
         \A q \in Fixed : GetPath(t, q) = GetPath(d, q),
         DefaultRuntime(t) = DefaultRuntime(d), DefaultRuntime(t) \notin Names,
         \/ GetPath(t, VersionPath) = GetPath(d, VersionPath)
         \/ /\ GetPath(t, VersionPath) = Absent
            /\ \A q \in Fixed \union {DefaultPath} : GetPath(d, q) = Absent
  PROVE  t = Stripped(d)
<1> DEFINE version == IF Foreign(d) = {} THEN {} ELSE {VersionPath} \intersect DOMAIN d
           above   == UNION {Ancestors(q) : q \in Foreign(d)}
           D       == {Root} \union version \union Foreign(d) \union above
<1>1. Stripped(d) = [p \in D |-> d[p]]
      BY DEF Stripped, Foreign
<1>2. /\ DOMAIN t \subseteq Path
      /\ Root \in DOMAIN t /\ t[Root] = Table
      /\ \A q \in DOMAIN t : t[q] # Absent
      /\ \A q \in DOMAIN t : \A a \in Ancestors(q) : a \in DOMAIN t /\ t[a] = Table
      BY DEF Editable, WellFormed, Path
<1>3. /\ Root \in DOMAIN d /\ d[Root] = Table
      /\ \A q \in DOMAIN d : d[q] # Absent
      /\ \A q \in DOMAIN d : \A a \in Ancestors(q) : a \in DOMAIN d /\ d[a] = Table
      BY DEF WellFormed
<1>4. \A q \in Outside \ {VersionPath} : GetPath(t, q) = GetPath(d, q)
      BY DEF Fixed, DefaultRuntime
<1>5. \A q \in Outside \ {VersionPath} :
        (q \in DOMAIN t <=> q \in DOMAIN d) /\ (q \in DOMAIN t => t[q] = d[q])
      BY <1>2, <1>3, <1>4 DEF GetPath
<1>6. \A p : p \in Foreign(d) <=> p \in DOMAIN t /\ p \in Outside /\ p # VersionPath
      BY <1>5, ForeignIsOutside
<1>7. \A p \in DOMAIN t : p \in Foreign(d) \/ p \in Chain \/ p = Root \/ p = VersionPath
      BY <1>6, NothingInside DEF Editable
<1>8. \A p \in Foreign(d) : p \in DOMAIN t /\ p \in DOMAIN d /\ t[p] = d[p]
      BY <1>5, <1>6
<1>9. ASSUME NEW c \in Chain, c \in DOMAIN t PROVE \E q \in Foreign(d) : c \in Ancestors(q)
  <2>1. PICK q \in DOMAIN t \ Chain : IsPrefix(c, q)
        BY <1>9 DEF Pruned
  <2>2. q \in Path /\ c \in Path /\ c # q
        BY <1>2, <1>9, <2>1
  <2>3. q \in Foreign(d)
        BY <1>7, <1>9, <2>1, <2>2, BelowChain
  <2> QED
        BY <2>1, <2>2, <2>3, ProperPrefix
<1>10. \A a \in above : \E q \in Foreign(d) : a \in Ancestors(q)
       OBVIOUS
<1>11. \A q \in Foreign(d) : \A a \in Ancestors(q) : a \in above
       OBVIOUS
<1>12. \A a \in above : a \in DOMAIN t /\ a \in DOMAIN d /\ t[a] = Table /\ d[a] = Table
       BY <1>2, <1>3, <1>8, <1>10
<1> HIDE DEF above
<1>13. Foreign(d) # {} => GetPath(t, VersionPath) = GetPath(d, VersionPath)
  <2>1. \A p \in Foreign(d) : p \in Fixed \union {DefaultPath} /\ GetPath(d, p) # Absent
        BY <1>3, <1>6, <1>8 DEF Fixed, GetPath
  <2> QED
        BY <2>1
<1>14. VersionPath \in DOMAIN t => Foreign(d) # {}
  <2>1. SUFFICES ASSUME VersionPath \in DOMAIN t PROVE Foreign(d) # {}
        OBVIOUS
  <2>2. PICK p \in DOMAIN t : p # Root /\ p # VersionPath
        BY <1>2, <2>1 DEF Pruned
  <2> QED
        BY <1>7, <1>9, <2>2
<1>15. \A p : p \in version <=> p \in DOMAIN t /\ p = VersionPath
  <2>1. Foreign(d) # {} => (VersionPath \in DOMAIN t <=> VersionPath \in DOMAIN d)
        BY <1>2, <1>3, <1>13 DEF GetPath
  <2> QED
        BY <1>14, <2>1
<1>16. VersionPath \in DOMAIN t => t[VersionPath] = d[VersionPath]
       BY <1>2, <1>13, <1>14 DEF GetPath
<1> HIDE DEF version
<1>17. DOMAIN t = D
  <2>1. \A p \in D : p \in DOMAIN t
        BY <1>2, <1>8, <1>12, <1>15
  <2>2. \A p \in DOMAIN t : p \in D
        BY <1>7, <1>9, <1>11, <1>15
  <2> QED
        BY <2>1, <2>2
<1>18. \A p \in D : t[p] = d[p]
       BY <1>2, <1>3, <1>8, <1>12, <1>15, <1>16
<1> HIDE DEF D
<1> QED
      BY <1>1, <1>17, <1>18 DEF Pruned

\* What a tree is once the last of its runtimes is removed.
LEMMA RevertedIs ==
  ASSUME NEW b, Editable(b), NEW t, Good(t), Reverts(b, t), RuntimesOf(t) = {}
  PROVE  t \in {b, Stripped(b), Stripped(DeletePath(b, DefaultPath))}
<1> SUFFICES ASSUME t # b PROVE t \in {Stripped(b), Stripped(DeletePath(b, DefaultPath))}
    OBVIOUS
<1>1. Pruned(t) /\ Kin(b, t) /\ Editable(t) /\ DefaultRuntime(t) \notin Names
      BY DEF Reverts, Cleared, Good, Defined
<1>2. CASE DefaultRuntime(t) = DefaultRuntime(b)
  <2>1. Bare(b, t) => \A q \in Fixed \union {DefaultPath} : GetPath(b, q) = Absent
        BY <1>1, <1>2 DEF Bare, DefaultRuntime
  <2> QED
        BY <1>1, <1>2, <2>1, PrunedIsStripped DEF Kin, Editable
<1>3. CASE DefaultRuntime(t) = Absent /\ DefaultRuntime(t) # DefaultRuntime(b)
  <2> DEFINE d == DeletePath(b, DefaultPath)
  <2>1. /\ WellFormed(d)
        /\ \A q : GetPath(d, q) = IF IsPrefix(DefaultPath, q) THEN Absent ELSE GetPath(b, q)
        BY DeletePathEffect, DefaultIsApart DEF Editable
  <2> HIDE DEF d
  <2>2. ASSUME NEW q \in Path, q # DefaultPath PROVE GetPath(d, q) = GetPath(b, q)
    <3>1. IsPrefix(DefaultPath, q) => GetPath(b, q) = Absent
      <4>1. IsPrefix(DefaultPath, q) => DefaultPath \in Ancestors(q)
            BY <2>2, ProperPrefix, DefaultIsApart
      <4> QED
            BY <4>1 DEF Editable, WellFormed, IsTable, GetPath
    <3> QED
          BY <2>1, <3>1
  <2>3. DefaultRuntime(d) = Absent
        BY <2>1, PrefixOrder, DefaultIsApart DEF DefaultRuntime
  <2>4. /\ \A q \in Fixed : GetPath(d, q) = GetPath(b, q)
        /\ GetPath(d, VersionPath) = GetPath(b, VersionPath)
        BY <2>2, OutsideByThemselves DEF Fixed, Outside
  <2>5. Bare(b, t) => \A q \in Fixed \union {DefaultPath} : GetPath(d, q) = Absent
        BY <2>3, <2>4 DEF Bare, DefaultRuntime
  <2>6. t = Stripped(d)
        BY <1>1, <1>3, <2>1, <2>3, <2>4, <2>5, PrunedIsStripped DEF Kin
  <2> QED
        BY <2>6 DEF d
<1> QED
      BY <1>1, <1>2, <1>3 DEF Kin

-----------------------------------------------------------------------------
(* The session.                                                            *)

\* The invariant holds of the files a session can start with.
LEMMA InitGood == Init => IInv
<1> SUFFICES ASSUME Init PROVE IInv
    OBVIOUS
<1>1. file \in InitFiles /\ original = file /\ tree = NoTree
      BY DEF Init
<1>2. Editable(Content(file)) /\ Defined(Content(file)) /\ Usable(Content(file))
      BY <1>1, EmptyTreeIsFree, FilesAreSound, ValuesAreNoMarkers
      DEF Content, Startable, Defined, Usable, Annotations
<1>3. Keeps(Content(file))
      BY <1>1 DEF Keeps, UserLeaves, Leaves, GetPath
<1> QED
      BY <1>1, <1>2, <1>3 DEF IInv, Good

\* Every operation keeps it.
LEMMA NextGood == IInv /\ [Next]_vars => IInv'
<1> SUFFICES ASSUME IInv, [Next]_vars PROVE IInv'
    OBVIOUS
<1>1. ASSUME Setup PROVE IInv'
      BY <1>1 DEF IInv, Setup, Good, Keeps, Defined, Usable
<1>2. ASSUME NEW n \in Names, NEW path \in KataConfigs, NEW d \in BOOLEAN, Add(n, path, d)
      PROVE  IInv'
  <2>1. Good(AddRuntime(tree, n, path, d))
        BY <1>2, AddRuntimeGood DEF IInv, Add
  <2> QED
        BY <1>2, <2>1 DEF IInv, Add, Good, Keeps, Defined, Usable
<1>3. ASSUME NEW n \in Names, Drop(n) PROVE IInv'
  <2>1. Good(RemoveRuntime(tree, n))
        BY <1>3, RemoveRuntimeGood DEF IInv, Drop
  <2> QED
        BY <1>3, <2>1 DEF IInv, Drop, Good, Keeps, Defined, Usable
<1>4. ASSUME Save PROVE IInv'
  <2>1. Good(tree)
        BY <1>4 DEF Save, IInv
  <2>2. CASE RendersEmpty(tree)
    <3>1. UserConfig(EmptyTree) = UserConfig(tree)
          BY <2>1, <2>2, RendersEmptyIsEmpty DEF Good, Editable
    <3>2. Good(EmptyTree)
          BY <2>1, <3>1, SameConfigKeeps, EmptyTreeIsFree, ValuesAreNoMarkers
          DEF IInv, Good, Defined, Usable
    <3> QED
          BY <1>4, <2>1, <2>2, <3>2 DEF IInv, Save, Content, Good, Keeps, Defined, Usable
  <2>3. CASE ~RendersEmpty(tree)
    <3>1. Content(tree) = tree \/ Content(tree) = EmptyTree
          BY DEF Content
    <3>2. tree # NoFile
          BY <2>1 DEF Good, Editable, WellFormed, NoFile
    <3> QED
          BY <1>4, <2>1, <2>3, <3>2 DEF IInv, Save, Content, Good, Keeps, Defined, Usable
  <2> QED
        BY <2>2, <2>3
<1>5. ASSUME UNCHANGED vars PROVE IInv'
      BY <1>5 DEF IInv, vars, Good, Keeps, Defined, Usable
<1> QED
      BY <1>1, <1>2, <1>3, <1>4, <1>5 DEF Next

\* The invariant says what it should of every tree there is.
LEMMA InvGood == IInv => StaysStartable /\ RemovalIsTheLoop
<1>1. ASSUME IInv, NEW t \in Trees PROVE Good(t)
      BY <1>1 DEF IInv, Trees, Content
<1>2. IInv => StaysStartable
      BY <1>1 DEF StaysStartable, Startable, Good, Defined, Usable, Annotations
<1>3. IInv => RemovalIsTheLoop
      BY <1>1, RemovesAsTheLoop DEF RemovalIsTheLoop, Good
<1> QED
    BY <1>2, <1>3

\* The default is the administrator's, if he had one and it was not replaced.
OwnDefault == DefaultPath \in UserLeaves(Content(original))

Defaults(t, defaulted) ==
  OwnDefault /\ ~defaulted => DefaultRuntime(t) = Content(original)[DefaultPath]

\* The invariant behind UserKept: what Keeps does not say.
DInv ==
  /\ IInv
  /\ Defaults(Content(file), "file" \in replaced)
  /\ tree # NoTree => Defaults(tree, "tree" \in replaced)

\* It holds at first.
LEMMA InitDefaults == Init => DInv
<1>1. OwnDefault => DefaultRuntime(Content(original)) = Content(original)[DefaultPath]
      BY DEF OwnDefault, UserLeaves, Leaves, DefaultRuntime, GetPath
<1> QED
    BY <1>1, InitGood DEF Init, DInv, Defaults

\* His default is none of kata's, so that no removal takes it.
LEMMA RemoveKeepsDefault ==
  ASSUME Editable(Content(original)), NEW t, Editable(t), NEW n \in Names, NEW lost,
         Defaults(t, lost)
  PROVE  Defaults(RemoveRuntime(t, n), lost)
<1>1. DefaultRuntime(RemoveRuntime(t, n)) = IF DefaultRuntime(t) = n THEN Absent ELSE DefaultRuntime(t)
      BY RemoveRuntimeEffect
<1>2. OwnDefault => Content(original)[DefaultPath] \notin Names
      BY DEF OwnDefault, UserLeaves, Managed
<1> QED
    BY <1>1, <1>2 DEF Defaults

\* AddRuntime leaves it alone, unless asked for setAsDefault.
LEMMA AddKeepsDefault ==
  ASSUME NEW t, Editable(t), NEW n \in Names, NEW path \in KataConfigs, NEW lost,
         Defaults(t, lost)
  PROVE  Defaults(AddRuntime(t, n, path, FALSE), lost)
<1> DEFINE a == AddRuntime(t, n, path, FALSE)
<1>1. DefaultRuntime(a) = DefaultRuntime(t)
  <2>1. path \notin {Table, Absent}
        BY PathsAreValues
  <2>2. AddsOnly(t, a, n)
        BY <2>1, AddRuntimeEffect
  <2> HIDE DEF a
  <2> QED
        BY <2>2 DEF AddsOnly
<1> QED
    BY <1>1 DEF Defaults

\* Every operation keeps it.
LEMMA NextDefaults == DInv /\ [Next]_vars => DInv'
<1> SUFFICES ASSUME DInv, [Next]_vars PROVE DInv'
    OBVIOUS
<1> DEFINE D(t, lost) == Defaults(t, lost)
<1>1. /\ IInv /\ IInv' /\ Editable(Content(original)) /\ D(Content(file), "file" \in replaced)
      /\ tree # NoTree => Editable(tree) /\ D(tree, "tree" \in replaced)
      BY NextGood DEF DInv, IInv, Good
<1>2. original' = original
      BY DEF Next, Setup, Add, Drop, Save, vars
<1>3. \A t, lost : Defaults(t, lost)' <=> Defaults(t, lost)
      BY <1>2 DEF Defaults, OwnDefault
<1> SUFFICES /\ D(Content(file'), "file" \in replaced')
             /\ tree' # NoTree => D(tree', "tree" \in replaced')
    BY <1>1, <1>2 DEF DInv, Defaults, OwnDefault
<1>4. CASE Setup
      BY <1>1, <1>4 DEF Setup, Both
<1>5. ASSUME NEW n \in Names, NEW path \in KataConfigs, NEW d \in BOOLEAN, Add(n, path, d)
      PROVE  /\ D(Content(file'), "file" \in replaced')
             /\ tree' # NoTree => D(tree', "tree" \in replaced')
  <2>1. /\ tree # NoTree /\ tree' = AddRuntime(tree, n, path, d) /\ file' = file
        /\ replaced' = IF d THEN replaced \union {"tree"} ELSE replaced
        BY <1>5 DEF Add
  <2>2. "file" \in replaced' <=> "file" \in replaced
        BY <2>1
  <2>3. CASE d
    <3>1. "tree" \in replaced'
          BY <2>1, <2>3
    <3>2. D(tree', "tree" \in replaced')
          BY <3>1 DEF Defaults
    <3> QED
          BY <1>1, <2>1, <2>2, <3>2
  <2>4. CASE ~d
    <3>1. tree' = AddRuntime(tree, n, path, FALSE) /\ replaced' = replaced
          BY <2>1, <2>4
    <3>2. D(tree', "tree" \in replaced)
          BY <1>1, <2>1, <3>1, AddKeepsDefault
    <3> QED
          BY <1>1, <2>1, <3>1, <3>2
  <2> QED
        BY <2>3, <2>4
<1>6. ASSUME NEW n \in Names, Drop(n)
      PROVE  /\ D(Content(file'), "file" \in replaced')
             /\ tree' # NoTree => D(tree', "tree" \in replaced')
      BY <1>1, <1>6, RemoveKeepsDefault DEF Drop
<1>7. CASE Save
  <2>1. Editable(tree) /\ D(tree, "tree" \in replaced)
        BY <1>1, <1>7 DEF Save
  <2>2. "file" \in replaced' <=> "tree" \in replaced
        BY <1>7 DEF Save, Both
  <2>3. "tree" \in replaced' <=> "tree" \in replaced
        BY <1>7 DEF Save, Both
  <2>4. DefaultRuntime(Content(file')) = DefaultRuntime(tree)
    <3>1. CASE RendersEmpty(tree)
      <4>1. DOMAIN tree = {Root} /\ DefaultPath # Root
            BY <2>1, <3>1, ZeroBytesIsRoot, DefaultIsApart DEF Editable
      <4>2. DefaultRuntime(tree) = Absent
            BY <4>1 DEF DefaultRuntime, GetPath
      <4> QED
            BY <1>7, <3>1, <4>2, EmptyTreeIsFree DEF Save, Content
    <3>2. CASE ~RendersEmpty(tree)
      <4>1. tree # NoFile
            BY <2>1 DEF Editable, WellFormed, NoFile
      <4> QED
            BY <1>7, <3>2, <4>1 DEF Save, Content
    <3> QED
          BY <3>1, <3>2
  <2>5. D(Content(file'), "tree" \in replaced)
        BY <2>1, <2>4 DEF Defaults
  <2> QED
        BY <1>7, <2>1, <2>2, <2>3, <2>5 DEF Save
<1>8. CASE UNCHANGED vars
      BY <1>1, <1>8 DEF vars
<1> QED
      BY <1>4, <1>5, <1>6, <1>7, <1>8 DEF Next

\* With what Keeps says, it is UserKept.
LEMMA DefaultsAndKept == DInv => UserKept
<1> SUFFICES ASSUME DInv PROVE UserKept
    OBVIOUS
<1>1. ASSUME NEW t, Keeps(t), NEW lost, Defaults(t, lost) PROVE Keeping(t, lost)
      BY <1>1 DEF Keeping, Keeps, Defaults, OwnDefault, DefaultRuntime
<1> QED
    BY <1>1 DEF UserKept, DInv, IInv, Good

\* The invariant behind Reverted.
RInv ==
  /\ IInv
  /\ Reverts(Content(original), Content(file))
  /\ tree # NoTree => Reverts(Content(original), tree)

\* It holds at first.
LEMMA InitReverts == Init => RInv
<1> SUFFICES ASSUME Init PROVE RInv
    OBVIOUS
<1>1. Kin(Content(file), Content(file)) /\ Cleared(Content(file), Content(file))
      BY DEF Kin, Cleared
<1> QED
      BY <1>1, InitGood DEF Init, RInv, Reverts

\* Every operation keeps it.
LEMMA NextReverts == RInv /\ [Next]_vars => RInv'
<1> SUFFICES ASSUME RInv, [Next]_vars PROVE RInv'
    OBVIOUS
<1> DEFINE b == Content(original)
<1>1. /\ IInv /\ IInv' /\ Editable(b)
      /\ Reverts(b, Content(file))
      /\ tree # NoTree => Reverts(b, tree) /\ Good(tree)
      BY NextGood DEF RInv, IInv
<1>2. \A t : Reverts(b, t) => Kin(b, t)
      BY DEF Reverts
<1>3. original' = original
      BY DEF Next, Setup, Add, Drop, Save, vars
<1> SUFFICES Reverts(b, Content(file')) /\ (tree' # NoTree => Reverts(b, tree'))
    BY <1>1, <1>3 DEF RInv
<1> HIDE DEF b
<1>4. CASE Setup
      BY <1>1, <1>4 DEF Setup
<1>5. ASSUME NEW n \in Names, NEW path \in KataConfigs, NEW d \in BOOLEAN, Add(n, path, d)
      PROVE  Reverts(b, Content(file')) /\ (tree' # NoTree => Reverts(b, tree'))
      BY <1>1, <1>2, <1>5, AddReverts DEF Add, b
<1>6. ASSUME NEW n \in Names, Drop(n)
      PROVE  Reverts(b, Content(file')) /\ (tree' # NoTree => Reverts(b, tree'))
      BY <1>1, <1>2, <1>6, RemoveReverts DEF Drop
<1>7. CASE Save
  <2>1. Good(tree) /\ Reverts(b, tree)
        BY <1>1, <1>7 DEF Save
  <2>2. CASE RendersEmpty(tree)
        BY <1>2, <1>7, <2>1, <2>2, EmptyReverts DEF Save, Content, Good, Editable
  <2>3. CASE ~RendersEmpty(tree)
    <3>1. tree # NoFile
          BY <2>1 DEF Good, Editable, WellFormed, NoFile
    <3> QED
          BY <1>7, <2>1, <2>3, <3>1 DEF Save, Content
  <2> QED
        BY <2>2, <2>3
<1>8. CASE UNCHANGED vars
      BY <1>1, <1>8 DEF vars
<1> QED
      BY <1>4, <1>5, <1>6, <1>7, <1>8 DEF Next

-----------------------------------------------------------------------------
(* The interface.                                                          *)

\* AddRuntime as a client sees it.
LEMMA AddRuntimeSeen ==
  ASSUME NEW t, Editable(t), NEW n \in Names, NEW path \in KataConfigs, NEW d \in BOOLEAN
  PROVE  View(AddRuntime(t, n, path, d)) = Interface!With(View(t), n, path, d)
<1> DEFINE a    == AddRuntime(t, n, path, FALSE)
           s    == SetPath(a, DefaultPath, n)
           R    == RuntimesOf(t) \union {n}
           P(m) == IF m = n THEN path ELSE GetPath(t, ConfigPath(m))
           D    == {DefaultRuntime(t)} \intersect Names
<1>1. AddRuntime(t, n, path, d) = IF d THEN s ELSE a
      BY DEF AddRuntime
<1>2. AddsOnly(t, a, n) /\ GetPath(a, ConfigPath(n)) = path
  <2>1. path \notin {Table, Absent}
        BY PathsAreValues
  <2>2. AddsOnly(t, a, n) /\ MakesEntry(t, a, n, path)
        BY <2>1, AddRuntimeEffect
  <2> HIDE DEF a
  <2> QED
        BY <2>2 DEF MakesEntry
<1> HIDE DEF a
<1>3. WellFormed(a) /\ R \subseteq Names
      BY <1>2 DEF AddsOnly, Editable, RuntimesOf
<1>4. RuntimesOf(a) = R /\ DefaultRuntime(a) = DefaultRuntime(t)
      BY <1>2 DEF AddsOnly
<1>5. \A m \in R : GetPath(a, ConfigPath(m)) = P(m)
      BY <1>2, <1>3, EntryPaths DEF AddsOnly
<1>6. \A m \in Names : /\ GetPath(s, ConfigPath(m)) = GetPath(a, ConfigPath(m))
                       /\ GetPath(s, RuntimePath(m)) = GetPath(a, RuntimePath(m))
      BY <1>3, EntryPaths, DefaultElsewhere
<1>7. RuntimesOf(s) = R
      BY <1>4, <1>6 DEF RuntimesOf
<1>8. \A m \in R : GetPath(s, ConfigPath(m)) = P(m)
      BY <1>3, <1>5, <1>6
<1>9. DefaultRuntime(s) = n
      BY <1>3, DefaultIsApart, SetPathElsewhere DEF DefaultRuntime
<1> HIDE DEF s, P
<1>10. View(a) = [paths |-> [m \in R |-> P(m)], default |-> D]
       BY <1>4, <1>5 DEF View
<1>11. View(s) = [paths |-> [m \in R |-> P(m)], default |-> {n}]
       BY <1>7, <1>8, <1>9 DEF View
<1>12. Interface!With(View(t), n, path, d) =
         [paths |-> [m \in R |-> P(m)], default |-> IF d THEN {n} ELSE D]
  <2>1. /\ DOMAIN View(t).paths = RuntimesOf(t) /\ View(t).default = D
        /\ \A m \in RuntimesOf(t) : View(t).paths[m] = GetPath(t, ConfigPath(m))
        BY DEF View
  <2>2. [m \in DOMAIN View(t).paths \union {n} |-> IF m = n THEN path ELSE View(t).paths[m]]
          = [m \in R |-> P(m)]
        BY <2>1 DEF P
  <2> HIDE DEF R, D
  <2> QED
        BY <2>1, <2>2 DEF Interface!With
<1> QED
      BY <1>1, <1>10, <1>11, <1>12

\* RemoveRuntime as a client sees it.
LEMMA RemoveRuntimeSeen ==
  ASSUME NEW t, Editable(t), NEW n \in Names
  PROVE  View(RemoveRuntime(t, n)) = Interface!Without(View(t), n)
<1> DEFINE r == RemoveRuntime(t, n)
           R == RuntimesOf(t) \ {n}
<1>1. /\ DefaultRuntime(r) = IF DefaultRuntime(t) = n THEN Absent ELSE DefaultRuntime(t)
      /\ RuntimesOf(r) = R
      /\ \A m \in Names \ {n}, q \in Path :
           IsPrefix(RuntimePath(m), q) => GetPath(r, q) = GetPath(t, q)
      BY RemoveRuntimeEffect
<1> HIDE DEF r
<1>2. \A m \in R : GetPath(r, ConfigPath(m)) = GetPath(t, ConfigPath(m))
      BY <1>1, EntryPaths DEF RuntimesOf
<1>3. {DefaultRuntime(r)} \intersect Names = ({DefaultRuntime(t)} \intersect Names) \ {n}
      BY <1>1, ValuesAreNoMarkers
<1>4. View(r) = [paths   |-> [m \in R |-> GetPath(t, ConfigPath(m))],
                 default |-> ({DefaultRuntime(t)} \intersect Names) \ {n}]
      BY <1>1, <1>2, <1>3 DEF View
<1>5. /\ DOMAIN View(t).paths = RuntimesOf(t)
      /\ View(t).default = {DefaultRuntime(t)} \intersect Names
      /\ \A m \in RuntimesOf(t) : View(t).paths[m] = GetPath(t, ConfigPath(m))
      BY DEF View
<1>6. [m \in DOMAIN View(t).paths \ {n} |-> View(t).paths[m]]
        = [m \in R |-> GetPath(t, ConfigPath(m))]
      BY <1>5
<1>7. Interface!Without(View(t), n) =
        [paths   |-> [m \in R |-> GetPath(t, ConfigPath(m))],
         default |-> ({DefaultRuntime(t)} \intersect Names) \ {n}]
      BY <1>5, <1>6 DEF Interface!Without
<1> QED
      BY <1>4, <1>7 DEF r

\* A tree that is written as zero bytes, an empty file and none are all the same.
LEMMA NothingSeen ==
  /\ \A f : View(Content(f)) = View(f)
  /\ \A t : WellFormed(t) /\ RendersEmpty(t) => View(NoFile) = View(t)
<1>1. \A t : RuntimesOf(t) = {} /\ DefaultRuntime(t) = Absent => View(t) = Interface!None
      BY ValuesAreNoMarkers DEF View, Interface!None
<1>2. RuntimesOf(NoFile) = {} /\ DefaultRuntime(NoFile) = Absent
      BY DEF RuntimesOf, DefaultRuntime, GetPath, NoFile
<1>3. View(NoFile) = Interface!None /\ View(EmptyTree) = Interface!None
      BY <1>1, <1>2, EmptyTreeIsFree
<1>4. ASSUME NEW t, WellFormed(t), RendersEmpty(t) PROVE View(t) = Interface!None
  <2>1. DOMAIN t = {Root} /\ DefaultPath # Root
        BY <1>4, ZeroBytesIsRoot, DefaultIsApart
  <2>2. DefaultRuntime(t) = Absent
        BY <2>1 DEF DefaultRuntime, GetPath
  <2> QED
        BY <1>1, <1>4, <2>2, RendersEmptyIsEmpty
<1> QED
      BY <1>3, <1>4 DEF Content

\* Every step is one of the interface, or changes nothing that is seen.  (Nothing says
\* that NoTree is no tree; if it were, its client would be one that has closed.)
LEMMA StepImplements == IInv /\ [Next]_vars => [Interface!Next]_Interface!vars
<1> SUFFICES ASSUME IInv, [Next]_vars PROVE Interface!Next \/ UNCHANGED Interface!vars
    OBVIOUS
<1> USE DEF Interface!Idle
<1>1. CASE Setup
  <2>1. tree' = Content(file) /\ file' = file
        BY <1>1 DEF Setup
  <2>2. CASE tree' = NoTree
        BY <2>1, <2>2 DEF Interface!Next, Interface!Close
  <2>3. CASE tree' # NoTree
        BY <2>1, <2>3, NothingSeen DEF Interface!Next, Interface!Open
  <2> QED
        BY <2>2, <2>3
<1>2. ASSUME NEW n \in Names, NEW path \in KataConfigs, NEW d \in BOOLEAN, Add(n, path, d)
      PROVE  Interface!Next
  <2>1. /\ tree # NoTree /\ tree' = AddRuntime(tree, n, path, d) /\ file' = file
        /\ Editable(tree)
        BY <1>2 DEF Add, IInv, Good
  <2>2. View(tree') = Interface!With(View(tree), n, path, d)
        BY <2>1, AddRuntimeSeen
  <2>3. CASE tree' = NoTree
        BY <2>1, <2>3 DEF Interface!Next, Interface!Close
  <2>4. CASE tree' # NoTree
        BY <2>1, <2>2, <2>4 DEF Interface!Next, Interface!AddRuntime
  <2> QED
        BY <2>3, <2>4
<1>3. ASSUME NEW n \in Names, Drop(n) PROVE Interface!Next
  <2>1. /\ tree # NoTree /\ tree' = RemoveRuntime(tree, n) /\ file' = file
        /\ Editable(tree)
        BY <1>3 DEF Drop, IInv, Good
  <2>2. View(tree') = Interface!Without(View(tree), n)
        BY <2>1, RemoveRuntimeSeen
  <2>3. CASE tree' = NoTree
        BY <2>1, <2>3 DEF Interface!Next, Interface!Close
  <2>4. CASE tree' # NoTree
        BY <2>1, <2>2, <2>4 DEF Interface!Next, Interface!RemoveRuntime
  <2> QED
        BY <2>3, <2>4
<1>4. CASE Save
  <2>1. /\ tree # NoTree /\ tree' = tree /\ WellFormed(tree)
        /\ file' = IF RendersEmpty(tree) THEN NoFile ELSE tree
        BY <1>4 DEF Save, IInv, Good, Editable
  <2>2. View(file') = View(tree)
        BY <2>1, NothingSeen
  <2> QED
        BY <2>1, <2>2 DEF Interface!Next, Interface!Save
<1>5. CASE UNCHANGED vars
      BY <1>5 DEF vars, Interface!vars
<1> QED
      BY <1>1, <1>2, <1>3, <1>4, <1>5 DEF Next

\* At first there is no client, and what the administrator wrote.
LEMMA InitImplements == Init => Interface!Init
BY DEF Init, Interface!Init

-----------------------------------------------------------------------------
(* The theorems.                                                           *)

\* Whatever is called in whatever order, every tree can be edited again, has no default
\* that names a runtime that is not there, and no runtime that cannot be used, also of
\* those the administrator had made (StaysStartable: containerd.go:62-176).
THEOREM SessionStaysStartable == Spec => []StaysStartable
<1> QED
    BY InitGood, NextGood, InvGood, PTL DEF Spec

\* What the administrator had in the file is in the file, and in the tree, after
\* any sequence of calls, also after Save has removed the file; his default too, but
\* where a client has asked for another one (UserKept).
THEOREM SessionKeepsUser == Spec => []UserKept
<1> QED
    BY InitDefaults, NextDefaults, DefaultsAndKept, PTL DEF Spec

\* The tables RemoveRuntime is said to leave out are those its loop deletes, one
\* after the other, with what it deletes before and after (RemovalIsTheLoop:
\* containerd.go:111-137).
THEOREM SessionRemovalIsTheLoop == Spec => []RemovalIsTheLoop
<1> QED
    BY InitGood, NextGood, InvGood, PTL DEF Spec

\* Whatever was added and removed, and in whatever order, saved and loaded: once the
\* last runtime is removed the tree is what the administrator's file is without
\* anything of kata's, but for a default that setAsDefault has replaced (Reverted:
\* containerd.go:57-139).
THEOREM SessionReverted == Spec => []Reverted
<1>1. RInv => Reverted
  <2>1. SUFFICES ASSUME RInv, NEW t \in Trees, RuntimesOf(t) = {}
                 PROVE  t \in {Content(original), Stripped(Content(original)),
                               Stripped(DeletePath(Content(original), DefaultPath))}
        BY DEF Reverted
  <2>2. Good(t) /\ Reverts(Content(original), t) /\ Editable(Content(original))
        BY <2>1 DEF RInv, IInv, Trees, Content
  <2> QED
        BY <2>1, <2>2, RevertedIs
<1> QED
      BY <1>1, InitReverts, NextReverts, PTL DEF Spec

\* The containerd back end is a runtime.Runtime: as far as a client sees the trees and
\* the file, a call changes the runtime it is given and nothing else, and Setup gives
\* what Save was called on (ImplementsInterface: containerd.go:42-176).
THEOREM SessionImplements == Spec => ImplementsInterface
<1> QED
    BY InitGood, NextGood, InitImplements, StepImplements, PTL
    DEF Spec, ImplementsInterface, Interface!Spec

=============================================================================
