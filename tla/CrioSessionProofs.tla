------------------------- MODULE CrioSessionProofs -------------------------
(***************************************************************************)
(* Theorems about CrioSession, for any class names, kata configurations,   *)
(* files of the administrator and built-in configuration: what is the      *)
(* administrator's stays, the default is always there, a removal never     *)
(* fails, a second run gives what the first one gave, and the calls are    *)
(* those of RuntimeInterface.                                              *)
(***************************************************************************)
EXTENDS CrioSession, TomlTreeProofs

-----------------------------------------------------------------------------
(* The paths of an entry and of the default.                               *)

\* The path of an entry.
LEMMA RuntimePathShape ==
  /\ RuntimesPath \in Path /\ Len(RuntimesPath) = 3
  /\ \A n \in Key :
       /\ RuntimePath(n) \in Path /\ Len(RuntimePath(n)) = 4
       /\ RuntimePath(n)[3] = "runtimes" /\ RuntimePath(n)[4] = n
       /\ \A i \in 1 .. 3 : RuntimePath(n)[i] = RuntimesPath[i]
<1>1. /\ RuntimesPath \in Path /\ Len(RuntimesPath) = 3
      /\ RuntimesPath[3] = "runtimes"
      BY KeysAreStrings DEF RuntimesPath, Path
<1> HIDE DEF Path
<1>2. ASSUME NEW n \in Key
      PROVE  /\ RuntimePath(n) \in Path /\ Len(RuntimePath(n)) = 4
             /\ RuntimePath(n)[3] = "runtimes" /\ RuntimePath(n)[4] = n
             /\ \A i \in 1 .. 3 : RuntimePath(n)[i] = RuntimesPath[i]
  <2>1. /\ Append(RuntimesPath, n) \in Path
        /\ Len(Append(RuntimesPath, n)) = Len(RuntimesPath) + 1
        /\ Append(RuntimesPath, n)[Len(RuntimesPath) + 1] = n
        /\ \A i \in 1 .. Len(RuntimesPath) : Append(RuntimesPath, n)[i] = RuntimesPath[i]
        BY <1>1, AppendKey
  <2> QED
        BY <1>1, <2>1 DEF RuntimePath
<1> QED
      BY <1>1, <1>2

\* A runtime that is in a tree has a name.
LEMMA RuntimeIsKey ==
  ASSUME NEW t, WellFormed(t), NEW r, RuntimePath(r) \in DOMAIN t
  PROVE  r \in Key
<1>1. Append(RuntimesPath, r) \in Seq(Key)
      BY DEF WellFormed, RuntimePath
<1>2. RuntimesPath \in Seq(Key \union {r})
      BY RuntimePathShape DEF Path
<1>3. /\ Append(RuntimesPath, r)[Len(RuntimesPath) + 1] = r
      /\ Len(Append(RuntimesPath, r)) = Len(RuntimesPath) + 1
      BY <1>2, AppendProperties
<1>4. Len(RuntimesPath) = 3
      BY RuntimePathShape
<1>5. Append(RuntimesPath, r)[4] = r /\ Len(Append(RuntimesPath, r)) = 4
      BY <1>3, <1>4
<1>6. Append(RuntimesPath, r)[4] \in Key
      BY <1>1, <1>5
<1> QED
      BY <1>5, <1>6

\* The tables above one entry are above every other, and none of them is the default
\* or in an entry.
LEMMA AboveEntries ==
  /\ DefaultPath \in Path /\ Len(DefaultPath) = 3 /\ DefaultPath[3] = "default_runtime"
  /\ \A n \in Key : \A a \in Ancestors(RuntimePath(n)) :
       /\ a \in Path /\ a # DefaultPath
       /\ \A m \in Key : a \in Ancestors(RuntimePath(m)) /\ ~IsPrefix(RuntimePath(m), a)
  /\ \A n \in Key : RuntimesPath \in Ancestors(RuntimePath(n))
  /\ \A n \in Key : Ancestors(DefaultPath) \subseteq Ancestors(RuntimePath(n))
<1>1. /\ DefaultPath \in Path /\ Len(DefaultPath) = 3 /\ DefaultPath[3] = "default_runtime"
      /\ \A i \in 1 .. 2 : DefaultPath[i] = RuntimesPath[i]
      BY KeysAreStrings DEF DefaultPath, RuntimesPath, Path
<1>2. \A p \in Path : Len(p) \in Nat
      BY DEF Path
<1>3. ASSUME NEW n \in Key, NEW a \in Ancestors(RuntimePath(n))
      PROVE  /\ a \in Path /\ a # DefaultPath
             /\ \A m \in Key : a \in Ancestors(RuntimePath(m)) /\ ~IsPrefix(RuntimePath(m), a)
  <2>0. RuntimePath(n) \in Path /\ Len(RuntimePath(n)) = 4
        BY RuntimePathShape
  <2>1. a \in Path /\ Len(a) < 4 /\ \A i \in 1 .. Len(a) : a[i] = RuntimePath(n)[i]
        BY <2>0, AncestorKeys
  <2>2. Len(a) \in Nat
        BY <1>2, <2>1
  <2>3. a # DefaultPath
        BY <1>1, <2>1, RuntimePathShape
  <2>4. ASSUME NEW m \in Key PROVE a \in Ancestors(RuntimePath(m)) /\ ~IsPrefix(RuntimePath(m), a)
    <3>1. /\ RuntimePath(m) \in Path /\ Len(RuntimePath(m)) = 4
          /\ \A i \in 1 .. 3 : RuntimePath(m)[i] = RuntimePath(n)[i]
          BY RuntimePathShape
    <3>2. \A i \in 1 .. Len(a) : a[i] = RuntimePath(m)[i]
          BY <2>1, <2>2, <3>1
    <3>3. a \in Ancestors(RuntimePath(m))
          BY <2>1, <3>1, <3>2, AncestorKeys
    <3>4. ~(Len(RuntimePath(m)) <= Len(a))
          BY <2>1, <2>2, <3>1
    <3>5. ~IsPrefix(RuntimePath(m), a)
          BY <2>1, <3>1, <3>4, PrefixKeys
    <3> QED
          BY <3>3, <3>5
  <2> QED
        BY <2>1, <2>3, <2>4
<1>4. \A n \in Key : RuntimesPath \in Ancestors(RuntimePath(n))
      BY RuntimePathShape, AncestorKeys
<1>5. ASSUME NEW n \in Key PROVE Ancestors(DefaultPath) \subseteq Ancestors(RuntimePath(n))
  <2>1. /\ Len(DefaultPath) <= Len(RuntimePath(n)) /\ RuntimePath(n) \in Path
        /\ \A i \in 1 .. Len(DefaultPath) - 1 : DefaultPath[i] = RuntimePath(n)[i]
        BY <1>1, RuntimePathShape
  <2> QED
        BY <1>1, <2>1, SameAncestors
<1> QED
      BY <1>1, <1>3, <1>4, <1>5

\* What belongs to an entry is apart from the default and from other entries.
LEMMA EntryIsApart ==
  ASSUME NEW n \in Key, NEW p \in Path, IsPrefix(RuntimePath(n), p)
  PROVE  /\ p # DefaultPath /\ ~IsPrefix(p, DefaultPath) /\ DefaultPath \notin Ancestors(p)
         /\ ~IsPrefix(DefaultPath, p)
         /\ \A m \in Key \ {n} : ~IsPrefix(RuntimePath(m), p)
<1>1. /\ RuntimePath(n) \in Path /\ Len(RuntimePath(n)) = 4
      /\ RuntimePath(n)[3] = "runtimes" /\ RuntimePath(n)[4] = n
      /\ \A m \in Key : RuntimePath(m) \in Path /\ Len(RuntimePath(m)) = 4 /\ RuntimePath(m)[4] = m
      BY RuntimePathShape
<1>2. Len(p) >= 4 /\ p[3] = "runtimes" /\ p[4] = n
      BY <1>1, PrefixKeys
<1>3. Len(p) \in Nat
      BY DEF Path
<1>4. /\ DefaultPath \in Path /\ Len(DefaultPath) = 3 /\ DefaultPath[3] = "default_runtime"
      BY AboveEntries
<1> HIDE DEF Path
<1>5. /\ 3 \in 1 .. Len(p) /\ 3 <= Len(p) /\ p[3] # DefaultPath[3]
      /\ 3 \in 1 .. Len(DefaultPath) /\ 3 <= Len(DefaultPath)
      BY <1>2, <1>3, <1>4
<1>6. ~IsPrefix(p, DefaultPath) /\ ~IsPrefix(DefaultPath, p) /\ DefaultPath \notin Ancestors(p)
      BY <1>4, <1>5, DifferentPaths
<1>7. ASSUME NEW m \in Key \ {n} PROVE ~IsPrefix(RuntimePath(m), p)
      BY <1>1, <1>2, <1>3, PrefixKeys
<1> QED
      BY <1>5, <1>6, <1>7

\* A key of an entry, and what is above it.
LEMMA EntryShape ==
  ASSUME NEW n \in Key, NEW k \in Key
  PROVE  /\ Entry(n, k) \in Path /\ Entry(n, k) # Root
         /\ IsPrefix(RuntimePath(n), Entry(n, k))
         /\ Ancestors(Entry(n, k)) = Ancestors(RuntimePath(n)) \union {RuntimePath(n)}
         /\ Entry(n, k) \notin Ancestors(RuntimePath(n)) \union {RuntimePath(n)}
<1>1. RuntimePath(n) \in Path /\ Len(RuntimePath(n)) = 4
      BY RuntimePathShape
<1> SUFFICES ASSUME NEW s \in Path, Len(s) = 4
             PROVE  LET p == Append(s, k)
                    IN  /\ p \in Path /\ p # Root /\ IsPrefix(s, p)
                        /\ Ancestors(p) = Ancestors(s) \union {s}
                        /\ p \notin Ancestors(s) \union {s}
    BY <1>1 DEF Entry
<1> DEFINE p == Append(s, k)
<1>2. /\ p \in Path /\ Len(p) = Len(s) + 1
      /\ \A i \in 1 .. Len(s) : p[i] = s[i]
      BY AppendKey
<1> HIDE DEF p, Path
<1>3. Len(s) <= Len(p) /\ Len(s) < Len(p) /\ \A i \in 1 .. Len(s) : s[i] = p[i]
      BY <1>2
<1>4. p # Root
      BY <1>2, <1>3 DEF Root
<1>5. IsPrefix(s, p)
      BY <1>2, <1>3, PrefixKeys
<1>6. Ancestors(s) \union {s} \subseteq Ancestors(p)
  <2>1. s \in Ancestors(p)
        BY <1>2, <1>3, AncestorKeys
  <2> QED
        BY <1>2, <2>1, AncestorOrder
<1>7. ASSUME NEW a \in Ancestors(p) PROVE a \in Ancestors(s) \union {s}
  <2>1. a \in Path /\ Len(a) < Len(p) /\ \A i \in 1 .. Len(a) : a[i] = p[i]
    <3>1. p \in Path
          BY <1>2
    <3> QED
          BY <3>1, AncestorKeys
  <2>2. Len(a) \in Nat
        BY <2>1 DEF Path
  <2>3. Len(a) <= Len(s)
        BY <1>2, <2>1, <2>2
  <2>4. \A i \in 1 .. Len(a) : a[i] = s[i]
        BY <1>2, <2>1, <2>2, <2>3
  <2>5. IsPrefix(a, s)
        BY <2>1, <2>3, <2>4, PrefixKeys
  <2> QED
        BY <2>1, <2>5, ProperPrefix
<1>8. p \notin Ancestors(s) \union {s}
      BY <1>2, <1>6, AncestorOrder
<1> QED
      BY <1>2, <1>4, <1>5, <1>6, <1>7, <1>8 DEF p

-----------------------------------------------------------------------------
(* What a tree has of the administrator's.                                 *)

\* A path is in a tree if there is something at it.
LEMMA InTree ==
  ASSUME NEW t, WellFormed(t), NEW p
  PROVE  /\ p \in DOMAIN t <=> GetPath(t, p) # Absent
         /\ p \in DOMAIN t => p \in Path /\ GetPath(t, p) = t[p]
BY DEF WellFormed, GetPath, Path

\* The value at a path, none if there is a table.
ValueAt(t, p) == IF GetPath(t, p) = Table THEN Absent ELSE GetPath(t, p)

\* The paths that are the administrator's alone.
Others == {p \in Path : p # DefaultPath /\ \A n \in Names : ~IsPrefix(RuntimePath(n), p)}

\* The default, unless it is a class.
OwnDefault(t) == IF DefaultRuntime(t) \in Names THEN Absent ELSE DefaultRuntime(t)

Own(t, p) ==
  IF p = DefaultPath THEN OwnDefault(t) ELSE IF p \in Others THEN ValueAt(t, p) ELSE Absent

Agree(t, u) == \A p \in Others : ValueAt(t, p) = ValueAt(u, p)

\* UserConfig, path by path.
LEMMA UserConfigAt ==
  ASSUME NEW t, Editable(t)
  PROVE  /\ DOMAIN UserConfig(t) = {p \in Path : Own(t, p) # Absent}
         /\ \A p \in DOMAIN UserConfig(t) : UserConfig(t)[p] = Own(t, p)
<1> DEFINE L == {q \in Leaves(t) : ~Managed(t, q)}
<1>1. UserConfig(t) = [p \in L |-> t[p]]
      BY DEF UserConfig
<1>2. WellFormed(t) /\ ~IsTable(t, DefaultPath)
      BY DEF Editable
<1>3. Names \subseteq Key /\ Absent \notin Names
      BY KeysAreStrings, ValuesAreNoMarkers
<1>4. \A n \in Names : ~IsPrefix(RuntimePath(n), DefaultPath)
  <2>1. ASSUME NEW n \in Names PROVE ~IsPrefix(RuntimePath(n), DefaultPath)
    <3>1. RuntimePath(n) \in Path /\ IsPrefix(RuntimePath(n), RuntimePath(n))
          BY <1>3, RuntimePathShape, PrefixOrder
    <3> QED
          BY <1>3, <3>1, EntryIsApart
  <2> QED
        BY <2>1
<1>5. ASSUME NEW p
      PROVE  p \in L <=> p \in Path /\ Own(t, p) # Absent
  <2>1. p \in DOMAIN t <=> GetPath(t, p) # Absent
        BY <1>2, InTree
  <2>2. p \in DOMAIN t => p \in Path /\ GetPath(t, p) = t[p]
        BY <1>2, InTree
  <2>3. CASE p = DefaultPath
    <3>1. DefaultPath \in Path
          BY AboveEntries
    <3>2. Managed(t, p) <=> t[p] \in Names
          BY <1>4, <2>3 DEF Managed
    <3>3. p \in L <=> p \in DOMAIN t /\ t[p] \notin Names
          BY <1>2, <2>1, <2>3, <3>2 DEF Leaves, IsTable, GetPath
    <3> QED
          BY <1>3, <2>1, <2>2, <2>3, <3>1, <3>3 DEF Own, OwnDefault, DefaultRuntime
  <2>4. CASE p # DefaultPath
    <3>1. p \in L <=> p \in DOMAIN t /\ t[p] # Table /\ \A n \in Names : ~IsPrefix(RuntimePath(n), p)
          BY <2>4 DEF Leaves, Managed
    <3> QED
          BY <2>1, <2>2, <2>4, <3>1 DEF Own, Others, ValueAt
  <2> QED
        BY <2>3, <2>4
<1>6. ASSUME NEW p \in L PROVE t[p] = Own(t, p)
  <2>1. p \in DOMAIN t /\ t[p] # Table /\ ~Managed(t, p)
        BY DEF Leaves
  <2>2. p \in Path /\ GetPath(t, p) = t[p]
        BY <1>2, <2>1, InTree
  <2>3. CASE p = DefaultPath
        BY <2>1, <2>2, <2>3 DEF Own, OwnDefault, DefaultRuntime, Managed
  <2>4. CASE p # DefaultPath
        BY <2>1, <2>2, <2>4 DEF Own, Others, ValueAt, Managed
  <2> QED
        BY <2>3, <2>4
<1> HIDE DEF L
<1> QED
      BY <1>1, <1>5, <1>6

\* UserConfig but for the default.
Rest(u) == [p \in DOMAIN u \ {DefaultPath} |-> u[p]]

\* Trees that agree in what is the administrator's have the same of it.
LEMMA SameUserConfig ==
  ASSUME NEW t, NEW u, Editable(t), Editable(u), Agree(t, u)
  PROVE  /\ Rest(UserConfig(t)) = Rest(UserConfig(u))
         /\ OwnDefault(t) = OwnDefault(u) => UserConfig(t) = UserConfig(u)
<1> DEFINE c == UserConfig(t)
           d == UserConfig(u)
<1>1. /\ DOMAIN c = {p \in Path : Own(t, p) # Absent}
      /\ \A p \in DOMAIN c : c[p] = Own(t, p)
      /\ DOMAIN d = {p \in Path : Own(u, p) # Absent}
      /\ \A p \in DOMAIN d : d[p] = Own(u, p)
      BY UserConfigAt
<1>2. \A p \in Path : p # DefaultPath => Own(t, p) = Own(u, p)
      BY DEF Own, Agree
<1>3. OwnDefault(t) = OwnDefault(u) => \A p \in Path : Own(t, p) = Own(u, p)
      BY <1>2 DEF Own
<1>4. /\ c = [p \in DOMAIN c |-> c[p]]
      /\ d = [p \in DOMAIN d |-> d[p]]
      BY DEF UserConfig
<1> HIDE DEF c, d
<1>5. DOMAIN c \ {DefaultPath} = DOMAIN d \ {DefaultPath}
      BY <1>1, <1>2
<1>6. \A p \in DOMAIN c \ {DefaultPath} : c[p] = d[p]
      BY <1>1, <1>2, <1>5
<1>7. Rest(c) = Rest(d)
      BY <1>5, <1>6 DEF Rest
<1>8. ASSUME OwnDefault(t) = OwnDefault(u) PROVE c = d
  <2>1. DOMAIN c = DOMAIN d /\ \A p \in DOMAIN c : c[p] = d[p]
        BY <1>1, <1>3, <1>8
  <2> QED
        BY <1>4, <2>1
<1> QED
      BY <1>7, <1>8 DEF c, d

-----------------------------------------------------------------------------
(* What is built in.                                                       *)

\* A tree has all that is built in, but for the default.
Covers(t) == DOMAIN BuiltIn \ {DefaultPath} \subseteq DOMAIN t

\* What CRI-O runs with, and what a client makes of it.
TreeOK(t) == Editable(t) /\ Fits(t) /\ Covers(t) /\ DefaultThere(t)

\* Nothing that is built in is in the entry of a class; on the way there are tables.
LEMMA BuiltInPaths ==
  ASSUME NEW p \in DOMAIN BuiltIn, NEW n \in Names
  PROVE  /\ p \in Path /\ ~IsPrefix(RuntimePath(n), p)
         /\ p \in Ancestors(RuntimePath(n)) => BuiltIn[p] = Table
<1>1. WellFormed(BuiltIn) /\ n \in Key
      BY BuiltInSound, KeysAreStrings DEF Editable
<1>2. p \in Path /\ RuntimePath(n) \in Path
      BY <1>1, InTree, RuntimePathShape
<1>3. RuntimePath(n) \notin DOMAIN BuiltIn
  <2>1. GetPath(BuiltIn, RuntimePath(n)) = Absent
        BY BuiltInSound DEF RuntimesOf
  <2> QED
        BY <1>1, <2>1, InTree
<1>4. ~IsPrefix(RuntimePath(n), p)
  <2>1. ASSUME RuntimePath(n) \in Ancestors(p) PROVE FALSE
        BY <1>1, <1>3, <2>1 DEF WellFormed
  <2> QED
        BY <1>2, <1>3, <2>1, ProperPrefix
<1>5. ASSUME p \in Ancestors(RuntimePath(n)) PROVE BuiltIn[p] = Table
  <2>1. GetPath(BuiltIn, p) \in {Table, Absent}
        BY <1>5, BuiltInSound DEF Editable
  <2> QED
        BY <1>1, <2>1, InTree
<1> QED
      BY <1>2, <1>4, <1>5

-----------------------------------------------------------------------------
(* AddRuntime.                                                             *)

\* A tree that differs from another in the entry of a class only, and has it.
EntryOnly(t, u, n) ==
  /\ WellFormed(u)
  /\ \A a \in Ancestors(RuntimePath(n)) \union {RuntimePath(n)} : GetPath(u, a) = Table
  /\ \A q \in Path : ~IsPrefix(RuntimePath(n), q) /\ q \notin Ancestors(RuntimePath(n)) =>
       GetPath(u, q) = GetPath(t, q)

\* To write a key of the entry is such a change.
LEMMA SetEntry ==
  ASSUME NEW t, NEW u, WellFormed(u), NEW n \in Key,
         \A a \in Ancestors(RuntimePath(n)) \union {RuntimePath(n)} : GetPath(u, a) \in {Table, Absent},
         \A q \in Path : ~IsPrefix(RuntimePath(n), q) /\ q \notin Ancestors(RuntimePath(n)) =>
           GetPath(u, q) = GetPath(t, q),
         NEW k \in Key, NEW v, v \notin {Table, Absent}
  PROVE  EntryOnly(t, SetPath(u, Entry(n, k), v), n)
<1> DEFINE p == Entry(n, k)
           s == SetPath(u, p, v)
<1>1. /\ p \in Path /\ p # Root /\ IsPrefix(RuntimePath(n), p)
      /\ Ancestors(p) = Ancestors(RuntimePath(n)) \union {RuntimePath(n)}
      BY EntryShape
<1> HIDE DEF p
<1>2. WellFormed(s)
      BY <1>1, SetPathWellFormed
<1>3. /\ \A q : ~IsPrefix(p, q) /\ q \notin Ancestors(p) => GetPath(s, q) = GetPath(u, q)
      /\ \A a \in Ancestors(p) : GetPath(u, a) \in {Table, Absent} => GetPath(s, a) = Table
      BY <1>1, SetPathElsewhere
<1>4. ASSUME NEW q \in Path, ~IsPrefix(RuntimePath(n), q), q \notin Ancestors(RuntimePath(n))
      PROVE  GetPath(s, q) = GetPath(t, q)
  <2>1. RuntimePath(n) \in Path
        BY RuntimePathShape
  <2>2. q # RuntimePath(n) /\ ~IsPrefix(p, q)
        BY <1>1, <1>4, <2>1, PrefixOrder
  <2> QED
        BY <1>1, <1>3, <1>4, <2>2
<1> QED
      BY <1>1, <1>2, <1>3, <1>4 DEF EntryOnly, p

\* The options are copied from a runtime that is there.
LEMMA SourcesThere ==
  ASSUME NEW t, WellFormed(t), NEW r \in Sources(t)
  PROVE  r \in Key /\ IsTable(t, RuntimePath(r))
<1>1. IsTable(t, RuntimePath(r))
      BY DEF Sources
<1>2. RuntimePath(r) \in DOMAIN t
      BY <1>1, MarkersDiffer DEF IsTable, GetPath
<1> QED
      BY <1>1, <1>2, RuntimeIsKey

\* The keys of an entry are beside one another.
LEMMA SiblingKeys ==
  ASSUME NEW n \in Key, NEW j \in Key, NEW k \in Key, j # k
  PROVE  ~IsPrefix(Entry(n, j), Entry(n, k)) /\ Entry(n, k) \notin Ancestors(Entry(n, j))
<1>1. RuntimePath(n) \in Path /\ Len(RuntimePath(n)) = 4
      BY RuntimePathShape
<1>2. ASSUME NEW i \in Key, NEW r \in Path, Len(r) = 4
      PROVE  Len(Append(r, i)) = 5 /\ Append(r, i)[5] = i
  <2>1. Len(Append(r, i)) = Len(r) + 1 /\ Append(r, i)[Len(r) + 1] = i
        BY AppendKey
  <2>2. Len(r) + 1 = 5
        BY <1>2
  <2> QED
        BY <2>1, <2>2
<1>3. \A i \in {j, k} : Entry(n, i) \in Path /\ Len(Entry(n, i)) = 5 /\ Entry(n, i)[5] = i
      BY <1>1, <1>2, EntryShape DEF Entry
<1>4. ~IsPrefix(Entry(n, j), Entry(n, k))
  <2>1. 5 \in 1 .. 5
        OBVIOUS
  <2> QED
        BY <1>3, <2>1, PrefixKeys
<1>5. Entry(n, k) \notin Ancestors(Entry(n, j))
      BY EntryShape
<1> QED
      BY <1>4, <1>5

\* AddRuntime without the default changes the entry only; its path is the one given.
LEMMA AddRuntimeEntry ==
  ASSUME NEW t, Editable(t), NEW n \in Names, NEW path, path \notin {Table, Absent}
  PROVE  /\ EntryOnly(t, AddRuntime(t, n, path, FALSE), n)
         /\ GetPath(AddRuntime(t, n, path, FALSE), Entry(n, "runtime_path")) = path
<1> DEFINE to  == RuntimePath(n)
           src == CHOOSE r \in Sources(t) : TRUE
           c   == IF Sources(t) = {} THEN t ELSE CopyTable(t, RuntimePath(src), to)
           s1  == SetPath(c, Entry(n, "runtime_path"), path)
           s2  == SetPath(s1, Entry(n, "runtime_type"), RuntimeType)
           s3  == SetPath(s2, Entry(n, "privileged_without_host_devices"), "true")
           Way(u)   == \A a \in Ancestors(to) \union {to} : GetPath(u, a) \in {Table, Absent}
           Frame(u) == \A q \in Path : ~IsPrefix(to, q) /\ q \notin Ancestors(to) =>
                         GetPath(u, q) = GetPath(t, q)
<1>1. /\ n \in Key /\ to \in Path /\ to # Root /\ WellFormed(t)
      /\ {"runtime_path", "runtime_type", "privileged_without_host_devices"} \subseteq Key
      /\ RuntimeType \notin {Table, Absent} /\ "true" \notin {Table, Absent}
  <2>1. n \in Key /\ to \in Path /\ Len(to) = 4
        BY KeysAreStrings, RuntimePathShape
  <2>2. to # Root
    <3>1. Len(Root) = 0
          BY DEF Root
    <3> HIDE DEF to
    <3> QED
          BY <2>1, <3>1
  <2> QED
        BY <2>1, <2>2, KeysAreStrings, ValuesAreNoMarkers DEF Editable
<1>2. AddRuntime(t, n, path, FALSE) = s3
      BY DEF AddRuntime
<1>3. Way(t) /\ Frame(t)
      BY DEF Editable
<1>4. WellFormed(c) /\ Way(c) /\ Frame(c)
  <2>1. CASE Sources(t) = {}
        BY <1>1, <1>3, <2>1
  <2>2. CASE Sources(t) # {}
    <3>1. src \in Sources(t)
          BY <2>2
    <3> HIDE DEF src
    <3>2. src \in Key /\ IsTable(t, RuntimePath(src))
          BY <1>1, <3>1, SourcesThere
    <3>3. RuntimePath(src) \in Path /\ Len(RuntimePath(src)) = Len(to)
          BY <1>1, <3>2, RuntimePathShape
    <3>4. c = CopyTable(t, RuntimePath(src), to)
          BY <2>2
    <3>5. \A a \in Ancestors(to) : GetPath(t, a) \in {Table, Absent}
          BY <1>3
    <3> HIDE DEF c, to
    <3>6. /\ WellFormed(c)
          /\ \A a \in Ancestors(to) \union {to} : GetPath(c, a) = Table
          /\ \A q \in Path : ~IsPrefix(to, q) /\ q \notin Ancestors(to) => GetPath(c, q) = GetPath(t, q)
          BY <1>1, <3>2, <3>3, <3>4, <3>5, CopyTableEffect
    <3> QED
          BY <3>6
  <2> QED
        BY <2>1, <2>2
<1> HIDE DEF c
<1>5. ASSUME NEW u, WellFormed(u), Way(u), Frame(u), NEW k \in Key, NEW v, v \notin {Table, Absent}
      PROVE  EntryOnly(t, SetPath(u, Entry(n, k), v), n)
      BY <1>1, <1>5, SetEntry
<1>6. ASSUME NEW u, EntryOnly(t, u, n) PROVE WellFormed(u) /\ Way(u) /\ Frame(u)
      BY <1>6 DEF EntryOnly
<1> HIDE DEF Way, Frame
<1>7. ASSUME NEW u, WellFormed(u), NEW k \in Key \ {"runtime_path"}, NEW v
      PROVE  GetPath(SetPath(u, Entry(n, k), v), Entry(n, "runtime_path"))
               = GetPath(u, Entry(n, "runtime_path"))
  <2>1. /\ Entry(n, k) \in Path /\ ~IsPrefix(Entry(n, k), Entry(n, "runtime_path"))
        /\ Entry(n, "runtime_path") \notin Ancestors(Entry(n, k))
        BY <1>1, EntryShape, SiblingKeys
  <2> QED
        BY <1>7, <2>1, SetPathElsewhere
<1>8. EntryOnly(t, s1, n) /\ GetPath(s1, Entry(n, "runtime_path")) = path
  <2>1. Entry(n, "runtime_path") \in Path
        BY <1>1, EntryShape
  <2> QED
        BY <1>1, <1>4, <1>5, <2>1, SetPathElsewhere
<1> HIDE DEF s1
<1>9. EntryOnly(t, s2, n) /\ GetPath(s2, Entry(n, "runtime_path")) = path
      BY <1>1, <1>5, <1>6, <1>7, <1>8
<1> HIDE DEF s2
<1>10. EntryOnly(t, s3, n) /\ GetPath(s3, Entry(n, "runtime_path")) = path
       BY <1>1, <1>5, <1>6, <1>7, <1>9
<1> QED
      BY <1>2, <1>10

\* Such a change keeps a tree one a client can have, with the default it had and all
\* that is the administrator's.
LEMMA EntryOnlyKeeps ==
  ASSUME NEW t, TreeOK(t), NEW n \in Names, NEW u, EntryOnly(t, u, n)
  PROVE  /\ TreeOK(u) /\ Agree(t, u)
         /\ DefaultRuntime(u) = DefaultRuntime(t)
         /\ IsTable(u, RuntimePath(n))
<1>1. /\ WellFormed(t) /\ WellFormed(u)
      /\ \A a \in Ancestors(RuntimePath(n)) \union {RuntimePath(n)} : GetPath(u, a) = Table
      /\ \A q \in Path : ~IsPrefix(RuntimePath(n), q) /\ q \notin Ancestors(RuntimePath(n)) =>
           GetPath(u, q) = GetPath(t, q)
      BY DEF EntryOnly, TreeOK, Editable
<1>2. /\ n \in Key /\ Names \union {DefaultCrioRuntime} \subseteq Key /\ RuntimePath(n) \in Path
      /\ IsPrefix(RuntimePath(n), RuntimePath(n))
      BY KeysAreStrings, RuntimePathShape, PrefixOrder
<1>3. GetPath(u, DefaultPath) = GetPath(t, DefaultPath)
  <2>1. DefaultPath \in Path /\ DefaultPath \notin Ancestors(RuntimePath(n))
        BY <1>2, AboveEntries
  <2>2. ~IsPrefix(RuntimePath(n), DefaultPath)
        BY <1>2, EntryIsApart
  <2> QED
        BY <1>1, <2>1, <2>2
<1>4. \A m \in Key \ {n} : GetPath(u, RuntimePath(m)) = GetPath(t, RuntimePath(m))
  <2>1. ASSUME NEW m \in Key \ {n} PROVE GetPath(u, RuntimePath(m)) = GetPath(t, RuntimePath(m))
    <3>1. RuntimePath(m) \in Path /\ IsPrefix(RuntimePath(m), RuntimePath(m))
          BY RuntimePathShape, PrefixOrder
    <3>2. ~IsPrefix(RuntimePath(n), RuntimePath(m))
          BY <1>2, <3>1, EntryIsApart
    <3>3. RuntimePath(m) \notin Ancestors(RuntimePath(n))
          BY <1>2, <3>1, AboveEntries
    <3> QED
          BY <1>1, <3>1, <3>2, <3>3
  <2> QED
        BY <2>1
<1>5. Editable(u)
  <2>1. ASSUME NEW m \in Names \union {DefaultCrioRuntime},
               NEW a \in Ancestors(RuntimePath(m)) \union {RuntimePath(m)}
        PROVE  GetPath(u, a) \in {Table, Absent}
    <3>1. CASE a \in Ancestors(RuntimePath(m))
      <4>1. a \in Ancestors(RuntimePath(n))
            BY <1>2, <3>1, AboveEntries
      <4> QED
            BY <1>1, <4>1
    <3>2. CASE a = RuntimePath(m) /\ m = n
          BY <1>1, <3>2
    <3>3. CASE a = RuntimePath(m) /\ m # n
      <4>1. GetPath(t, a) \in {Table, Absent}
            BY <3>3 DEF TreeOK, Editable
      <4> QED
            BY <1>2, <1>4, <3>3, <4>1
    <3> QED
          BY <3>1, <3>2, <3>3
  <2>2. ~IsTable(u, DefaultPath)
        BY <1>3 DEF TreeOK, Editable, IsTable
  <2> QED
        BY <1>1, <2>1, <2>2 DEF Editable
<1>6. ASSUME NEW p \in DOMAIN BuiltIn
      PROVE  /\ p # DefaultPath => p \in DOMAIN u
             /\ p \in DOMAIN u => (u[p] = Table <=> BuiltIn[p] = Table)
  <2>1. p \in Path /\ ~IsPrefix(RuntimePath(n), p)
        BY BuiltInPaths
  <2>2. CASE p \in Ancestors(RuntimePath(n))
    <3>1. GetPath(u, p) = Table /\ BuiltIn[p] = Table
          BY <1>1, <2>2, BuiltInPaths
    <3> QED
          BY <1>1, <3>1, InTree, MarkersDiffer
  <2>3. CASE p \notin Ancestors(RuntimePath(n))
    <3>1. GetPath(u, p) = GetPath(t, p)
          BY <1>1, <2>1, <2>3
    <3>2. (p \in DOMAIN u <=> p \in DOMAIN t) /\ (p \in DOMAIN u => u[p] = t[p])
          BY <1>1, <3>1, InTree
    <3> QED
          BY <3>2 DEF TreeOK, Fits, Covers
  <2> QED
        BY <2>2, <2>3
<1>7. DefaultThere(u)
  <2> SUFFICES ASSUME DefaultRuntime(u) # Absent
               PROVE  IsTable(u, RuntimePath(DefaultRuntime(u)))
      BY DEF DefaultThere
  <2> DEFINE r == DefaultRuntime(t)
  <2>1. DefaultRuntime(u) = r
        BY <1>3 DEF DefaultRuntime
  <2> HIDE DEF r
  <2>2. IsTable(t, RuntimePath(r))
        BY <2>1 DEF TreeOK, DefaultThere, r
  <2>3. r \in Key
    <3>1. RuntimePath(r) \in DOMAIN t
          BY <2>2, MarkersDiffer DEF IsTable, GetPath
    <3> QED
          BY <1>1, <3>1, RuntimeIsKey
  <2>4. GetPath(u, RuntimePath(r)) = Table
        BY <1>1, <1>4, <2>2, <2>3 DEF IsTable
  <2> QED
        BY <2>1, <2>4 DEF IsTable
<1>8. Agree(t, u)
  <2> SUFFICES ASSUME NEW p \in Others PROVE ValueAt(t, p) = ValueAt(u, p)
      BY DEF Agree
  <2>1. p \in Path /\ ~IsPrefix(RuntimePath(n), p)
        BY DEF Others
  <2>2. CASE p \in Ancestors(RuntimePath(n))
    <3>1. GetPath(u, p) = Table /\ GetPath(t, p) \in {Table, Absent}
          BY <1>1, <2>2 DEF TreeOK, Editable
    <3> QED
          BY <3>1 DEF ValueAt
  <2>3. CASE p \notin Ancestors(RuntimePath(n))
        BY <1>1, <2>1, <2>3 DEF ValueAt
  <2> QED
        BY <2>2, <2>3
<1>9. Fits(u) /\ Covers(u)
      BY <1>6 DEF Fits, Covers
<1> QED
      BY <1>1, <1>3, <1>5, <1>7, <1>8, <1>9 DEF TreeOK, DefaultRuntime, IsTable

\* To make a runtime that is there the default changes nothing else.
LEMMA SetDefaultKeeps ==
  ASSUME NEW t, TreeOK(t), NEW n \in Names, IsTable(t, RuntimePath(n))
  PROVE  /\ TreeOK(SetPath(t, DefaultPath, n)) /\ Agree(t, SetPath(t, DefaultPath, n))
         /\ DefaultRuntime(SetPath(t, DefaultPath, n)) = n
<1> DEFINE s == SetPath(t, DefaultPath, n)
<1>1. /\ WellFormed(t) /\ n \in Key /\ n \notin {Table, Absent}
      /\ Names \union {DefaultCrioRuntime} \subseteq Key
      BY KeysAreStrings, ValuesAreNoMarkers DEF TreeOK, Editable
<1>2. /\ DefaultPath \in Path /\ DefaultPath # Root
      /\ Ancestors(DefaultPath) \subseteq Ancestors(RuntimePath(n))
  <2>1. Len(Root) = 0
        BY DEF Root
  <2> QED
        BY <1>1, <2>1, AboveEntries
<1>3. \A a \in Ancestors(DefaultPath) : GetPath(t, a) \in {Table, Absent}
      BY <1>2 DEF TreeOK, Editable
<1>4. WellFormed(s)
      BY <1>1, <1>2, <1>3, SetPathWellFormed
<1>5. /\ GetPath(s, DefaultPath) = n
      /\ \A q : ~IsPrefix(DefaultPath, q) /\ q \notin Ancestors(DefaultPath) =>
           GetPath(s, q) = GetPath(t, q)
      /\ \A a \in Ancestors(DefaultPath) : GetPath(s, a) = Table
      BY <1>1, <1>2, <1>3, SetPathElsewhere
<1> HIDE DEF s
\* Below the default there was nothing.
<1>6. \A q \in DOMAIN t : IsPrefix(DefaultPath, q) => q = DefaultPath
  <2>1. ASSUME NEW q \in DOMAIN t, DefaultPath \in Ancestors(q) PROVE FALSE
        BY <1>1, <2>1 DEF WellFormed, TreeOK, Editable, IsTable, GetPath
  <2> QED
        BY <1>1, <1>2, <2>1, InTree, ProperPrefix
<1>7. \A m \in Key : GetPath(s, RuntimePath(m)) = GetPath(t, RuntimePath(m))
  <2>1. ASSUME NEW m \in Key PROVE GetPath(s, RuntimePath(m)) = GetPath(t, RuntimePath(m))
    <3>1. RuntimePath(m) \in Path /\ IsPrefix(RuntimePath(m), RuntimePath(m))
          BY RuntimePathShape, PrefixOrder
    <3>2. ~IsPrefix(DefaultPath, RuntimePath(m))
          BY <3>1, EntryIsApart
    <3>3. RuntimePath(m) \notin Ancestors(DefaultPath)
          BY <1>1, <1>2, <3>1, AboveEntries
    <3> QED
          BY <1>5, <3>2, <3>3
  <2> QED
        BY <2>1
<1>8. \A q \in Path : q # DefaultPath =>
        GetPath(s, q) = GetPath(t, q) \/ (GetPath(s, q) = Table /\ q \in Ancestors(DefaultPath))
                                      \/ (IsPrefix(DefaultPath, q) /\ GetPath(t, q) = Absent)
      BY <1>5, <1>6 DEF GetPath
<1>9. \A q \in Path : q # DefaultPath /\ IsPrefix(DefaultPath, q) => GetPath(s, q) = Absent
  <2>1. ASSUME NEW q \in Path, DefaultPath \in Ancestors(q), q \in DOMAIN s PROVE FALSE
    <3>1. s[DefaultPath] = Table
          BY <1>4, <2>1 DEF WellFormed
    <3>2. DefaultPath \in DOMAIN s
          BY <1>4, <2>1 DEF WellFormed
    <3> QED
          BY <1>1, <1>5, <3>1, <3>2 DEF GetPath
  <2> QED
        BY <1>2, <2>1, ProperPrefix DEF GetPath
<1>10. \A q \in Path : q # DefaultPath =>
         \/ GetPath(s, q) = GetPath(t, q)
         \/ q \in Ancestors(DefaultPath) /\ GetPath(s, q) = Table
       BY <1>8, <1>9
<1>11. Editable(s)
  <2>1. ASSUME NEW m \in Names \union {DefaultCrioRuntime},
               NEW a \in Ancestors(RuntimePath(m)) \union {RuntimePath(m)}
        PROVE  GetPath(s, a) \in {Table, Absent}
    <3>1. GetPath(t, a) \in {Table, Absent}
          BY DEF TreeOK, Editable
    <3>2. a \in Path /\ a # DefaultPath
      <4>1. CASE a \in Ancestors(RuntimePath(m))
            BY <1>1, <4>1, AboveEntries
      <4>2. CASE a = RuntimePath(m)
        <5>1. RuntimePath(m) \in Path /\ IsPrefix(RuntimePath(m), RuntimePath(m))
              BY <1>1, RuntimePathShape, PrefixOrder
        <5>2. RuntimePath(m) # DefaultPath
              BY <1>1, <5>1, EntryIsApart
        <5> QED
              BY <4>2, <5>1, <5>2
      <4> QED
            BY <4>1, <4>2
    <3> QED
          BY <1>10, <3>1, <3>2
  <2>2. ~IsTable(s, DefaultPath)
        BY <1>1, <1>5 DEF IsTable
  <2> QED
        BY <1>4, <2>1, <2>2 DEF Editable
<1>12. ASSUME NEW p \in DOMAIN BuiltIn
       PROVE  /\ p # DefaultPath => p \in DOMAIN s
              /\ p \in DOMAIN s => (s[p] = Table <=> BuiltIn[p] = Table)
  <2>1. p \in Path
        BY BuiltInPaths
  <2>2. CASE p = DefaultPath
    <3>1. GetPath(BuiltIn, DefaultPath) # Table /\ WellFormed(BuiltIn)
          BY BuiltInSound DEF Editable, IsTable
    <3>2. BuiltIn[p] # Table
          BY <2>2, <3>1, InTree
    <3>3. p \in DOMAIN s => s[p] # Table
          BY <1>1, <1>4, <1>5, <2>2, InTree
    <3> QED
          BY <2>2, <3>2, <3>3
  <2>3. CASE p # DefaultPath /\ GetPath(s, p) = GetPath(t, p)
    <3>1. (p \in DOMAIN s <=> p \in DOMAIN t) /\ (p \in DOMAIN s => s[p] = t[p])
          BY <1>1, <1>4, <2>3, InTree
    <3> QED
          BY <2>3, <3>1 DEF TreeOK, Fits, Covers
  <2>4. CASE p # DefaultPath /\ p \in Ancestors(DefaultPath) /\ GetPath(s, p) = Table
    <3>1. BuiltIn[p] = Table
          BY <1>2, <2>4, BuiltInPaths
    <3>2. p \in DOMAIN s /\ s[p] = Table
          BY <1>4, <2>4, InTree, MarkersDiffer
    <3> QED
          BY <3>1, <3>2
  <2> QED
        BY <1>10, <2>1, <2>2, <2>3, <2>4
<1>13. DefaultThere(s)
       BY <1>1, <1>5, <1>7 DEF DefaultThere, DefaultRuntime, IsTable
<1>14. Agree(t, s)
  <2> SUFFICES ASSUME NEW p \in Others PROVE ValueAt(t, p) = ValueAt(s, p)
      BY DEF Agree
  <2>1. p \in Path /\ p # DefaultPath
        BY DEF Others
  <2>2. CASE GetPath(s, p) = GetPath(t, p)
        BY <2>2 DEF ValueAt
  <2>3. CASE p \in Ancestors(DefaultPath) /\ GetPath(s, p) = Table
        BY <1>3, <2>3 DEF ValueAt
  <2> QED
        BY <1>10, <2>1, <2>2, <2>3
<1>15. Fits(s) /\ Covers(s)
       BY <1>12 DEF Fits, Covers
<1> QED
      BY <1>5, <1>11, <1>13, <1>14, <1>15 DEF TreeOK, DefaultRuntime, s

\* AddRuntime on the trees a client can have.
LEMMA AddRuntimeKeeps ==
  ASSUME NEW t, TreeOK(t), NEW n \in Names, NEW path, path \notin {Table, Absent}, NEW d \in BOOLEAN
  PROVE  /\ TreeOK(AddRuntime(t, n, path, d)) /\ Agree(t, AddRuntime(t, n, path, d))
         /\ ~d => DefaultRuntime(AddRuntime(t, n, path, d)) = DefaultRuntime(t)
<1> DEFINE u == AddRuntime(t, n, path, FALSE)
<1>1. EntryOnly(t, u, n)
      BY AddRuntimeEntry DEF TreeOK
<1>2. AddRuntime(t, n, path, d) = IF d THEN SetPath(u, DefaultPath, n) ELSE u
      BY DEF AddRuntime
<1> HIDE DEF u
<1>3. /\ TreeOK(u) /\ Agree(t, u)
      /\ DefaultRuntime(u) = DefaultRuntime(t)
      /\ IsTable(u, RuntimePath(n))
      BY <1>1, EntryOnlyKeeps
<1>4. TreeOK(SetPath(u, DefaultPath, n)) /\ Agree(u, SetPath(u, DefaultPath, n))
      BY <1>3, SetDefaultKeeps
<1>5. Agree(t, SetPath(u, DefaultPath, n))
      BY <1>3, <1>4 DEF Agree
<1> QED
      BY <1>2, <1>3, <1>4, <1>5

-----------------------------------------------------------------------------
(* RemoveRuntime.                                                          *)

\* There is always a runtime that is no class: the one that is built in.
LEMMA SomeOtherRuntime ==
  ASSUME NEW t, TreeOK(t)
  PROVE  \E r \in Key \ Names : RuntimePath(r) \in DOMAIN t /\ IsTable(t, RuntimesPath)
<1> DEFINE r == DefaultRuntime(BuiltIn)
<1>1. r \notin Names /\ r # Absent /\ IsTable(BuiltIn, RuntimePath(r))
      BY BuiltInSound DEF DefaultThere
<1> HIDE DEF r
<1>2. RuntimePath(r) \in DOMAIN BuiltIn /\ WellFormed(BuiltIn)
      BY <1>1, BuiltInSound, MarkersDiffer DEF IsTable, GetPath, Editable
<1>3. r \in Key
      BY <1>2, RuntimeIsKey
<1>4. RuntimePath(r) # DefaultPath
  <2>1. RuntimePath(r) \in Path /\ IsPrefix(RuntimePath(r), RuntimePath(r))
        BY <1>3, RuntimePathShape, PrefixOrder
  <2> QED
        BY <1>3, <2>1, EntryIsApart
<1>5. RuntimePath(r) \in DOMAIN t
      BY <1>2, <1>4 DEF TreeOK, Covers
<1>6. RuntimesPath \in Ancestors(RuntimePath(r))
      BY <1>3, AboveEntries
<1>7. IsTable(t, RuntimesPath)
      BY <1>5, <1>6 DEF TreeOK, Editable, WellFormed, IsTable, GetPath
<1> QED
      BY <1>1, <1>3, <1>5, <1>7

\* So the parent of an entry is a table whatever was removed before, and not empty.
LEMMA CanAlwaysRemove ==
  ASSUME NEW t, TreeOK(t), NEW n \in Names
  PROVE  CanRemove(t, n)
<1>1. IsTable(t, RuntimesPath)
      BY SomeOtherRuntime
<1>2. Front(RuntimePath(n)) = RuntimesPath
  <2>1. n \in Key /\ RuntimesPath \in Seq(Key)
        BY KeysAreStrings, RuntimePathShape DEF Path
  <2> QED
        BY <2>1 DEF Front, RuntimePath
<1> QED
      BY <1>1, <1>2 DEF CanRemove, CanDelete

\* A tree without the entry of a class, nor a default that named it.
EntryGone(t, u, n) ==
  /\ WellFormed(u)
  /\ \A q : GetPath(u, q) =
       IF IsPrefix(RuntimePath(n), q) \/ (DefaultRuntime(t) = n /\ IsPrefix(DefaultPath, q))
       THEN Absent ELSE GetPath(t, q)

\* The tables above an entry are never left empty: the loop upwards does nothing.
LEMMA PruneNothing ==
  ASSUME NEW d, WellFormed(d), NEW r \in Key, RuntimePath(r) \in DOMAIN d
  PROVE  PruneUpwards(d) = d
<1> DEFINE two == SubSeq(RuntimesPath, 1, 2)
           one == SubSeq(RuntimesPath, 1, 1)
<1>1. /\ RuntimesPath \in Path /\ RuntimesPath # Root
      /\ Front(RuntimesPath) = two
      /\ two # Root /\ Front(two) = one
      /\ two \in Ancestors(RuntimesPath)
  <2>1. RuntimesPath \in Path /\ Len(RuntimesPath) = 3
        BY RuntimePathShape
  <2>2. /\ two \in Path /\ Len(two) = 2 /\ \A i \in 1 .. 2 : two[i] = RuntimesPath[i]
        /\ one \in Path /\ Len(one) = 1 /\ \A i \in 1 .. 1 : one[i] = RuntimesPath[i]
    <3> HIDE DEF Path
    <3>1. 1 \in 0 .. Len(RuntimesPath) /\ 2 \in 0 .. Len(RuntimesPath)
          BY <2>1
    <3>2. two \in Path /\ Len(two) = 2 /\ \A i \in 1 .. 2 : two[i] = RuntimesPath[i]
          BY <2>1, <3>1, FirstKeys
    <3>3. one \in Path /\ Len(one) = 1 /\ \A i \in 1 .. 1 : one[i] = RuntimesPath[i]
          BY <2>1, <3>1, FirstKeys
    <3> QED
          BY <3>2, <3>3
  <2>3. Front(RuntimesPath) = two
        BY <2>1 DEF Front
  <2>4. two \in Ancestors(RuntimesPath)
        BY <2>1 DEF Ancestors
  <2> HIDE DEF one, two
  <2>5. two # Root /\ RuntimesPath # Root
    <3>1. Len(Root) = 0
          BY DEF Root
    <3> QED
          BY <2>1, <2>2, <3>1
  <2>6. Front(two) = one
    <3>1. Front(two) = SubSeq(two, 1, 1)
          BY <2>2 DEF Front
    <3>2. 1 \in 0 .. Len(two)
          BY <2>2
    <3>3. /\ Front(two) \in Path /\ Len(Front(two)) = 1
          /\ \A i \in 1 .. 1 : Front(two)[i] = two[i]
      <4> HIDE DEF Path
      <4>1. two \in Path
            BY <2>2
      <4>2. /\ SubSeq(two, 1, 1) \in Path /\ Len(SubSeq(two, 1, 1)) = 1
            /\ \A i \in 1 .. 1 : SubSeq(two, 1, 1)[i] = two[i]
            BY <3>2, <4>1, FirstKeys
      <4> QED
          BY <3>1, <4>2
    <3> QED
          BY <2>2, <3>3, SeqEqual DEF Path
  <2> QED
        BY <2>1, <2>3, <2>4, <2>5, <2>6
<1>2. /\ RuntimePath(r) # Root
      /\ Front(RuntimePath(r)) = RuntimesPath
      BY RuntimePathShape DEF RuntimePath, Front, Root, Path
<1>3. RuntimesPath \in Ancestors(RuntimePath(r)) /\ RuntimePath(r) \in Path
      BY AboveEntries, RuntimePathShape
<1>4. RuntimesPath \in DOMAIN d
      BY <1>3 DEF WellFormed
<1>5. two \in DOMAIN d
      BY <1>1, <1>4 DEF WellFormed
<1> HIDE DEF two, one
<1>6. Keys(d, RuntimesPath) # {} /\ Keys(d, two) # {} /\ Keys(d, one) # {}
      BY <1>1, <1>2, <1>4, <1>5 DEF Keys
<1> QED
      BY <1>6 DEF PruneUpwards, Prune, two, one

\* What RemoveRuntime takes away.
LEMMA RemoveRuntimeEffect ==
  ASSUME NEW t, TreeOK(t), NEW n \in Names
  PROVE  EntryGone(t, RemoveRuntime(t, n), n)
<1> DEFINE e == DropDefault(t, n)
           d == DeletePath(e, RuntimePath(n))
<1>1. /\ n \in Key /\ RuntimePath(n) \in Path /\ RuntimePath(n) # Root
      /\ DefaultPath \in Path /\ DefaultPath # Root /\ WellFormed(t)
  <2>1. Len(Root) = 0
        BY DEF Root
  <2> QED
        BY <2>1, KeysAreStrings, RuntimePathShape, AboveEntries DEF TreeOK, Editable
<1>2. /\ WellFormed(e)
      /\ \A q : GetPath(e, q) =
           IF DefaultRuntime(t) = n /\ IsPrefix(DefaultPath, q) THEN Absent ELSE GetPath(t, q)
      BY <1>1, DeletePathEffect DEF DropDefault
<1> HIDE DEF e
<1>3. /\ WellFormed(d)
      /\ \A q : GetPath(d, q) = IF IsPrefix(RuntimePath(n), q) THEN Absent ELSE GetPath(e, q)
      BY <1>1, <1>2, DeletePathEffect
<1> HIDE DEF d
<1>4. EntryGone(t, d, n)
      BY <1>2, <1>3 DEF EntryGone
<1>5. PICK r \in Key \ Names : RuntimePath(r) \in DOMAIN t
      BY SomeOtherRuntime
<1>6. RuntimePath(r) \in DOMAIN d
  <2>1. RuntimePath(r) \in Path /\ IsPrefix(RuntimePath(r), RuntimePath(r))
        BY RuntimePathShape, PrefixOrder
  <2>2. ~IsPrefix(RuntimePath(n), RuntimePath(r)) /\ ~IsPrefix(DefaultPath, RuntimePath(r))
        BY <1>1, <2>1, EntryIsApart
  <2>3. GetPath(t, RuntimePath(r)) # Absent
        BY <1>1, <1>5, InTree
  <2> QED
        BY <1>3, <1>4, <2>2, <2>3, InTree DEF EntryGone
<1>7. PruneUpwards(d) = d
      BY <1>3, <1>6, PruneNothing
<1> QED
      BY <1>4, <1>7 DEF RemoveRuntime, d, e

\* RemoveRuntime on the trees a client can have.
LEMMA RemoveRuntimeKeeps ==
  ASSUME NEW t, TreeOK(t), NEW n \in Names
  PROVE  /\ TreeOK(RemoveRuntime(t, n)) /\ Agree(t, RemoveRuntime(t, n))
         /\ OwnDefault(RemoveRuntime(t, n)) = OwnDefault(t)
<1> DEFINE u == RemoveRuntime(t, n)
<1>1. EntryGone(t, u, n)
      BY RemoveRuntimeEffect
<1> HIDE DEF u
<1>2. /\ WellFormed(u) /\ WellFormed(t)
      /\ \A q : GetPath(u, q) =
           IF IsPrefix(RuntimePath(n), q) \/ (DefaultRuntime(t) = n /\ IsPrefix(DefaultPath, q))
           THEN Absent ELSE GetPath(t, q)
      BY <1>1 DEF EntryGone, TreeOK, Editable
<1>3. /\ n \in Key /\ Names \union {DefaultCrioRuntime} \subseteq Key /\ RuntimePath(n) \in Path
      /\ IsPrefix(RuntimePath(n), RuntimePath(n))
      /\ DefaultPath \in Path /\ IsPrefix(DefaultPath, DefaultPath)
      /\ ~IsPrefix(RuntimePath(n), DefaultPath)
  <2>1. /\ n \in Key /\ RuntimePath(n) \in Path /\ IsPrefix(RuntimePath(n), RuntimePath(n))
        /\ DefaultPath \in Path /\ IsPrefix(DefaultPath, DefaultPath)
        BY KeysAreStrings, RuntimePathShape, PrefixOrder, AboveEntries
  <2>2. ~IsPrefix(RuntimePath(n), DefaultPath)
        BY <2>1, EntryIsApart
  <2> QED
        BY <2>1, <2>2, KeysAreStrings
\* Below the default there was nothing.
<1>4. \A q \in DOMAIN t : IsPrefix(DefaultPath, q) => q = DefaultPath
  <2>1. ASSUME NEW q \in DOMAIN t, DefaultPath \in Ancestors(q) PROVE FALSE
        BY <1>2, <2>1 DEF WellFormed, TreeOK, Editable, IsTable, GetPath
  <2> QED
        BY <1>2, <1>3, <2>1, InTree, ProperPrefix
<1>5. \A q : q # DefaultPath /\ ~IsPrefix(RuntimePath(n), q) => GetPath(u, q) = GetPath(t, q)
      BY <1>2, <1>4 DEF GetPath
<1>6. GetPath(u, DefaultPath) = IF DefaultRuntime(t) = n THEN Absent ELSE DefaultRuntime(t)
      BY <1>2, <1>3 DEF DefaultRuntime
<1>7. \A q : GetPath(u, q) \in {Absent, GetPath(t, q)}
      BY <1>2
<1>8. Editable(u)
  <2>1. ~IsTable(u, DefaultPath)
        BY <1>7, MarkersDiffer DEF TreeOK, Editable, IsTable
  <2>2. \A m \in Names \union {DefaultCrioRuntime} :
          \A a \in Ancestors(RuntimePath(m)) \union {RuntimePath(m)} : GetPath(u, a) \in {Table, Absent}
        BY <1>7 DEF TreeOK, Editable
  <2> QED
        BY <1>2, <2>1, <2>2 DEF Editable
<1>9. ASSUME NEW p \in DOMAIN BuiltIn
      PROVE  /\ p # DefaultPath => p \in DOMAIN u
             /\ p \in DOMAIN u => (u[p] = Table <=> BuiltIn[p] = Table)
  <2>1. ~IsPrefix(RuntimePath(n), p)
        BY BuiltInPaths
  <2>2. /\ p # DefaultPath => p \in DOMAIN t
        /\ p \in DOMAIN t => (t[p] = Table <=> BuiltIn[p] = Table)
        BY DEF TreeOK, Fits, Covers
  <2>3. p # DefaultPath => (p \in DOMAIN u <=> p \in DOMAIN t)
        BY <1>2, <1>5, <2>1, InTree
  <2>4. p \in DOMAIN u => p \in DOMAIN t /\ u[p] = t[p]
        BY <1>2, <1>7, InTree
  <2> QED
        BY <2>2, <2>3, <2>4
<1>10. DefaultThere(u)
  <2> SUFFICES ASSUME DefaultRuntime(u) # Absent
               PROVE  IsTable(u, RuntimePath(DefaultRuntime(u)))
      BY DEF DefaultThere
  <2> DEFINE r == DefaultRuntime(t)
  <2>1. DefaultRuntime(u) = r /\ r # n
        BY <1>6 DEF DefaultRuntime
  <2> HIDE DEF r
  <2>2. IsTable(t, RuntimePath(r))
        BY <2>1 DEF TreeOK, DefaultThere, r
  <2>3. r \in Key
    <3>1. RuntimePath(r) \in DOMAIN t
          BY <2>2, MarkersDiffer DEF IsTable, GetPath
    <3> QED
          BY <1>2, <3>1, RuntimeIsKey
  <2>4. RuntimePath(r) # DefaultPath /\ ~IsPrefix(RuntimePath(n), RuntimePath(r))
    <3>1. RuntimePath(r) \in Path /\ IsPrefix(RuntimePath(r), RuntimePath(r))
          BY <2>3, RuntimePathShape, PrefixOrder
    <3> QED
          BY <1>3, <2>1, <2>3, <3>1, EntryIsApart
  <2> QED
        BY <1>5, <2>1, <2>2, <2>4 DEF IsTable
<1>11. Agree(t, u)
       BY <1>5 DEF Agree, Others, ValueAt
<1>12. OwnDefault(u) = OwnDefault(t)
       BY <1>6, ValuesAreNoMarkers DEF OwnDefault, DefaultRuntime
<1>13. Fits(u) /\ Covers(u)
       BY <1>9 DEF Fits, Covers
<1> QED
      BY <1>8, <1>10, <1>11, <1>12, <1>13 DEF TreeOK, u

-----------------------------------------------------------------------------
(* What CRI-O makes of a file.                                             *)

\* What CRI-O can run with.
Running(t) == TreeOK(t) /\ DefaultPath \in DOMAIN t

\* The configuration of a file that has tables where CRI-O knows tables.
LEMMA EffectiveTree ==
  ASSUME NEW f, NEW t, Editable(t), Fits(t), t = IF f = NoFile THEN EmptyTree ELSE f
  PROVE  /\ Editable(Effective(f)) /\ Fits(Effective(f)) /\ Covers(Effective(f))
         /\ DefaultPath \in DOMAIN Effective(f)
         /\ DOMAIN Effective(f) = DOMAIN t \union DOMAIN BuiltIn
         /\ \A p \in DOMAIN t : Effective(f)[p] = t[p]
         /\ \A p \in DOMAIN BuiltIn \ DOMAIN t : Effective(f)[p] = BuiltIn[p]
<1> DEFINE e == Effective(f)
<1>1. /\ DOMAIN e = DOMAIN t \union DOMAIN BuiltIn
      /\ \A p \in DOMAIN t : e[p] = t[p]
      /\ \A p \in DOMAIN BuiltIn \ DOMAIN t : e[p] = BuiltIn[p]
      BY DEF Effective
<1> HIDE DEF e
<1>2. /\ WellFormed(t) /\ WellFormed(BuiltIn) /\ Editable(BuiltIn)
      /\ \A p \in DOMAIN t \intersect DOMAIN BuiltIn : t[p] = Table <=> BuiltIn[p] = Table
      BY BuiltInSound DEF Editable, Fits
<1>3. \A q : GetPath(e, q) \in {GetPath(t, q), GetPath(BuiltIn, q)}
      BY <1>1 DEF GetPath
<1>4. WellFormed(e)
  <2>1. DOMAIN e \subseteq Seq(Key) /\ Root \in DOMAIN e /\ e[Root] = Table
        BY <1>1, <1>2 DEF WellFormed
  <2>2. \A p \in DOMAIN e : e[p] # Absent
        BY <1>1, <1>2 DEF WellFormed
  <2>3. ASSUME NEW p \in DOMAIN e, NEW a \in Ancestors(p) PROVE a \in DOMAIN e /\ e[a] = Table
    <3>1. CASE p \in DOMAIN t
          BY <1>1, <1>2, <3>1 DEF WellFormed
    <3>2. CASE p \in DOMAIN BuiltIn
      <4>1. a \in DOMAIN BuiltIn /\ BuiltIn[a] = Table
            BY <1>2, <3>2 DEF WellFormed
      <4> QED
            BY <1>1, <1>2, <4>1
    <3> QED
          BY <1>1, <3>1, <3>2
  <2> QED
        BY <2>1, <2>2, <2>3 DEF WellFormed
<1>5. Editable(e)
      BY <1>2, <1>3, <1>4 DEF Editable, IsTable
<1>6. Fits(e) /\ Covers(e)
      BY <1>1, <1>2 DEF Fits, Covers
<1>7. DefaultPath \in DOMAIN e
      BY <1>1, BuiltInSound DEF DefaultRuntime, GetPath
<1> QED
      BY <1>1, <1>5, <1>6, <1>7 DEF e

\* What is built in is a configuration.
LEMMA BuiltInDefault ==
  LET r == DefaultRuntime(BuiltIn)
  IN  /\ r \in Key \ Names /\ RuntimePath(r) # DefaultPath /\ RuntimePath(r) # Root
      /\ RuntimePath(r) \in DOMAIN BuiltIn /\ BuiltIn[RuntimePath(r)] = Table
      /\ DefaultPath \in DOMAIN BuiltIn /\ DefaultPath # Root /\ BuiltIn[DefaultPath] = r
<1> DEFINE r == DefaultRuntime(BuiltIn)
<1>1. r \notin Names /\ r # Absent /\ IsTable(BuiltIn, RuntimePath(r))
      BY BuiltInSound DEF DefaultThere
<1>2. DefaultPath \in DOMAIN BuiltIn /\ BuiltIn[DefaultPath] = r
      BY <1>1 DEF DefaultRuntime, GetPath
<1> HIDE DEF r
<1>3. /\ RuntimePath(r) \in DOMAIN BuiltIn /\ BuiltIn[RuntimePath(r)] = Table
      /\ WellFormed(BuiltIn)
      BY <1>1, BuiltInSound, MarkersDiffer DEF IsTable, GetPath, Editable
<1>4. r \in Key
      BY <1>3, RuntimeIsKey
<1>5. RuntimePath(r) # DefaultPath
  <2>1. RuntimePath(r) \in Path /\ IsPrefix(RuntimePath(r), RuntimePath(r))
        BY <1>4, RuntimePathShape, PrefixOrder
  <2> QED
        BY <1>4, <2>1, EntryIsApart
<1>6. RuntimePath(r) # Root /\ DefaultPath # Root
  <2>1. Len(Root) = 0
        BY DEF Root
  <2> QED
        BY <1>4, <2>1, RuntimePathShape, AboveEntries
<1> QED
      BY <1>1, <1>2, <1>3, <1>4, <1>5, <1>6 DEF r

\* Without a file, or with an empty one, CRI-O runs with what is built in.
LEMMA EffectiveOfNothing ==
  ASSUME NEW f \in {NoFile, EmptyTree}
  PROVE  Running(Effective(f)) /\ f # Corrupt
<1> DEFINE r == DefaultRuntime(BuiltIn)
           e == Effective(f)
<1>1. DOMAIN EmptyTree = {Root} /\ EmptyTree[Root] = Table
      BY DEF EmptyTree
<1>2. Ancestors(Root) = {} /\ Root \in Seq(Key)
      BY DEF Ancestors, Root
<1>3. WellFormed(EmptyTree)
      BY <1>1, <1>2, MarkersDiffer DEF WellFormed
<1>4. \A q : GetPath(EmptyTree, q) \in {Table, Absent}
      BY <1>1 DEF GetPath
<1>5. ~IsTable(EmptyTree, DefaultPath)
      BY <1>1, BuiltInDefault, MarkersDiffer DEF IsTable, GetPath
<1>6. Editable(EmptyTree)
      BY <1>3, <1>4, <1>5 DEF Editable
<1>7. Fits(EmptyTree)
      BY <1>1, BuiltInSound DEF Fits, Editable, WellFormed
<1>8. EmptyTree = IF f = NoFile THEN EmptyTree ELSE f
      OBVIOUS
<1> HIDE DEF e
<1>9. /\ Editable(e) /\ Fits(e) /\ Covers(e)
      /\ DefaultPath \in DOMAIN e
      /\ DOMAIN e = DOMAIN EmptyTree \union DOMAIN BuiltIn
      /\ \A p \in DOMAIN BuiltIn \ DOMAIN EmptyTree : e[p] = BuiltIn[p]
      BY <1>6, <1>7, <1>8, EffectiveTree DEF e
<1>10. DefaultThere(e)
  <2>1. e[DefaultPath] = r /\ e[RuntimePath(r)] = Table /\ RuntimePath(r) \in DOMAIN e
        BY <1>1, <1>9, BuiltInDefault
  <2>2. DefaultRuntime(e) = r /\ IsTable(e, RuntimePath(r))
        BY <1>9, <2>1 DEF DefaultRuntime, GetPath, IsTable
  <2> QED
        BY <2>2 DEF DefaultThere
<1>11. f # Corrupt
  <2>1. DOMAIN Corrupt = {Root} /\ Corrupt[Root] = Absent
        BY DEF Corrupt
  <2>2. DOMAIN NoFile = {}
        BY DEF NoFile
  <2> QED
        BY <1>1, <2>1, <2>2, MarkersDiffer
<1> QED
      BY <1>9, <1>10, <1>11 DEF Running, TreeOK, e

\* A tree one can have is a file that says something.
LEMMA TreeIsFile ==
  ASSUME NEW t, WellFormed(t)
  PROVE  t # NoFile /\ t # Corrupt
<1>1. Root \in DOMAIN t /\ t[Root] # Absent
      BY DEF WellFormed
<1>2. DOMAIN NoFile = {}
      BY DEF NoFile
<1>3. DOMAIN Corrupt = {Root} /\ Corrupt[Root] = Absent
      BY DEF Corrupt
<1> QED
      BY <1>1, <1>2, <1>3

\* A file of the administrator's.
LEMMA EffectiveOfUserFile ==
  ASSUME NEW f \in UserFiles
  PROVE  Running(Effective(f)) /\ f # Corrupt
<1>1. Editable(f) /\ Fits(f) /\ DefaultThere(Effective(f))
      BY FilesAreSound
<1>2. f # NoFile /\ f # Corrupt
      BY <1>1, TreeIsFile DEF Editable
<1>3. /\ Editable(Effective(f)) /\ Fits(Effective(f)) /\ Covers(Effective(f))
      /\ DefaultPath \in DOMAIN Effective(f)
      BY <1>1, <1>2, EffectiveTree
<1> QED
      BY <1>1, <1>2, <1>3 DEF Running, TreeOK

\* A file a client has saved.
LEMMA EffectiveOfSaved ==
  ASSUME NEW t, TreeOK(t)
  PROVE  /\ Running(Effective(t)) /\ t # Corrupt
         /\ Agree(t, Effective(t))
         /\ DefaultPath \in DOMAIN t => OwnDefault(Effective(t)) = OwnDefault(t)
<1> DEFINE e == Effective(t)
           r == DefaultRuntime(BuiltIn)
<1>1. /\ Editable(t) /\ Fits(t) /\ Covers(t) /\ DefaultThere(t) /\ WellFormed(t)
      /\ t # NoFile /\ t # Corrupt
      BY TreeIsFile DEF TreeOK, Editable
<1>2. /\ Editable(e) /\ Fits(e) /\ Covers(e)
      /\ DefaultPath \in DOMAIN e
      /\ DOMAIN e = DOMAIN t \union DOMAIN BuiltIn
      /\ \A p \in DOMAIN t : e[p] = t[p]
      /\ \A p \in DOMAIN BuiltIn \ DOMAIN t : e[p] = BuiltIn[p]
      BY <1>1, EffectiveTree
<1> HIDE DEF e
<1>3. \A p : p # DefaultPath => GetPath(e, p) = GetPath(t, p)
      BY <1>1, <1>2 DEF GetPath, Covers
<1>4. DefaultPath \in DOMAIN t => GetPath(e, DefaultPath) = GetPath(t, DefaultPath)
      BY <1>2 DEF GetPath
<1>5. DefaultThere(e)
  <2>1. CASE DefaultPath \in DOMAIN t
    <3>1. \A p : GetPath(t, p) = Table => GetPath(e, p) = Table
          BY <1>3, <1>4, <2>1
    <3> QED
          BY <1>1, <1>4, <2>1, <3>1 DEF DefaultThere, DefaultRuntime, IsTable
  <2>2. CASE DefaultPath \notin DOMAIN t
    <3>1. e[DefaultPath] = r
          BY <1>2, <2>2, BuiltInDefault
    <3>2. RuntimePath(r) \in DOMAIN e /\ e[RuntimePath(r)] = Table
          BY <1>1, <1>2, BuiltInDefault DEF Fits
    <3>3. DefaultRuntime(e) = r /\ IsTable(e, RuntimePath(r))
          BY <1>2, <3>1, <3>2 DEF DefaultRuntime, GetPath, IsTable
    <3> QED
          BY <3>3 DEF DefaultThere
  <2> QED
        BY <2>1, <2>2
<1>6. Agree(t, e)
      BY <1>3 DEF Agree, Others, ValueAt
<1>7. DefaultPath \in DOMAIN t => OwnDefault(e) = OwnDefault(t)
      BY <1>4 DEF OwnDefault, DefaultRuntime
<1> QED
      BY <1>1, <1>2, <1>5, <1>6, <1>7 DEF Running, TreeOK, e

-----------------------------------------------------------------------------
(* AddRuntime after RemoveRuntime.                                         *)

\* The entry that is removed is not what the options are copied from.
LEMMA SameSources ==
  ASSUME NEW t, Running(t), NEW n \in Names \ {DefaultRuntime(t), DefaultCrioRuntime}
  PROVE  /\ Sources(RemoveRuntime(t, n)) = Sources(t)
         /\ Sources(t) # {} /\ n \notin Sources(t)
         /\ RemoveRuntime(t, n) = DeletePath(t, RuntimePath(n))
<1> DEFINE u == RemoveRuntime(t, n)
           d == DefaultRuntime(t)
<1>1. /\ TreeOK(t) /\ WellFormed(t) /\ EntryGone(t, u, n)
      BY RemoveRuntimeEffect DEF Running, TreeOK, Editable
<1>2. n \in Key /\ DefaultCrioRuntime \in Key
      BY KeysAreStrings
<1>3. d # Absent /\ IsTable(t, RuntimePath(d))
      BY <1>1, InTree DEF Running, TreeOK, DefaultThere, DefaultRuntime
<1>4. d \in Key
  <2>1. RuntimePath(d) \in DOMAIN t
        BY <1>3, MarkersDiffer DEF IsTable, GetPath
  <2> QED
        BY <1>1, <2>1, RuntimeIsKey
<1>5. u = DeletePath(t, RuntimePath(n))
  <2> DEFINE e == DeletePath(t, RuntimePath(n))
  <2>1. RuntimePath(n) \in Path /\ RuntimePath(n) # Root
    <3>1. Len(Root) = 0
          BY DEF Root
    <3> QED
          BY <1>2, <3>1, RuntimePathShape
  <2>2. /\ WellFormed(e)
        /\ \A q : GetPath(e, q) = IF IsPrefix(RuntimePath(n), q) THEN Absent ELSE GetPath(t, q)
        BY <1>1, <2>1, DeletePathEffect
  <2>3. RuntimePath(d) \in Path /\ ~IsPrefix(RuntimePath(n), RuntimePath(d))
    <3>1. RuntimePath(d) \in Path /\ IsPrefix(RuntimePath(d), RuntimePath(d))
          BY <1>4, RuntimePathShape, PrefixOrder
    <3> QED
          BY <1>2, <1>4, <3>1, EntryIsApart
  <2> HIDE DEF e
  <2>4. RuntimePath(d) \in DOMAIN e
        BY <1>3, <2>2, <2>3, InTree, MarkersDiffer DEF IsTable
  <2>5. PruneUpwards(e) = e
        BY <1>4, <2>2, <2>4, PruneNothing
  <2> QED
        BY <2>5 DEF RemoveRuntime, DropDefault, e
<1> HIDE DEF u, d
<1>6. DefaultRuntime(u) = d
  <2>1. /\ n # d
        /\ GetPath(u, DefaultPath) = IF IsPrefix(RuntimePath(n), DefaultPath) THEN Absent ELSE d
        BY <1>1 DEF EntryGone, DefaultRuntime, d
  <2>2. RuntimePath(n) \in Path /\ IsPrefix(RuntimePath(n), RuntimePath(n)) /\ DefaultPath \in Path
        BY <1>2, RuntimePathShape, PrefixOrder, AboveEntries
  <2>3. ~IsPrefix(RuntimePath(n), DefaultPath)
        BY <1>2, <2>2, EntryIsApart
  <2> QED
        BY <2>1, <2>3 DEF DefaultRuntime
<1>7. ASSUME NEW r \in {DefaultCrioRuntime, d}
      PROVE  IsTable(u, RuntimePath(r)) <=> IsTable(t, RuntimePath(r))
  <2>1. r \in Key /\ r # n
        BY <1>2, <1>4 DEF d
  <2>2. RuntimePath(r) \in Path /\ IsPrefix(RuntimePath(r), RuntimePath(r))
        BY <2>1, RuntimePathShape, PrefixOrder
  <2>3. ~IsPrefix(RuntimePath(n), RuntimePath(r)) /\ ~IsPrefix(DefaultPath, RuntimePath(r))
        BY <1>2, <2>1, <2>2, EntryIsApart
  <2> QED
        BY <1>1, <2>3 DEF EntryGone, IsTable
<1>8. Sources(u) = Sources(t)
  <2>1. {r \in {DefaultCrioRuntime, d} : IsTable(u, RuntimePath(r))}
          = {r \in {DefaultCrioRuntime, d} : IsTable(t, RuntimePath(r))}
        BY <1>7
  <2> QED
        BY <1>6, <2>1 DEF Sources, d
<1>9. Sources(t) # {} /\ n \notin Sources(t)
      BY <1>3 DEF Sources, d
<1> QED
      BY <1>5, <1>8, <1>9 DEF u

\* So AddRuntime gives the same whether the entry was there or not.
LEMMA AddAnew ==
  ASSUME NEW t, Running(t), NEW n \in Names \ {DefaultRuntime(t), DefaultCrioRuntime}, NEW path
  PROVE  AddRuntime(t, n, path, FALSE) = AddRuntime(RemoveRuntime(t, n), n, path, FALSE)
<1> DEFINE u   == RemoveRuntime(t, n)
           src == CHOOSE r \in Sources(t) : TRUE
<1>1. /\ Sources(u) = Sources(t) /\ Sources(t) # {} /\ n \notin Sources(t)
      /\ u = DeletePath(t, RuntimePath(n))
      BY SameSources
<1>2. src \in Sources(t) /\ src # n
      BY <1>1
<1> HIDE DEF src
<1>3. WellFormed(t) /\ n \in Key
      BY KeysAreStrings DEF Running, TreeOK, Editable
<1>4. src \in Key
      BY <1>2, <1>3, SourcesThere
<1>5. /\ RuntimePath(src) \in Path /\ RuntimePath(n) \in Path
      /\ Len(RuntimePath(src)) = Len(RuntimePath(n)) /\ RuntimePath(src) # RuntimePath(n)
      BY <1>2, <1>3, <1>4, RuntimePathShape
<1>6. CopyTable(u, RuntimePath(src), RuntimePath(n)) = CopyTable(t, RuntimePath(src), RuntimePath(n))
      BY <1>1, <1>3, <1>5, CopyTableAnew
<1> HIDE DEF u
<1> QED
      BY <1>1, <1>6 DEF AddRuntime, src, u

-----------------------------------------------------------------------------
(* The inductive invariants.                                               *)

\* A client's tree, what CRI-O runs with and what the file makes of it are sound, and
\* it is a client that saves.
Sound ==
  /\ saving \in {"no", "begun", "raced"}
  /\ saving # "no" => tree # NoTree
  /\ tree # NoTree => TreeOK(tree)
  /\ live # Down => Running(live)
  /\ file # Corrupt => Running(Effective(file))

\* What is the administrator's is in the client's tree, too, and a default of his is
\* never left to what is built in: Save would otherwise change what it stands for.
TreeKept ==
  /\ tree # NoTree => Same(UserConfig(tree), user)
  /\ "default" \notin blame => DefaultPath \in DOMAIN user

UserKept ==
  /\ saving = "raced" => "raced" \in blame
  /\ blame \subseteq {"default"} => KeepsUserConfig /\ TreeKept

\* At the start all is sound.
LEMMA SoundInit == Init => Sound
<1> SUFFICES ASSUME Init PROVE Sound
    OBVIOUS
<1>1. Running(Effective(file)) /\ file # Corrupt
      BY EffectiveOfNothing, EffectiveOfUserFile DEF Init
<1> QED
      BY <1>1 DEF Init, Sound

\* Every step leaves it sound.
LEMMA SoundStep == Sound /\ [Next]_vars => Sound'
<1> SUFFICES ASSUME Sound, [Next]_vars PROVE Sound'
    OBVIOUS
<1> USE DEF Sound
<1>1. CASE Setup
      BY <1>1 DEF Setup, Running
<1>2. ASSUME NEW n \in Names, NEW path \in KataConfigs, NEW d \in BOOLEAN, Add(n, path, d)
      PROVE  Sound'
  <2>1. path \notin {Table, Absent}
        BY PathsAreValues
  <2>2. TreeOK(AddRuntime(tree, n, path, d))
        BY <1>2, <2>1, AddRuntimeKeeps DEF Add, Idle
  <2> QED
        BY <1>2, <2>2 DEF Add, Idle
<1>3. ASSUME NEW n \in Names, Drop(n) PROVE Sound'
  <2>1. TreeOK(RemoveRuntime(tree, n))
        BY <1>3, RemoveRuntimeKeeps DEF Drop, Idle
  <2> QED
        BY <1>3, <2>1 DEF Drop, Idle
<1>4. CASE TruncateFile
  <2>1. Running(Effective(EmptyTree))
        BY EffectiveOfNothing
  <2> QED
        BY <1>4, <2>1 DEF TruncateFile, Idle
<1>5. CASE WriteFile \/ SaveCut
  <2>1. tree # NoTree /\ Running(Effective(tree)) /\ saving' = "no" /\ live' = live
        BY <1>5, EffectiveOfSaved DEF WriteFile, SaveCut
  <2>2. tree' \in {tree, NoTree} /\ file' \in {tree, file, Corrupt}
        BY <1>5 DEF WriteFile, SaveCut
  <2> QED
        BY <2>1, <2>2
<1>6. CASE Restart
      BY <1>6 DEF Restart, Idle
<1>7. CASE Finish
      BY <1>7 DEF Finish, Idle
<1>8. CASE CrioStarts
      BY <1>8 DEF CrioStarts
<1>9. CASE CrioStops
      BY <1>9 DEF CrioStops
<1>10. CASE EditFile
  <2>1. Running(Effective(file'))
        BY <1>10, EffectiveOfUserFile DEF EditFile
  <2> QED
        BY <1>10, <2>1 DEF EditFile
<1>11. CASE UNCHANGED vars
       BY <1>11 DEF vars
<1> QED
    BY <1>1, <1>2, <1>3, <1>4, <1>5, <1>6, <1>7, <1>8, <1>9, <1>10, <1>11 DEF Next

\* The same of the administrator's, with and without the default.
LEMMA SameOf ==
  ASSUME NEW c, NEW d
  PROVE  /\ "default" \in blame => (Same(c, d) <=> Rest(c) = Rest(d))
         /\ "default" \notin blame => (Same(c, d) <=> c = d)
BY DEF Same, Rest

\* The default of a file is the administrator's unless it is a class.
LEMMA DefaultOfFile ==
  ASSUME NEW f, Running(Effective(f)), "default" \notin ClassDefault(f)
  PROVE  DefaultPath \in DOMAIN UserConfig(Effective(f))
<1> DEFINE e == Effective(f)
<1>1. Editable(e) /\ DefaultPath \in DOMAIN e /\ WellFormed(e)
      BY DEF Running, TreeOK, Editable
<1>2. DefaultRuntime(e) \notin Names
      BY DEF ClassDefault
<1> HIDE DEF e
<1>3. Own(e, DefaultPath) # Absent
      BY <1>1, <1>2, InTree DEF Own, OwnDefault, DefaultRuntime
<1> QED
      BY <1>1, <1>3, UserConfigAt, AboveEntries DEF e

\* At the start the configuration is the administrator's.
LEMMA UserKeptInit == Init => UserKept
<1> SUFFICES ASSUME Init PROVE UserKept
    OBVIOUS
<1>1. Running(Effective(file)) /\ file # Corrupt
      BY EffectiveOfNothing, EffectiveOfUserFile DEF Init
<1>2. /\ user = UserConfig(Effective(file)) /\ blame = ClassDefault(file) /\ tree = NoTree
      /\ saving = "no"
      BY DEF Init
<1>3. Same(UserConfig(Effective(file)), user)
      BY <1>2, SameOf
<1>4. "default" \notin blame => DefaultPath \in DOMAIN user
      BY <1>1, <1>2, DefaultOfFile
<1> QED
      BY <1>1, <1>2, <1>3, <1>4 DEF UserKept, KeepsUserConfig, TreeKept

\* A step that leaves what is the administrator's of CRI-O's configuration, and of
\* the client's tree, as it was.
LEMMA UserKeptStep == Sound /\ UserKept /\ [Next]_vars => UserKept'
<1> SUFFICES ASSUME Sound, UserKept, [Next]_vars
             PROVE  /\ (saving = "raced" => "raced" \in blame)'
                    /\ blame' \subseteq {"default"} => KeepsUserConfig' /\ TreeKept'
    BY DEF UserKept
<1>0. (saving = "raced" => "raced" \in blame)'
  <2>1. saving' = "raced" => \/ EditFile /\ saving # "no"
                             \/ saving = "raced" /\ blame \subseteq blame'
        BY DEF Next, Setup, Add, Drop, TruncateFile, WriteFile, SaveCut, Restart, Finish,
               CrioStarts, CrioStops, EditFile, Idle, vars
  <2>2. EditFile /\ saving # "no" => "raced" \in blame'
        BY DEF EditFile, Sound
  <2> QED
        BY <2>1, <2>2 DEF UserKept
<1> SUFFICES ASSUME blame' \subseteq {"default"}
             PROVE  /\ KeepsUserConfig'
                    /\ tree' # NoTree => Same(UserConfig(tree), user)'
                    /\ ("default" \notin blame => DefaultPath \in DOMAIN user)'
    BY <1>0 DEF TreeKept
<1> DEFINE conf == UserConfig(Effective(file))
           mine == UserConfig(tree)
\* The same before a step, and with the default given up after it.
<1>1. ASSUME NEW c, NEW d, Same(c, d), blame \subseteq blame'
      PROVE  Same(c, d)'
  <2>1. "default" \in blame' => Rest(c) = Rest(d)
        BY <1>1, SameOf
  <2>2. "default" \notin blame' => c = d
        BY <1>1, SameOf
  <2> QED
        BY <2>1, <2>2 DEF Same, Rest
<1>2. ASSUME blame \subseteq {"default"}
      PROVE  /\ saving = "no" => file # Corrupt /\ Same(conf, user)
             /\ tree # NoTree => Same(mine, user)
             /\ "default" \notin blame => DefaultPath \in DOMAIN user
      BY <1>2 DEF UserKept, KeepsUserConfig, TreeKept
<1>3. CASE UNCHANGED <<file, saving, user, blame>> /\ tree' \in {tree, NoTree}
  <2>1. blame \subseteq {"default"}
        BY <1>3
  <2> QED
        BY <1>2, <1>3, <2>1 DEF KeepsUserConfig, Same
<1>4. CASE Setup
  <2>1. /\ blame' = blame /\ blame \subseteq {"default"}
        /\ file # Corrupt /\ Same(UserConfig(live), conf) /\ saving = "no"
        BY <1>4 DEF Setup, Sound
  <2>2. Same(UserConfig(live), user)
        BY <1>2, <2>1, SameOf
  <2> QED
        BY <1>2, <1>4, <2>1, <2>2 DEF Setup, KeepsUserConfig, Same
<1>5. ASSUME NEW n \in Names, NEW path \in KataConfigs, NEW d \in BOOLEAN, Add(n, path, d)
      PROVE  /\ KeepsUserConfig'
             /\ tree' # NoTree => Same(UserConfig(tree), user)'
             /\ ("default" \notin blame => DefaultPath \in DOMAIN user)'
  <2> DEFINE u == AddRuntime(tree, n, path, d)
  <2>1. /\ tree # NoTree /\ tree' = u /\ file' = file /\ user' = user
        /\ blame \subseteq blame' /\ (d => "default" \in blame')
        /\ saving = "no" /\ saving' = "no"
        BY <1>5 DEF Add, Idle
  <2>2. /\ blame \subseteq {"default"}
        BY <2>1
  <2>3. path \notin {Table, Absent} /\ TreeOK(tree)
        BY <2>1, PathsAreValues DEF Sound
  <2>4. /\ TreeOK(u) /\ Agree(tree, u)
        /\ ~d => DefaultRuntime(u) = DefaultRuntime(tree)
        BY <2>3, AddRuntimeKeeps
  <2> HIDE DEF u
  <2>5. /\ Rest(mine) = Rest(UserConfig(u))
        /\ ~d => mine = UserConfig(u)
        BY <2>3, <2>4, SameUserConfig DEF TreeOK, OwnDefault
  <2>6. CASE "default" \in blame'
    <3>1. Rest(mine) = Rest(user) /\ Rest(conf) = Rest(user)
          BY <1>2, <2>1, <2>2, SameOf
    <3>2. Rest(UserConfig(u)) = Rest(user)
          BY <2>5, <3>1
    <3>3. KeepsUserConfig'
          BY <1>2, <2>1, <2>2, <2>6, <3>1 DEF KeepsUserConfig, Same, Rest
    <3>4. Same(UserConfig(tree), user)'
          BY <2>1, <2>6, <3>2 DEF Same, Rest
    <3> QED
          BY <2>6, <3>3, <3>4
  <2>7. CASE "default" \notin blame'
    <3>1. mine = user /\ conf = user /\ DefaultPath \in DOMAIN user
          BY <1>2, <2>1, <2>2, <2>7, SameOf
    <3>2. UserConfig(u) = user
          BY <2>1, <2>5, <2>7, <3>1
    <3>3. KeepsUserConfig'
          BY <1>2, <2>1, <2>2, <2>7, <3>1 DEF KeepsUserConfig, Same
    <3>4. Same(UserConfig(tree), user)'
          BY <2>1, <2>7, <3>2 DEF Same
    <3> QED
          BY <2>1, <3>1, <3>3, <3>4
  <2> QED
        BY <2>6, <2>7
<1>6. ASSUME NEW n \in Names, Drop(n)
      PROVE  /\ KeepsUserConfig'
             /\ tree' # NoTree => Same(UserConfig(tree), user)'
             /\ ("default" \notin blame => DefaultPath \in DOMAIN user)'
  <2> DEFINE u == RemoveRuntime(tree, n)
  <2>1. /\ tree # NoTree /\ tree' = u /\ UNCHANGED <<file, saving, user, blame>>
        /\ blame \subseteq {"default"} /\ TreeOK(tree) /\ saving = "no"
        BY <1>6 DEF Drop, Idle, Sound
  <2>2. TreeOK(u) /\ Agree(tree, u) /\ OwnDefault(u) = OwnDefault(tree)
        BY <2>1, RemoveRuntimeKeeps
  <2> HIDE DEF u
  <2>3. mine = UserConfig(u)
        BY <2>1, <2>2, SameUserConfig DEF TreeOK
  <2>4. Same(UserConfig(u), user)
        BY <1>2, <2>1, <2>3
  <2> QED
        BY <1>2, <2>1, <2>4 DEF KeepsUserConfig, Same
<1>7. CASE WriteFile
  <2> DEFINE e == Effective(tree)
  <2>0. blame \subseteq {"default"} /\ saving = "begun"
        BY <1>7 DEF WriteFile, Sound, UserKept
  <2>1. /\ tree # NoTree /\ file' = tree /\ UNCHANGED <<tree, user, blame>>
        /\ blame \subseteq {"default"} /\ TreeOK(tree)
        BY <1>7, <2>0 DEF WriteFile, Sound
  <2>2. /\ Running(e) /\ tree # Corrupt /\ Agree(tree, e)
        /\ DefaultPath \in DOMAIN tree => OwnDefault(e) = OwnDefault(tree)
        BY <2>1, EffectiveOfSaved
  <2> HIDE DEF e
  <2>3. Rest(mine) = Rest(UserConfig(e)) /\ (OwnDefault(e) = OwnDefault(tree) => mine = UserConfig(e))
        BY <2>1, <2>2, SameUserConfig DEF TreeOK, Running
  <2>4. Same(UserConfig(e), user)
    <3>1. CASE "default" \in blame
          BY <1>2, <2>1, <2>3, <3>1, SameOf
    <3>2. CASE "default" \notin blame
      <4>1. mine = user /\ DefaultPath \in DOMAIN user
            BY <1>2, <2>1, <3>2, SameOf
      <4>2. DefaultPath \in DOMAIN tree
        <5>1. Own(tree, DefaultPath) # Absent
              BY <2>1, <4>1, UserConfigAt DEF TreeOK
        <5> QED
              BY <5>1, ValuesAreNoMarkers DEF Own, OwnDefault, DefaultRuntime, GetPath
      <4> QED
            BY <2>2, <2>3, <3>2, <4>1, <4>2, SameOf
    <3> QED
          BY <3>1, <3>2
  <2>5. KeepsUserConfig'
        BY <2>1, <2>2, <2>4 DEF KeepsUserConfig, Same, e
  <2>6. tree' # NoTree => Same(UserConfig(tree), user)'
        BY <1>2, <2>1 DEF Same
  <2> QED
        BY <1>2, <2>1, <2>5, <2>6
<1>8. CASE SaveCut
      BY <1>8 DEF SaveCut
<1>9. CASE TruncateFile
  <2>1. /\ UNCHANGED <<tree, user, blame>> /\ saving' # "no" /\ blame \subseteq {"default"}
        BY <1>9 DEF TruncateFile
  <2> QED
        BY <1>2, <2>1 DEF KeepsUserConfig, Same
<1>10. CASE EditFile
  <2>1. /\ file' \in UserFiles /\ user' = UserConfig(Effective(file')) /\ tree' = tree
        /\ tree = NoTree /\ blame' = ClassDefault(file')
        BY <1>10 DEF EditFile
  <2>2. Running(Effective(file')) /\ file' # Corrupt
        BY <2>1, EffectiveOfUserFile
  <2>3. "default" \notin blame' => DefaultPath \in DOMAIN user'
        BY <2>1, <2>2, DefaultOfFile
  <2>4. KeepsUserConfig'
        BY <2>1, <2>2 DEF KeepsUserConfig, Same
  <2> QED
        BY <2>1, <2>3, <2>4
<1>11. CASE Restart \/ Finish \/ CrioStarts \/ CrioStops \/ UNCHANGED vars
       BY <1>3, <1>11 DEF Restart, Finish, CrioStarts, CrioStops, Idle, vars
<1> QED
    BY <1>4, <1>5, <1>6, <1>7, <1>8, <1>9, <1>10, <1>11 DEF Next

\* All is sound in every state.
LEMMA SoundAlways == Spec => []Sound
<1> QED
    BY SoundInit, SoundStep, PTL DEF Spec

-----------------------------------------------------------------------------
(* The interface.                                                          *)

\* What is seen of a class, and where the default and the other classes are not.
LEMMA SeenPaths ==
  ASSUME NEW n \in Names
  PROVE  \A q \in {RuntimePath(n), Entry(n, "runtime_path")} :
           /\ q \in Path /\ IsPrefix(RuntimePath(n), q)
           /\ ~IsPrefix(DefaultPath, q) /\ q \notin Ancestors(DefaultPath)
           /\ \A m \in Names \ {n} :
                ~IsPrefix(RuntimePath(m), q) /\ q \notin Ancestors(RuntimePath(m))
<1>1. n \in Key /\ Names \subseteq Key /\ "runtime_path" \in Key
      BY KeysAreStrings
<1>2. ASSUME NEW q \in {RuntimePath(n), Entry(n, "runtime_path")}
      PROVE  q \in Path /\ IsPrefix(RuntimePath(n), q)
      BY <1>1, <1>2, RuntimePathShape, EntryShape, PrefixOrder
<1>3. ASSUME NEW q \in Path, IsPrefix(RuntimePath(n), q)
      PROVE  /\ ~IsPrefix(DefaultPath, q)
             /\ \A m \in Key \ {n} : ~IsPrefix(RuntimePath(m), q)
             /\ \A m \in Key : q \notin Ancestors(RuntimePath(m))
      BY <1>1, <1>3, EntryIsApart, AboveEntries
<1>4. Ancestors(DefaultPath) \subseteq Ancestors(RuntimePath(n))
      BY <1>1, AboveEntries
<1> QED
      BY <1>1, <1>2, <1>3, <1>4

\* AddRuntime as a client sees it.
LEMMA AddRuntimeSeen ==
  ASSUME NEW t, TreeOK(t), NEW n \in Names, NEW path \in KataConfigs, NEW d \in BOOLEAN
  PROVE  View(AddRuntime(t, n, path, d)) = Interface!With(View(t), n, path, d)
<1> DEFINE a    == AddRuntime(t, n, path, FALSE)
           s    == SetPath(a, DefaultPath, n)
           R    == RuntimesOf(t) \union {n}
           P(m) == IF m = n THEN path ELSE GetPath(t, Entry(m, "runtime_path"))
           D    == {DefaultRuntime(t)} \intersect Names
<1>1. AddRuntime(t, n, path, d) = IF d THEN s ELSE a
      BY DEF AddRuntime
<1>2. EntryOnly(t, a, n) /\ GetPath(a, Entry(n, "runtime_path")) = path
  <2>1. path \notin {Table, Absent}
        BY PathsAreValues
  <2> QED
        BY <2>1, AddRuntimeEntry DEF TreeOK
<1> HIDE DEF a
<1>3. /\ WellFormed(a) /\ GetPath(a, RuntimePath(n)) = Table
      /\ DefaultRuntime(a) = DefaultRuntime(t)
      /\ R \subseteq Names
      BY <1>2, EntryOnlyKeeps DEF EntryOnly, RuntimesOf
<1>4. \A m \in Names \ {n} :
        \A q \in {RuntimePath(m), Entry(m, "runtime_path")} : GetPath(a, q) = GetPath(t, q)
      BY <1>2, SeenPaths DEF EntryOnly
<1>5. RuntimesOf(a) = R
      BY <1>3, <1>4, MarkersDiffer DEF RuntimesOf
<1>6. \A m \in R : GetPath(a, Entry(m, "runtime_path")) = P(m)
      BY <1>2, <1>3, <1>4
<1>7. /\ \A m \in Names :
           \A q \in {RuntimePath(m), Entry(m, "runtime_path")} : GetPath(s, q) = GetPath(a, q)
      /\ DefaultRuntime(s) = n
  <2>1. DefaultPath \in Path
        BY AboveEntries
  <2> QED
        BY <1>3, <2>1, SeenPaths, SetPathElsewhere DEF DefaultRuntime
<1> HIDE DEF s, P
<1>8. RuntimesOf(s) = R
      BY <1>5, <1>7 DEF RuntimesOf
<1>9. \A m \in R : GetPath(s, Entry(m, "runtime_path")) = P(m)
      BY <1>3, <1>6, <1>7
<1>10. View(a) = [paths |-> [m \in R |-> P(m)], default |-> D]
       BY <1>3, <1>5, <1>6 DEF View
<1>11. View(s) = [paths |-> [m \in R |-> P(m)], default |-> {n}]
       BY <1>7, <1>8, <1>9 DEF View
<1>12. Interface!With(View(t), n, path, d) =
         [paths |-> [m \in R |-> P(m)], default |-> IF d THEN {n} ELSE D]
  <2>1. /\ DOMAIN View(t).paths = RuntimesOf(t) /\ View(t).default = D
        /\ \A m \in RuntimesOf(t) : View(t).paths[m] = GetPath(t, Entry(m, "runtime_path"))
        BY DEF View
  <2>2. [m \in DOMAIN View(t).paths \union {n} |-> IF m = n THEN path ELSE View(t).paths[m]]
          = [m \in R |-> P(m)]
        BY <2>1 DEF P
  <2> HIDE DEF R, D
  <2> QED
        BY <2>1, <2>2 DEF Interface!With
<1> QED
      BY <1>1, <1>10, <1>11, <1>12

\* RemoveRuntime as a client sees it.
LEMMA RemoveRuntimeSeen ==
  ASSUME NEW t, TreeOK(t), NEW n \in Names
  PROVE  View(RemoveRuntime(t, n)) = Interface!Without(View(t), n)
<1> DEFINE r == RemoveRuntime(t, n)
           R == RuntimesOf(t) \ {n}
<1>1. \A q : GetPath(r, q) =
        IF IsPrefix(RuntimePath(n), q) \/ (DefaultRuntime(t) = n /\ IsPrefix(DefaultPath, q))
        THEN Absent ELSE GetPath(t, q)
      BY RemoveRuntimeEffect DEF EntryGone
<1> HIDE DEF r
<1>2. \A m \in Names \ {n} :
        \A q \in {RuntimePath(m), Entry(m, "runtime_path")} : GetPath(r, q) = GetPath(t, q)
      BY <1>1, SeenPaths
<1>3. GetPath(r, RuntimePath(n)) = Absent
      BY <1>1, SeenPaths
<1>4. RuntimesOf(r) = R
      BY <1>2, <1>3 DEF RuntimesOf
<1>5. \A m \in R : GetPath(r, Entry(m, "runtime_path")) = GetPath(t, Entry(m, "runtime_path"))
      BY <1>2 DEF RuntimesOf
<1>6. {DefaultRuntime(r)} \intersect Names = ({DefaultRuntime(t)} \intersect Names) \ {n}
  <2>1. DefaultPath \in Path /\ IsPrefix(DefaultPath, DefaultPath)
        BY AboveEntries, PrefixOrder
  <2>2. ~IsPrefix(RuntimePath(n), DefaultPath)
    <3>1. n \in Key /\ RuntimePath(n) \in Path /\ IsPrefix(RuntimePath(n), RuntimePath(n))
          BY KeysAreStrings, RuntimePathShape, PrefixOrder
    <3> QED
          BY <3>1, EntryIsApart
  <2>3. DefaultRuntime(r) = IF DefaultRuntime(t) = n THEN Absent ELSE DefaultRuntime(t)
        BY <1>1, <2>1, <2>2 DEF DefaultRuntime
  <2> QED
        BY <2>3, ValuesAreNoMarkers
<1>7. View(r) = [paths   |-> [m \in R |-> GetPath(t, Entry(m, "runtime_path"))],
                 default |-> ({DefaultRuntime(t)} \intersect Names) \ {n}]
      BY <1>4, <1>5, <1>6 DEF View
<1>8. /\ DOMAIN View(t).paths = RuntimesOf(t)
      /\ View(t).default = {DefaultRuntime(t)} \intersect Names
      /\ \A m \in RuntimesOf(t) : View(t).paths[m] = GetPath(t, Entry(m, "runtime_path"))
      BY DEF View
<1>9. [m \in DOMAIN View(t).paths \ {n} |-> View(t).paths[m]]
        = [m \in R |-> GetPath(t, Entry(m, "runtime_path"))]
      BY <1>8
<1>10. Interface!Without(View(t), n) =
         [paths   |-> [m \in R |-> GetPath(t, Entry(m, "runtime_path"))],
          default |-> ({DefaultRuntime(t)} \intersect Names) \ {n}]
       BY <1>8, <1>9 DEF Interface!Without
<1> QED
      BY <1>7, <1>10 DEF r

\* What CRI-O fills in is nothing a client sees: the runtime that is built in is no
\* class, nor is the default.
LEMMA EffectiveSeen ==
  ASSUME NEW f
  PROVE  View(Effective(f)) = View(f)
<1> DEFINE t == IF f = NoFile THEN EmptyTree ELSE f
           e == Effective(f)
<1>1. /\ DOMAIN e = DOMAIN t \union DOMAIN BuiltIn
      /\ \A p \in DOMAIN t : e[p] = t[p]
      /\ \A p \in DOMAIN BuiltIn \ DOMAIN t : e[p] = BuiltIn[p]
      BY DEF Effective
<1>2. \A p : p # Root => GetPath(t, p) = GetPath(f, p)
      BY DEF GetPath, NoFile, EmptyTree
<1> HIDE DEF e, t
<1>3. ASSUME NEW n \in Names, NEW q \in {RuntimePath(n), Entry(n, "runtime_path")}
      PROVE  GetPath(e, q) = GetPath(f, q)
  <2>1. q \in Path /\ IsPrefix(RuntimePath(n), q)
        BY SeenPaths
  <2>2. q \notin DOMAIN BuiltIn
        BY <2>1, BuiltInPaths
  <2>3. q # Root
    <3>1. Len(RuntimePath(n)) = 4 /\ RuntimePath(n) \in Path
          BY RuntimePathShape, KeysAreStrings
    <3>2. Len(RuntimePath(n)) <= Len(q)
          BY <2>1, <3>1, PrefixKeys
    <3> QED
          BY <3>1, <3>2 DEF Root
  <2> QED
        BY <1>1, <1>2, <2>2, <2>3 DEF GetPath
<1>4. {DefaultRuntime(e)} \intersect Names = {DefaultRuntime(f)} \intersect Names
  <2>1. /\ DefaultPath # Root /\ DefaultPath \in DOMAIN BuiltIn
        /\ BuiltIn[DefaultPath] \notin Names
        BY BuiltInDefault
  <2>2. GetPath(f, DefaultPath) = GetPath(t, DefaultPath)
        BY <1>2, <2>1
  <2>3. CASE DefaultPath \in DOMAIN t
        BY <1>1, <2>2, <2>3 DEF DefaultRuntime, GetPath
  <2>4. CASE DefaultPath \notin DOMAIN t
    <3>1. GetPath(e, DefaultPath) = BuiltIn[DefaultPath] /\ GetPath(t, DefaultPath) = Absent
          BY <1>1, <2>1, <2>4 DEF GetPath
    <3> QED
          BY <2>1, <2>2, <3>1, ValuesAreNoMarkers DEF DefaultRuntime
  <2> QED
        BY <2>3, <2>4
<1>5. RuntimesOf(e) = RuntimesOf(f)
      BY <1>3 DEF RuntimesOf
<1>6. [n \in RuntimesOf(e) |-> GetPath(e, Entry(n, "runtime_path"))]
        = [n \in RuntimesOf(f) |-> GetPath(f, Entry(n, "runtime_path"))]
      BY <1>3, <1>5 DEF RuntimesOf
<1> QED
      BY <1>4, <1>6 DEF View, e

\* A file that was cut short, or none, is one without classes.
LEMMA NothingSeen == \A f \in {NoFile, EmptyTree} : View(f) = Interface!None
<1> SUFFICES ASSUME NEW f \in {NoFile, EmptyTree} PROVE View(f) = Interface!None
    OBVIOUS
<1>1. DOMAIN f \subseteq {Root}
      BY DEF NoFile, EmptyTree
<1>2. DefaultPath # Root /\ \A n \in Names : RuntimePath(n) # Root
  <2>1. Len(Root) = 0
        BY DEF Root
  <2> QED
        BY <2>1, AboveEntries, RuntimePathShape, KeysAreStrings
<1>3. RuntimesOf(f) = {} /\ DefaultRuntime(f) = Absent
      BY <1>1, <1>2 DEF RuntimesOf, DefaultRuntime, GetPath
<1>4. {DefaultRuntime(f)} \intersect Names = {}
      BY <1>3, ValuesAreNoMarkers
<1> QED
      BY <1>3, <1>4 DEF View, Interface!None

\* The steps of a client.  (Nothing says that NoTree is no tree; if it were, its
\* client would be one that has closed.)
LEMMA ClientImplements ==
  ASSUME Sound,
         \/ Setup \/ TruncateFile \/ WriteFile \/ SaveCut \/ Finish
         \/ \E n \in Names, path \in KataConfigs, d \in BOOLEAN : Add(n, path, d)
         \/ \E n \in Names : Drop(n)
  PROVE  Interface!Next
<1> USE DEF Idle, Interface!Idle
<1>1. CASE Setup
  <2>1. saving = "no"
        BY <1>1 DEF Setup, Sound
  <2> QED
        BY <1>1, <2>1 DEF Setup, Interface!Next, Interface!Open, Interface!Close
<1>2. CASE TruncateFile
  <2>1. /\ tree # NoTree /\ tree' = tree /\ file' = EmptyTree /\ live' = live
        /\ saving = "no" /\ saving' = "begun"
        BY <1>2 DEF TruncateFile
  <2>2. file' # Corrupt /\ View(file') = Interface!None
        BY <2>1, EffectiveOfNothing, NothingSeen
  <2> QED
        BY <2>1, <2>2 DEF Interface!Next, Interface!Empty
<1>3. CASE WriteFile
  <2>1. /\ tree # NoTree /\ tree' = tree /\ live' = live
        /\ saving # "no" /\ saving' = "no" /\ TreeOK(tree)
        BY <1>3 DEF WriteFile, Sound
  <2>2. CASE file' = tree
    <3>1. file' # Corrupt
          BY <2>1, <2>2, TreeIsFile DEF TreeOK, Editable
    <3> QED
          BY <2>1, <2>2, <3>1 DEF Interface!Next, Interface!Save
  <2>3. CASE saving = "raced" /\ file' \in {file, Corrupt}
        BY <2>1, <2>3 DEF Interface!Next, Interface!Clash
  <2> QED
        BY <1>3, <2>2, <2>3 DEF WriteFile, Sound
<1>4. CASE Finish
      BY <1>4 DEF Finish, Interface!Next, Interface!Close
<1>7. CASE SaveCut
  <2>1. /\ tree # NoTree /\ tree' = NoTree /\ file' \in {file, Corrupt} /\ live' = live
        /\ saving # "no" /\ saving' = "no"
        BY <1>7 DEF SaveCut, Sound
  <2> QED
        BY <2>1 DEF Interface!Next, Interface!Tear
<1>5. ASSUME NEW n \in Names, NEW path \in KataConfigs, NEW d \in BOOLEAN, Add(n, path, d)
      PROVE  Interface!Next
  <2>1. /\ tree # NoTree /\ tree' = AddRuntime(tree, n, path, d)
        /\ file' = file /\ live' = live /\ TreeOK(tree)
        /\ saving = "no" /\ saving' = "no"
        BY <1>5 DEF Add, Sound
  <2>2. View(tree') = Interface!With(View(tree), n, path, d)
        BY <2>1, AddRuntimeSeen
  <2>3. CASE tree' = NoTree
        BY <2>1, <2>3 DEF Interface!Next, Interface!Close
  <2>4. CASE tree' # NoTree
        BY <2>1, <2>2, <2>4 DEF Interface!Next, Interface!AddRuntime
  <2> QED
        BY <2>3, <2>4
<1>6. ASSUME NEW n \in Names, Drop(n) PROVE Interface!Next
  <2>1. /\ tree # NoTree /\ tree' = RemoveRuntime(tree, n)
        /\ file' = file /\ live' = live /\ TreeOK(tree)
        /\ saving = "no" /\ saving' = "no"
        BY <1>6 DEF Drop, Sound
  <2>2. View(tree') = Interface!Without(View(tree), n)
        BY <2>1, RemoveRuntimeSeen
  <2>3. CASE tree' = NoTree
        BY <2>1, <2>3 DEF Interface!Next, Interface!Close
  <2>4. CASE tree' # NoTree
        BY <2>1, <2>2, <2>4 DEF Interface!Next, Interface!RemoveRuntime
  <2> QED
        BY <2>3, <2>4
<1> QED
      BY <1>1, <1>2, <1>3, <1>4, <1>5, <1>6, <1>7

\* The steps of CRI-O and of the administrator.
LEMMA NodeImplements ==
  ASSUME Restart \/ CrioStarts \/ CrioStops \/ EditFile
  PROVE  Interface!Next
<1>1. ASSUME tree' = tree, file' = file, saving' = saving, file # Corrupt, live' = Effective(file)
      PROVE  Interface!Next
      BY <1>1, EffectiveSeen DEF Interface!Next, Interface!Apply, Interface!Stop
<1>2. ASSUME tree' = tree, file' = file, saving' = saving, live' = Down
      PROVE  Interface!Next
      BY <1>2 DEF Interface!Next, Interface!Stop
<1>3. CASE Restart \/ CrioStarts \/ CrioStops
      BY <1>1, <1>2, <1>3 DEF Restart, CrioStarts, CrioStops, Idle
<1>4. CASE EditFile
  <2>1. /\ file' \in UserFiles /\ tree' = tree /\ live' = live
        /\ saving' = IF saving = "no" THEN "no" ELSE "raced"
        BY <1>4 DEF EditFile
  <2>2. file' # Corrupt
        BY <2>1, EffectiveOfUserFile
  <2> QED
        BY <2>1, <2>2 DEF Interface!Next, Interface!Edit
<1> QED
      BY <1>3, <1>4

\* At first there is no client, and what the administrator wrote, if anything.
LEMMA InitImplements == Init => Interface!Init
<1> SUFFICES ASSUME Init PROVE Interface!Init
    OBVIOUS
<1>1. /\ tree = NoTree /\ file \in UserFiles \union {NoFile}
      /\ live \in {Effective(file), Down} /\ saving = "no"
      BY DEF Init
<1>2. file # Corrupt
      BY <1>1, EffectiveOfUserFile, EffectiveOfNothing
<1>3. View(file) \in {View(f) : f \in UserFiles} \union {Interface!None}
      BY <1>1, NothingSeen
<1>4. View(Effective(file)) = View(file)
      BY EffectiveSeen
<1> QED
      BY <1>1, <1>2, <1>3, <1>4 DEF Interface!Init

-----------------------------------------------------------------------------
(* The theorems.                                                           *)

\* What CRI-O would start with stays the administrator's but for kata's entries,
\* whatever clients add, remove and save, except between the two halves of a save
\* (KeepsUserConfig: option.go:91-116, crio.go:144-162).
THEOREM CrioKeepsUserConfig == Spec => []KeepsUserConfig
<1>1. Init => UserKept
      BY UserKeptInit
<1>2. Sound /\ UserKept /\ [Next]_vars => UserKept'
      BY UserKeptStep
<1>3. UserKept => KeepsUserConfig
      BY DEF UserKept, KeepsUserConfig
<1> QED
    BY <1>1, <1>2, <1>3, SoundAlways, PTL DEF Spec

\* The default runtime is always one that is there (crio.go:110-119).
THEOREM CrioDefaultDefined == Spec => []DefaultDefined
<1>1. Sound => DefaultDefined
      BY DEF Sound, Running, TreeOK, DefaultDefined
<1> QED
    BY <1>1, SoundAlways, PTL

\* RemoveRuntime never fails (crio.go:110-124).
THEOREM CrioRemovalNeverFails == Spec => []RemovalNeverFails
<1>1. Sound => RemovalNeverFails
  <2> SUFFICES ASSUME Sound, NEW t \in {tree, live} \ {NoTree, Down}, NEW n \in Names
               PROVE  CanRemove(t, n)
      BY DEF RemovalNeverFails
  <2>1. TreeOK(t)
        BY DEF Sound, Running
  <2> QED
        BY <2>1, CanAlwaysRemove
<1> QED
    BY <1>1, SoundAlways, PTL

\* To configure a class again gives what configuring it anew gives, whatever an earlier
\* run left of its entry (crio.go:68-82).
THEOREM CrioRerun == Spec => []Rerun
<1>1. Sound => Rerun
  <2> SUFFICES ASSUME Sound, live # Down
               PROVE  \A n \in Names \ {DefaultRuntime(live), DefaultCrioRuntime},
                         path \in KataConfigs :
                        AddRuntime(live, n, path, FALSE)
                          = AddRuntime(RemoveRuntime(live, n), n, path, FALSE)
      BY DEF Rerun
  <2>1. Running(live)
        BY DEF Sound
  <2> QED
        BY <2>1, AddAnew
<1> QED
    BY <1>1, SoundAlways, PTL

\* The CRI-O back end is a runtime.Runtime, too: a call changes the class it is given
\* and nothing else a client sees, and what Save was called on is what a CRI-O reports
\* that starts after it, where one that starts in the middle of the save has no class
\* (ImplementsInterface: crio.go:60-162, option.go:91-116).
THEOREM CrioImplements == Spec => ImplementsInterface
<1>1. Sound /\ [Next]_vars => [Interface!Next]_Interface!vars
  <2> SUFFICES ASSUME Sound, [Next]_vars PROVE Interface!Next \/ UNCHANGED Interface!vars
      OBVIOUS
  <2>1. CASE UNCHANGED vars
        BY <2>1 DEF vars, Interface!vars
  <2>2. CASE Restart \/ CrioStarts \/ CrioStops \/ EditFile
        BY <2>2, NodeImplements
  <2>3. CASE \/ Setup \/ TruncateFile \/ WriteFile \/ SaveCut \/ Finish
             \/ \E n \in Names, path \in KataConfigs, d \in BOOLEAN : Add(n, path, d)
             \/ \E n \in Names : Drop(n)
        BY <2>3, ClientImplements
  <2> QED
        BY <2>1, <2>2, <2>3 DEF Next
<1> QED
    BY <1>1, InitImplements, SoundAlways, PTL DEF Spec, ImplementsInterface, Interface!Spec

=============================================================================
