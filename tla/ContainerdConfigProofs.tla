----------------------- MODULE ContainerdConfigProofs -----------------------
(***************************************************************************)
(* What AddRuntime and RemoveRuntime leave alone, for every tree the       *)
(* parser can produce.                                                     *)
(***************************************************************************)
EXTENDS ContainerdConfig, TomlTreeProofs

-----------------------------------------------------------------------------
(* The paths of an entry, of the default and of the version.               *)

\* The path of an entry.
LEMMA RuntimePathShape ==
  ASSUME NEW n \in Names
  PROVE  /\ RuntimePath(n) \in Path
         /\ Len(RuntimePath(n)) = 5
         /\ RuntimePath(n)[1] = "plugins"
         /\ RuntimePath(n)[4] = "runtimes"
         /\ RuntimePath(n)[5] = n
         /\ \A i \in 1 .. 4 : RuntimePath(n)[i] = RuntimesPath[i]
<1>1. /\ RuntimesPath \in Path
      /\ Len(RuntimesPath) = 4
      /\ RuntimesPath[1] = "plugins" /\ RuntimesPath[4] = "runtimes"
      BY KeysAreStrings DEF RuntimesPath, Path
<1>2. n \in Key
      BY KeysAreStrings
<1> HIDE DEF Path
<1>3. /\ Append(RuntimesPath, n) \in Path
      /\ Len(Append(RuntimesPath, n)) = Len(RuntimesPath) + 1
      /\ Append(RuntimesPath, n)[Len(RuntimesPath) + 1] = n
      /\ \A i \in 1 .. Len(RuntimesPath) : Append(RuntimesPath, n)[i] = RuntimesPath[i]
      BY <1>1, <1>2, AppendKey
<1> QED
      BY <1>1, <1>3 DEF RuntimePath

\* A key of an entry, as AddRuntime writes them.
LEMMA KeyPathShape ==
  ASSUME NEW n \in Names, NEW k \in Key
  PROVE  /\ Append(RuntimePath(n), k) \in Path
         /\ Len(Append(RuntimePath(n), k)) = 6
         /\ Append(RuntimePath(n), k)[6] = k
         /\ \A i \in 1 .. 5 : Append(RuntimePath(n), k)[i] = RuntimePath(n)[i]
<1> DEFINE s == RuntimePath(n)
<1>1. s \in Path /\ Len(s) = 5
      BY RuntimePathShape
<1> HIDE DEF s, Path
<1>2. /\ Append(s, k) \in Path
      /\ Len(Append(s, k)) = Len(s) + 1
      /\ Append(s, k)[Len(s) + 1] = k
      /\ \A i \in 1 .. Len(s) : Append(s, k)[i] = s[i]
      BY <1>1, AppendKey
<1> QED
      BY <1>1, <1>2 DEF s

\* The path of the kata configuration in an entry.
LEMMA ConfigPathShape ==
  ASSUME NEW n \in Names
  PROVE  /\ ConfigPath(n) \in Path
         /\ Len(ConfigPath(n)) = 7
         /\ ConfigPath(n)[6] = "options"
         /\ \A i \in 1 .. 5 : ConfigPath(n)[i] = RuntimePath(n)[i]
<1> DEFINE s == RuntimePath(n)
           k == "options"
           l == "ConfigPath"
<1>1. s \in Path /\ Len(s) = 5
      BY RuntimePathShape
<1>2. k \in Key /\ l \in Key
      BY KeysAreStrings
<1>3. ConfigPath(n) = s \o <<k, l>>
      BY DEF ConfigPath
<1> HIDE DEF s, k, l, Path
<1>4. /\ s \o <<k, l>> \in Path
      /\ Len(s \o <<k, l>>) = Len(s) + 2
      /\ (s \o <<k, l>>)[Len(s) + 1] = k
      /\ \A i \in 1 .. Len(s) : (s \o <<k, l>>)[i] = s[i]
      BY <1>1, <1>2, AppendTwoKeys, ZenonT(30)
<1>5. /\ ConfigPath(n) \in Path /\ Len(ConfigPath(n)) = 7 /\ ConfigPath(n)[6] = k
      /\ \A i \in 1 .. 5 : ConfigPath(n)[i] = s[i]
      BY <1>1, <1>3, <1>4
<1> QED
      BY <1>5 DEF s, k

\* The paths of the default and of the version.
LEMMA OtherPathsShape ==
  /\ DefaultPath \in Path /\ Len(DefaultPath) = 4 /\ DefaultPath[4] = "default_runtime_name"
  /\ VersionPath \in Path /\ Len(VersionPath) = 1 /\ VersionPath[1] = "version"
BY KeysAreStrings DEF DefaultPath, VersionPath, Path

\* The default is neither above nor below what belongs to an entry.
LEMMA DefaultIsApart ==
  /\ DefaultPath \in Path /\ DefaultPath # Root /\ DefaultPath # VersionPath
  /\ VersionPath \notin Ancestors(DefaultPath)
  /\ \A n \in Names : /\ DefaultPath \notin Ancestors(ConfigPath(n))
                      /\ Ancestors(DefaultPath) \subseteq Ancestors(ConfigPath(n))
                      /\ ~IsPrefix(DefaultPath, RuntimePath(n))
                      /\ ~IsPrefix(RuntimePath(n), DefaultPath)
                      /\ RuntimePath(n) \notin Ancestors(DefaultPath)
<1>1. /\ DefaultPath \in Path /\ Len(DefaultPath) = 4
      /\ DefaultPath[4] = "default_runtime_name" /\ DefaultPath[1] = "plugins"
      /\ \A i \in 1 .. 3 : DefaultPath[i] = RuntimesPath[i]
      BY KeysAreStrings DEF DefaultPath, RuntimesPath, Path
<1>2. VersionPath \in Path /\ Len(VersionPath) = 1 /\ VersionPath[1] = "version"
      BY OtherPathsShape
<1>3. DefaultPath # Root
      BY <1>1 DEF Root
<1> HIDE DEF Path
<1>4. VersionPath \notin Ancestors(DefaultPath)
  <2>1. 1 \in 1 .. Len(VersionPath) /\ 1 <= Len(DefaultPath) /\ VersionPath[1] # DefaultPath[1]
        BY <1>1, <1>2
  <2> QED
        BY <1>1, <1>2, <2>1, DifferentPaths
<1>5. ASSUME NEW n \in Names
      PROVE  /\ DefaultPath \notin Ancestors(ConfigPath(n))
             /\ Ancestors(DefaultPath) \subseteq Ancestors(ConfigPath(n))
             /\ ~IsPrefix(DefaultPath, RuntimePath(n))
             /\ ~IsPrefix(RuntimePath(n), DefaultPath)
             /\ RuntimePath(n) \notin Ancestors(DefaultPath)
  <2>1. /\ RuntimePath(n) \in Path /\ Len(RuntimePath(n)) = 5 /\ RuntimePath(n)[4] = "runtimes"
        /\ ConfigPath(n) \in Path /\ Len(ConfigPath(n)) = 7
        /\ \A i \in 1 .. 5 : ConfigPath(n)[i] = RuntimePath(n)[i]
        /\ \A i \in 1 .. 4 : RuntimePath(n)[i] = RuntimesPath[i]
        BY RuntimePathShape, ConfigPathShape
  <2>2. /\ ConfigPath(n)[4] # DefaultPath[4] /\ RuntimePath(n)[4] # DefaultPath[4]
        /\ 4 \in 1 .. Len(DefaultPath) /\ 4 <= Len(DefaultPath)
        /\ 4 \in 1 .. Len(RuntimePath(n)) /\ 4 <= Len(RuntimePath(n)) /\ 4 <= Len(ConfigPath(n))
        BY <1>1, <2>1
  <2>3. DefaultPath \notin Ancestors(ConfigPath(n))
        BY <1>1, <2>1, <2>2, DifferentPaths
  <2>4. Ancestors(DefaultPath) \subseteq Ancestors(ConfigPath(n))
    <3>1. /\ Len(DefaultPath) <= Len(ConfigPath(n))
          /\ \A i \in 1 .. Len(DefaultPath) - 1 : DefaultPath[i] = ConfigPath(n)[i]
          BY <1>1, <2>1
    <3> QED
          BY <1>1, <2>1, <3>1, SameAncestors
  <2>5. ~IsPrefix(DefaultPath, RuntimePath(n))
        BY <1>1, <2>1, <2>2, DifferentPaths
  <2>6. ~IsPrefix(RuntimePath(n), DefaultPath) /\ RuntimePath(n) \notin Ancestors(DefaultPath)
        BY <1>1, <2>1, <2>2, DifferentPaths
  <2> QED
        BY <2>3, <2>4, <2>5, <2>6
<1> QED
      BY <1>1, <1>2, <1>3, <1>4, <1>5

\* SetPath of a key of a managed entry changes nothing of the administrator's,
\* and leaves a tree that can be edited again.
LEMMA SetEntryKey ==
  ASSUME NEW t, Editable(t), NEW n \in Names, NEW p \in Path,
         IsPrefix(RuntimePath(n), p), Ancestors(p) \subseteq Ancestors(ConfigPath(n)),
         \A m \in Names : p \notin Ancestors(ConfigPath(m)),
         NEW v, v \notin {Table, Absent}
  PROVE  Editable(SetPath(t, p, v)) /\ UserConfig(SetPath(t, p, v)) = UserConfig(t)
<1> DEFINE s    == SetPath(t, p, v)
           kept == Kept(t, p)
<1>1. \A a \in Ancestors(p) : GetPath(t, a) \in {Table, Absent}
      BY DEF Editable
<1>2. /\ Len(p) \in Nat /\ Len(p) >= 5
      /\ p[1] = "plugins" /\ p[4] = "runtimes"
  <2>1. /\ RuntimePath(n) \in Path /\ Len(RuntimePath(n)) = 5
        /\ RuntimePath(n)[1] = "plugins" /\ RuntimePath(n)[4] = "runtimes"
        BY RuntimePathShape
  <2>2. Len(p) \in Nat
        BY DEF Path
  <2>3. Len(RuntimePath(n)) <= Len(p) /\ \A i \in 1 .. Len(RuntimePath(n)) : RuntimePath(n)[i] = p[i]
        BY <2>1, PrefixKeys
  <2> QED
        BY <2>1, <2>2, <2>3
<1>3. /\ ~IsPrefix(p, DefaultPath) /\ DefaultPath # p /\ DefaultPath \notin Ancestors(p)
      /\ ~IsPrefix(p, VersionPath) /\ VersionPath # p /\ VersionPath \notin Ancestors(p)
  <2>1. ~IsPrefix(p, DefaultPath) /\ ~IsPrefix(p, VersionPath)
        BY <1>2, OtherPathsShape, PrefixKeys
  <2>2. DefaultPath # p /\ VersionPath # p
        BY <1>2, OtherPathsShape
  <2>3. ASSUME DefaultPath \in Ancestors(p) PROVE FALSE
    <3>1. \A i \in 1 .. Len(DefaultPath) : DefaultPath[i] = p[i]
          BY <2>3, AncestorKeys
    <3>2. DefaultPath[4] = p[4]
          BY <3>1, OtherPathsShape
    <3> QED
          BY <3>2, <1>2, OtherPathsShape
  <2>4. VersionPath \notin Ancestors(p)
        BY <1>2, OtherPathsShape, AncestorKeys
  <2> QED
        BY <2>1, <2>2, <2>3, <2>4
<1>4. p # Root
      BY <1>2 DEF Root
<1>5. WellFormed(t)
      BY DEF Editable
<1>6. WellFormed(s)
      BY <1>1, <1>4, <1>5, SetPathWellFormed
<1>7. /\ DOMAIN s = kept \union Ancestors(p) \union {p}
      /\ s[p] = v
      /\ \A a \in Ancestors(p) : s[a] = Table
      /\ \A q \in kept : s[q] = t[q]
      BY <1>1, <1>5, SetPathContents
<1>8. DOMAIN t \subseteq Path
      BY <1>5 DEF WellFormed, Path
<1> HIDE DEF s
<1> USE DEF Kept
<1>9. \A q \in Path : q # p => GetPath(s, q) \in {Table, Absent} \/ GetPath(s, q) = GetPath(t, q)
      BY <1>7 DEF GetPath
<1>10. Editable(s)
  <2>1. ASSUME NEW m \in Names, NEW a \in Ancestors(ConfigPath(m))
        PROVE  GetPath(s, a) \in {Table, Absent}
    <3>1. a \in Path /\ a # p
          BY ConfigPathShape, AncestorKeys
    <3>2. GetPath(t, a) \in {Table, Absent}
          BY DEF Editable
    <3> QED
          BY <1>9, <3>1, <3>2
  <2>2. \A q \in {VersionPath, DefaultPath} : ~IsTable(s, q)
    <3>1. \A q \in {VersionPath, DefaultPath} : GetPath(s, q) = GetPath(t, q)
          BY <1>3, <1>7 DEF GetPath
    <3> QED
          BY <3>1 DEF Editable, IsTable
  <2> QED
        BY <1>6, <2>1, <2>2 DEF Editable
<1>11. UserLeaves(s) = UserLeaves(t)
  <2>1. \A q \in kept : q \in UserLeaves(s) <=> q \in UserLeaves(t)
        BY <1>7 DEF UserLeaves, Leaves, Managed
  <2>2. \A q \in Ancestors(p) : q \notin UserLeaves(s)
        BY <1>7 DEF UserLeaves, Leaves
  <2>3. p \notin UserLeaves(s)
        BY DEF UserLeaves, Managed
  <2>4. \A q \in DOMAIN t : IsPrefix(p, q) => q \notin UserLeaves(t)
    <3>1. \A q \in DOMAIN t : IsPrefix(p, q) => IsPrefix(RuntimePath(n), q)
          BY <1>8, RuntimePathShape, PrefixOrder
    <3> QED
          BY <3>1 DEF UserLeaves, Managed
  <2>5. UserLeaves(s) \subseteq DOMAIN s /\ UserLeaves(t) \subseteq DOMAIN t
        BY DEF UserLeaves, Leaves
  <2> QED
        BY <1>7, <2>1, <2>2, <2>3, <2>4, <2>5
<1>12. \A q \in UserLeaves(t) : s[q] = t[q]
  <2>1. \A q \in UserLeaves(t) : q \in kept
    <3>1. \A q \in DOMAIN t : IsPrefix(p, q) => IsPrefix(RuntimePath(n), q)
          BY <1>8, RuntimePathShape, PrefixOrder
    <3> QED
          BY <3>1 DEF UserLeaves, Leaves, Managed
  <2> QED
        BY <1>7, <2>1
<1>13. UserConfig(s) = UserConfig(t)
      BY <1>11, <1>12 DEF UserConfig
<1> QED
      BY <1>10, <1>13 DEF s

-----------------------------------------------------------------------------
(* AddRuntime.                                                             *)

\* The keys AddRuntime writes are keys of the entry, below tables of it.
LEMMA EntryKeys ==
  ASSUME NEW n \in Names, NEW p,
         p = ConfigPath(n) \/ \E k \in Key \ {"options"} : p = Append(RuntimePath(n), k)
  PROVE  /\ p \in Path
         /\ IsPrefix(RuntimePath(n), p)
         /\ Ancestors(p) \subseteq Ancestors(ConfigPath(n))
         /\ \A m \in Names : p \notin Ancestors(ConfigPath(m))
<1>1. /\ RuntimePath(n) \in Path /\ Len(RuntimePath(n)) = 5
      /\ ConfigPath(n) \in Path /\ Len(ConfigPath(n)) = 7
      /\ \A i \in 1 .. 5 : ConfigPath(n)[i] = RuntimePath(n)[i]
      /\ \A m \in Names : Len(ConfigPath(m)) = 7 /\ ConfigPath(m)[6] = "options"
      /\ \A m \in Names : ConfigPath(m) \in Path
      BY RuntimePathShape, ConfigPathShape
<1>2. CASE p = ConfigPath(n)
  <2>1. IsPrefix(RuntimePath(n), ConfigPath(n))
    <3>1. Len(RuntimePath(n)) <= Len(ConfigPath(n))
          BY <1>1
    <3>2. \A i \in 1 .. Len(RuntimePath(n)) : RuntimePath(n)[i] = ConfigPath(n)[i]
          BY <1>1
    <3> HIDE DEF Path
    <3> QED
          BY <1>1, <3>1, <3>2, PrefixKeys
  <2>2. \A m \in Names : p \notin Ancestors(ConfigPath(m))
        BY <1>1, <1>2, AncestorKeys
  <2> QED
        BY <1>1, <1>2, <2>1, <2>2
<1>3. ASSUME NEW k \in Key \ {"options"}, p = Append(RuntimePath(n), k)
      PROVE  /\ p \in Path
             /\ IsPrefix(RuntimePath(n), p)
             /\ Ancestors(p) \subseteq Ancestors(ConfigPath(n))
             /\ \A m \in Names : p \notin Ancestors(ConfigPath(m))
  <2>1. /\ p \in Path /\ Len(p) = 6 /\ p[6] = k
        /\ \A i \in 1 .. 5 : p[i] = RuntimePath(n)[i]
        BY <1>3, KeyPathShape
  <2>2. IsPrefix(RuntimePath(n), p)
    <3>1. /\ Len(RuntimePath(n)) <= Len(p)
          /\ \A i \in 1 .. Len(RuntimePath(n)) : RuntimePath(n)[i] = p[i]
          BY <1>1, <2>1
    <3> QED
          BY <1>1, <2>1, <3>1, PrefixKeys
  <2>3. Ancestors(p) \subseteq Ancestors(ConfigPath(n))
    <3>1. Len(p) <= Len(ConfigPath(n)) /\ \A i \in 1 .. Len(p) - 1 : p[i] = ConfigPath(n)[i]
          BY <1>1, <2>1
    <3> QED
          BY <1>1, <2>1, <3>1, SameAncestors
  <2>4. ASSUME NEW m \in Names, p \in Ancestors(ConfigPath(m)) PROVE FALSE
    <3>1. \A i \in 1 .. Len(p) : p[i] = ConfigPath(m)[i]
          BY <1>1, <2>4, AncestorKeys
    <3> QED
          BY <1>1, <2>1, <3>1
  <2> QED
        BY <2>1, <2>2, <2>3, <2>4
<1> QED
      BY <1>2, <1>3

\* What belongs to an entry is apart from the default and from other entries.
LEMMA EntryIsApart ==
  ASSUME NEW n \in Names, NEW p \in Path, IsPrefix(RuntimePath(n), p)
  PROVE  /\ ~IsPrefix(p, DefaultPath) /\ DefaultPath \notin Ancestors(p)
         /\ \A m \in Names \ {n}, q \in Path :
              IsPrefix(RuntimePath(m), q) => ~IsPrefix(p, q) /\ q \notin Ancestors(p)
<1>1. /\ RuntimePath(n) \in Path /\ Len(RuntimePath(n)) = 5
      /\ RuntimePath(n)[4] = "runtimes" /\ RuntimePath(n)[5] = n
      /\ \A m \in Names : RuntimePath(m) \in Path /\ Len(RuntimePath(m)) = 5 /\ RuntimePath(m)[5] = m
      BY RuntimePathShape
<1>2. Len(p) >= 5 /\ p[4] = "runtimes" /\ p[5] = n
      BY <1>1, PrefixKeys
<1>3. Len(p) \in Nat /\ \A q \in Path : Len(q) \in Nat
      BY DEF Path
<1> HIDE DEF Path
<1>4. ~IsPrefix(p, DefaultPath) /\ DefaultPath \notin Ancestors(p)
  <2>1. /\ 4 \in 1 .. Len(p) /\ 4 <= Len(p) /\ p[4] # DefaultPath[4]
        /\ DefaultPath \in Path /\ 4 \in 1 .. Len(DefaultPath) /\ 4 <= Len(DefaultPath)
        BY <1>2, <1>3, OtherPathsShape
  <2>2. ~IsPrefix(p, DefaultPath)
        BY <2>1, DifferentPaths
  <2>3. DefaultPath \notin Ancestors(p)
        BY <2>1, DifferentPaths
  <2> QED
        BY <2>2, <2>3
<1>5. ASSUME NEW m \in Names \ {n}, NEW q \in Path, IsPrefix(RuntimePath(m), q)
      PROVE  ~IsPrefix(p, q) /\ q \notin Ancestors(p)
  <2>1. Len(q) >= 5 /\ q[5] = m
        BY <1>1, <1>5, PrefixKeys
  <2>2. 5 \in 1 .. Len(p) /\ 5 <= Len(q) /\ p[5] # q[5] /\ 5 \in 1 .. Len(q) /\ 5 <= Len(p)
        BY <1>2, <1>3, <2>1
  <2> QED
        BY <2>2, DifferentPaths
<1> QED
      BY <1>4, <1>5

\* The keys of an entry that AddRuntime is about.
EntryKey(n) == {ConfigPath(n)} \union {Append(RuntimePath(n), k) : k \in Key \ {"options"}}

\* The paths the properties speak of are paths of the entry.
LEMMA EntryPaths ==
  ASSUME NEW n \in Names
  PROVE  \A q \in {RuntimePath(n), TypePath(n), ConfigPath(n)} :
           q \in Path /\ IsPrefix(RuntimePath(n), q)
<1>1. "runtime_type" \in Key \ {"options"}
      BY KeysAreStrings
<1>2. TypePath(n) \in Path /\ IsPrefix(RuntimePath(n), TypePath(n))
      BY <1>1, EntryKeys DEF TypePath
<1>3. ConfigPath(n) \in Path /\ IsPrefix(RuntimePath(n), ConfigPath(n))
      BY EntryKeys
<1>4. RuntimePath(n) \in Path /\ IsPrefix(RuntimePath(n), RuntimePath(n))
      BY RuntimePathShape, PrefixOrder
<1> QED
      BY <1>2, <1>3, <1>4

\* Writing one of them leaves the others alone.
LEMMA EntryKeysApart ==
  ASSUME NEW n \in Names, NEW p \in EntryKey(n), NEW q \in EntryKey(n), p # q
  PROVE  ~IsPrefix(p, q) /\ q \notin Ancestors(p)
<1> DEFINE Shape(x) == /\ x \in Path /\ Len(x) \in {6, 7}
                       /\ \/ x = ConfigPath(n) /\ x[6] = "options"
                          \/ x = Append(RuntimePath(n), x[6]) /\ x[6] # "options"
<1>1. ASSUME NEW x \in EntryKey(n) PROVE Shape(x)
  <2>1. /\ ConfigPath(n) \in Path /\ Len(ConfigPath(n)) = 7 /\ ConfigPath(n)[6] = "options"
        /\ \A i \in 1 .. 5 : ConfigPath(n)[i] = RuntimePath(n)[i]
        BY ConfigPathShape
  <2>2. CASE x = ConfigPath(n)
        BY <2>1, <2>2
  <2>3. ASSUME NEW k \in Key \ {"options"}, x = Append(RuntimePath(n), k) PROVE Shape(x)
    <3>1. /\ x \in Path /\ Len(x) = 6 /\ x[6] = k
          /\ \A i \in 1 .. 5 : x[i] = RuntimePath(n)[i]
          BY <2>3, KeyPathShape
    <3> QED
          BY <2>3, <3>1
  <2> QED
        BY <2>2, <2>3 DEF EntryKey
<1>2. Shape(p) /\ Shape(q)
      BY <1>1
<1>3. p[6] # q[6]
      BY <1>2
<1>4. 6 \in 1 .. Len(p) /\ 6 <= Len(q) /\ 6 \in 1 .. Len(q) /\ 6 <= Len(p)
      BY <1>2
<1>5. p \in Path /\ q \in Path
      BY <1>2
<1> HIDE DEF Shape, Path
<1> QED
      BY <1>3, <1>4, <1>5, DifferentPaths

\* Writing one of them makes the entry, if it is not there, and changes nothing of
\* the administrator's, the default or another entry.
LEMMA EntryKeyWritten ==
  ASSUME NEW t, Editable(t), NEW n \in Names, NEW p \in EntryKey(n),
         NEW v, v \notin {Table, Absent}
  PROVE  /\ Editable(SetPath(t, p, v))
         /\ UserConfig(SetPath(t, p, v)) = UserConfig(t)
         /\ DefaultRuntime(SetPath(t, p, v)) = DefaultRuntime(t)
         /\ RuntimesOf(SetPath(t, p, v)) = RuntimesOf(t) \union {n}
         /\ GetPath(SetPath(t, p, v), p) = v
         /\ \A q \in EntryKey(n) \ {p} : GetPath(SetPath(t, p, v), q) = GetPath(t, q)
         /\ \A m \in Names \ {n}, q \in Path :
              IsPrefix(RuntimePath(m), q) => GetPath(SetPath(t, p, v), q) = GetPath(t, q)
<1> DEFINE s == SetPath(t, p, v)
<1>1. /\ p \in Path
      /\ IsPrefix(RuntimePath(n), p)
      /\ Ancestors(p) \subseteq Ancestors(ConfigPath(n))
      /\ \A m \in Names : p \notin Ancestors(ConfigPath(m))
      BY EntryKeys DEF EntryKey
<1>2. Editable(s) /\ UserConfig(s) = UserConfig(t)
      BY <1>1, SetEntryKey
<1>3. /\ GetPath(s, p) = v
      /\ \A q : ~IsPrefix(p, q) /\ q \notin Ancestors(p) => GetPath(s, q) = GetPath(t, q)
      BY <1>1, SetPathElsewhere DEF Editable
<1>4. \A a \in Ancestors(p) : GetPath(s, a) = Table
  <2>1. \A a \in Ancestors(p) : GetPath(t, a) \in {Table, Absent}
        BY <1>1 DEF Editable
  <2> QED
        BY <1>1, <2>1, SetPathElsewhere DEF Editable
<1> HIDE DEF s
<1>5. \A q \in EntryKey(n) \ {p} : GetPath(s, q) = GetPath(t, q)
      BY <1>3, EntryKeysApart
<1>6. \A m \in Names \ {n}, q \in Path :
        IsPrefix(RuntimePath(m), q) => GetPath(s, q) = GetPath(t, q)
      BY <1>1, <1>3, EntryIsApart
<1>7. DefaultRuntime(s) = DefaultRuntime(t)
      BY <1>1, <1>3, EntryIsApart DEF DefaultRuntime
<1>8. GetPath(s, RuntimePath(n)) # Absent
  <2>1. RuntimePath(n) \in Path /\ RuntimePath(n) # p
    <3>1. \A m \in Names : RuntimePath(m) \in Path /\ Len(RuntimePath(m)) = 5
          BY RuntimePathShape
    <3>2. Len(p) = 6 \/ Len(p) = 7
      <4>1. CASE p = ConfigPath(n)
            BY <4>1, ConfigPathShape
      <4>2. ASSUME NEW k \in Key \ {"options"}, p = Append(RuntimePath(n), k) PROVE Len(p) = 6
            BY <4>2, KeyPathShape
      <4> QED
            BY <4>1, <4>2 DEF EntryKey
    <3> QED
          BY <3>1, <3>2
  <2>2. RuntimePath(n) \in Ancestors(p)
        BY <1>1, <2>1, ProperPrefix
  <2> QED
        BY <1>4, <2>2, MarkersDiffer
<1>9. \A m \in Names \ {n} : GetPath(s, RuntimePath(m)) = GetPath(t, RuntimePath(m))
      BY <1>6, RuntimePathShape, PrefixOrder
<1>10. RuntimesOf(s) = RuntimesOf(t) \union {n}
      BY <1>8, <1>9 DEF RuntimesOf
<1> QED
      BY <1>2, <1>3, <1>5, <1>6, <1>7, <1>10 DEF s

\* AddRuntime makes the entry, or takes over one that is there: its path and its
\* annotations are as they are asked for, its type only if it was not there.  It
\* changes nothing of the administrator's, the default or another entry.
AddsOnly(t, a, n) ==
  /\ Editable(a)
  /\ UserConfig(a) = UserConfig(t)
  /\ DefaultRuntime(a) = DefaultRuntime(t)
  /\ RuntimesOf(a) = RuntimesOf(t) \union {n}
  /\ \A m \in Names \ {n}, q \in Path :
       IsPrefix(RuntimePath(m), q) => GetPath(a, q) = GetPath(t, q)

MakesEntry(t, a, n, path) ==
  /\ GetPath(a, ConfigPath(n)) = path
  /\ GetPath(a, Append(RuntimePath(n), "pod_annotations")) = PodAnnotations
  /\ n \in RuntimesOf(t) => GetPath(a, TypePath(n)) = GetPath(t, TypePath(n))
  /\ n \notin RuntimesOf(t) => GetPath(a, TypePath(n)) = RuntimeType

LEMMA AddRuntimeEffect ==
  ASSUME NEW t, Editable(t), NEW n \in Names, NEW path, path \notin {Table, Absent}
  PROVE  /\ AddsOnly(t, AddRuntime(t, n, path, FALSE), n)
         /\ MakesEntry(t, AddRuntime(t, n, path, FALSE), n, path)
<1> DEFINE at(k) == Append(RuntimePath(n), k)
           c  == ConfigPath(n)
           Rest(s) == /\ Editable(s)
                      /\ UserConfig(s) = UserConfig(t)
                      /\ DefaultRuntime(s) = DefaultRuntime(t)
                      /\ RuntimesOf(s) \union {n} = RuntimesOf(t) \union {n}
                      /\ \A m \in Names \ {n}, q \in Path :
                           IsPrefix(RuntimePath(m), q) => GetPath(s, q) = GetPath(t, q)
           Set(s, p, u) == /\ Rest(u) /\ n \in RuntimesOf(u)
                           /\ \A q \in EntryKey(n) \ {p} : GetPath(u, q) = GetPath(s, q)
           t1 == SetPath(t, at("runtime_type"), RuntimeType)
           t2 == SetPath(t1, at("privileged_without_host_devices"), "true")
           t3 == IF GetPath(t, RuntimePath(n)) = Absent THEN t2 ELSE t
           t4 == SetPath(t3, at("pod_annotations"), PodAnnotations)
           t5 == SetPath(t4, c, path)
<1>1. /\ at("runtime_type") \in EntryKey(n) /\ RuntimeType \notin {Table, Absent}
      /\ at("privileged_without_host_devices") \in EntryKey(n) /\ "true" \notin {Table, Absent}
      /\ at("pod_annotations") \in EntryKey(n) /\ PodAnnotations \notin {Table, Absent}
      /\ c \in EntryKey(n)
      BY KeysAreStrings, ValuesAreNoMarkers DEF EntryKey
<1>2. ASSUME NEW s, Rest(s), NEW p \in EntryKey(n), NEW v, v \notin {Table, Absent}
      PROVE  Set(s, p, SetPath(s, p, v)) /\ GetPath(SetPath(s, p, v), p) = v
      BY <1>2, EntryKeyWritten
<1>3. Rest(t)
      OBVIOUS
<1>4. /\ at("runtime_type") # at("privileged_without_host_devices")
      /\ at("runtime_type") # at("pod_annotations")
      /\ \A k \in {"runtime_type", "pod_annotations"} : at(k) # c
  <2>1. \A k \in Key : Len(at(k)) = 6 /\ at(k)[6] = k
        BY KeyPathShape
  <2>2. Len(c) = 7
        BY ConfigPathShape
  <2>3. {"runtime_type", "privileged_without_host_devices", "pod_annotations"} \subseteq Key
        BY KeysAreStrings
  <2> HIDE DEF at, c
  <2>4. at("runtime_type")[6] = "runtime_type" /\ at("pod_annotations")[6] = "pod_annotations"
        /\ at("privileged_without_host_devices")[6] = "privileged_without_host_devices"
        BY <2>1, <2>3
  <2>5. Len(at("runtime_type")) = 6 /\ Len(at("pod_annotations")) = 6
        BY <2>1, <2>3
  <2> QED
        BY <2>2, <2>4, <2>5
<1>5. AddRuntime(t, n, path, FALSE) = t5
      BY DEF AddRuntime
<1>12. \A u, p, s : Set(s, p, u) =>
         Rest(u) /\ n \in RuntimesOf(u) /\ \A q \in EntryKey(n) \ {p} : GetPath(u, q) = GetPath(s, q)
       OBVIOUS
<1> HIDE DEF Rest, Set, at, c
<1>6. Set(t, at("runtime_type"), t1) /\ GetPath(t1, at("runtime_type")) = RuntimeType
      BY <1>1, <1>2, <1>3
<1> HIDE DEF t1
<1>7. Set(t1, at("privileged_without_host_devices"), t2)
      BY <1>1, <1>2, <1>6, <1>12
<1> HIDE DEF t2
<1>8. /\ Rest(t3)
      /\ GetPath(t3, at("runtime_type")) =
           IF n \in RuntimesOf(t) THEN GetPath(t, at("runtime_type")) ELSE RuntimeType
      BY <1>1, <1>3, <1>4, <1>6, <1>7, <1>12 DEF RuntimesOf
<1> HIDE DEF t3
<1>9. Set(t3, at("pod_annotations"), t4) /\ GetPath(t4, at("pod_annotations")) = PodAnnotations
      BY <1>1, <1>2, <1>8
<1> HIDE DEF t4
<1>10. Set(t4, c, t5) /\ GetPath(t5, c) = path
      BY <1>1, <1>2, <1>9, <1>12
<1> HIDE DEF t5
<1>11. /\ GetPath(t5, at("pod_annotations")) = PodAnnotations
       /\ GetPath(t5, at("runtime_type")) = GetPath(t3, at("runtime_type"))
      BY <1>1, <1>4, <1>9, <1>10, <1>12
<1> QED
      BY <1>5, <1>8, <1>10, <1>11, <1>12 DEF Rest, at, c, TypePath, AddsOnly, MakesEntry

-----------------------------------------------------------------------------
(* RemoveRuntime.                                                          *)

\* The tables of the chain are above every entry.
LEMMA ChainIsAbove ==
  ASSUME NEW n \in Names, NEW a \in Chain
  PROVE  a \in Path /\ Len(a) \in 1 .. 4 /\ a \in Ancestors(ConfigPath(n))
<1>1. RuntimesPath \in Path /\ Len(RuntimesPath) = 4
      BY KeysAreStrings DEF RuntimesPath, Path
<1>2. PICK l \in 1 .. 4 : a = SubSeq(RuntimesPath, 1, l)
      BY <1>1 DEF Chain
<1>3. a \in Path /\ Len(a) = l /\ \A i \in 1 .. l : a[i] = RuntimesPath[i]
      BY <1>1, <1>2 DEF Path
<1>4. /\ ConfigPath(n) \in Path /\ Len(ConfigPath(n)) = 7
      /\ \A i \in 1 .. 4 : ConfigPath(n)[i] = RuntimesPath[i]
      BY RuntimePathShape, ConfigPathShape
<1>5. Len(a) < Len(ConfigPath(n)) /\ \A i \in 1 .. Len(a) : a[i] = ConfigPath(n)[i]
      BY <1>3, <1>4
<1> QED
      BY <1>3, <1>4, <1>5, AncestorKeys

\* RemoveRuntime changes nothing of the administrator's.
LEMMA RemoveRuntimeKeeps ==
  ASSUME NEW t, Editable(t), NEW n \in Names
  PROVE  /\ Editable(RemoveRuntime(t, n))
         /\ UserConfig(RemoveRuntime(t, n)) = UserConfig(t)
<1> DEFINE entry  == {p \in DOMAIN t : IsPrefix(RuntimePath(n), p)}
           named  == IF DefaultRuntime(t) = n THEN {DefaultPath} ELSE {}
           left   == DOMAIN t \ (entry \union named)
           hollow == {p \in left \intersect Chain : \A q \in left : IsPrefix(p, q) => q \in Chain}
           rest   == left \ hollow
           D      == IF rest = {Root, VersionPath} THEN {Root} ELSE rest
           r      == RemoveRuntime(t, n)
<1>1. DOMAIN r = D /\ \A p \in D : r[p] = t[p]
      BY Zenon DEF RemoveRuntime
<1>2. /\ DOMAIN t \subseteq Path
      /\ Root \in DOMAIN t /\ t[Root] = Table
      /\ \A q \in DOMAIN t : t[q] # Absent
      /\ \A q \in DOMAIN t : \A a \in Ancestors(q) : a \in DOMAIN t /\ t[a] = Table
      BY DEF Editable, WellFormed, Path
<1>3. n \notin {Table, Absent} /\ RuntimePath(n) \in Path
      BY ValuesAreNoMarkers, RuntimePathShape
<1>4. \A a \in Chain : a \in DOMAIN t => t[a] = Table
      BY <1>2, ChainIsAbove DEF Editable, GetPath
<1>5. \A p \in named : p = DefaultPath /\ p \in DOMAIN t /\ t[p] = n
      BY <1>3 DEF DefaultRuntime, GetPath
<1>6. Root \in rest
  <2>1. Root \in Path /\ Len(Root) = 0
        BY DEF Root, Path
  <2>2. Root \notin entry
        BY <2>1, RuntimePathShape, PrefixKeys
  <2>3. Root \notin named /\ Root \notin Chain
        BY <1>5, <2>1, OtherPathsShape, ChainIsAbove
  <2> QED
        BY <1>2, <2>2, <2>3
<1>7. ASSUME NEW q \in rest, NEW a \in Ancestors(q) PROVE a \in rest
  <2>1. q \in Path /\ q \in DOMAIN t /\ a \in DOMAIN t /\ a \in Path /\ t[a] = Table
        BY <1>2
  <2>2. a \notin entry
        BY <1>3, <2>1, PrefixOfAncestor
  <2>3. a \notin named
        BY <1>3, <1>5, <2>1
  <2>4. a \notin hollow
    <3>1. SUFFICES ASSUME a \in hollow PROVE FALSE
          OBVIOUS
    <3>2. IsPrefix(a, q)
          BY <2>1, AncestorOrder
    <3>3. q \in left \intersect Chain
          BY <3>1, <3>2
    <3>4. PICK u \in left : IsPrefix(q, u) /\ u \notin Chain
          BY <3>3
    <3>5. IsPrefix(a, u)
          BY <1>2, <2>1, <3>2, <3>4, PrefixOrder
    <3> QED
          BY <3>1, <3>4, <3>5
  <2> QED
        BY <2>1, <2>2, <2>3, <2>4
<1>8. \A q \in D : \A a \in Ancestors(q) : a \in D
  <2>1. Ancestors(Root) = {}
    <3>1. Root \in Path /\ Len(Root) = 0
          BY DEF Root, Path
    <3>2. \A a : a \in Path => Len(a) \in Nat
          BY DEF Path
    <3> QED
          BY <3>1, <3>2, AncestorKeys
  <2> HIDE DEF rest
  <2> QED
        BY <1>7, <2>1
<1>9. D \subseteq rest /\ Root \in D /\ \A p \in rest \ D : p = VersionPath
  <2> HIDE DEF rest
  <2> QED
        BY <1>6
<1>10. \A p \in DOMAIN t \ D : p \in UserLeaves(t) => FALSE
  <2>1. \A p \in entry : p \notin UserLeaves(t)
        BY DEF UserLeaves, Managed
  <2>2. \A p \in named : p \notin UserLeaves(t)
        BY <1>5 DEF UserLeaves, Managed
  <2>3. \A p \in hollow : p \notin UserLeaves(t)
        BY <1>4 DEF UserLeaves, Leaves
  <2>4. VersionPath \notin UserLeaves(t)
        BY DEF UserLeaves, Managed
  <2>5. \A p \in DOMAIN t \ D : p \in entry \/ p \in named \/ p \in hollow \/ p = VersionPath
        BY <1>9
  <2> QED
        BY <2>1, <2>2, <2>3, <2>4, <2>5
<1>11. D \subseteq DOMAIN t
      BY <1>9
<1> HIDE DEF D, r
<1>12. Editable(r)
  <2>1. WellFormed(r)
        BY <1>1, <1>2, <1>8, <1>9, <1>11 DEF WellFormed, Path
  <2>2. \A q : GetPath(r, q) = GetPath(t, q) \/ GetPath(r, q) = Absent
        BY <1>1, <1>11 DEF GetPath
  <2> QED
        BY <2>1, <2>2, MarkersDiffer DEF Editable, IsTable
<1>13. UserLeaves(r) = UserLeaves(t)
  <2>1. \A p \in D : p \in UserLeaves(r) <=> p \in UserLeaves(t)
        BY <1>1, <1>11 DEF UserLeaves, Leaves, Managed
  <2>2. UserLeaves(r) \subseteq D /\ UserLeaves(t) \subseteq DOMAIN t
        BY <1>1 DEF UserLeaves, Leaves
  <2> QED
        BY <1>10, <2>1, <2>2
<1>14. \A p \in UserLeaves(t) : r[p] = t[p]
      BY <1>1, <1>10 DEF UserLeaves, Leaves
<1> QED
      BY <1>12, <1>13, <1>14 DEF UserConfig, r

\* What belongs to an entry is not what RemoveRuntime may take besides.
LEMMA EntryIsDeep ==
  ASSUME NEW n \in Names, NEW q \in Path, IsPrefix(RuntimePath(n), q)
  PROVE  q \notin Chain /\ q # VersionPath /\ q # DefaultPath
<1>1. RuntimePath(n) \in Path /\ Len(RuntimePath(n)) = 5
      BY RuntimePathShape
<1>2. Len(q) \in Nat
      BY DEF Path
<1>3. \A i \in 1 .. 4 : Len(q) # i
  <2>1. Len(q) >= 5
        BY <1>1, PrefixKeys
  <2> QED
        BY <1>2, <2>1
<1>4. \A a \in Chain : Len(a) \in 1 .. 4
      BY ChainIsAbove
<1>5. Len(VersionPath) = 1 /\ Len(DefaultPath) = 4 /\ 1 \in 1 .. 4 /\ 4 \in 1 .. 4
      BY OtherPathsShape
<1> QED
      BY <1>3, <1>4, <1>5, Zenon

\* A tree with the path of a kata configuration has the entry.
LEMMA EntryIsThere ==
  ASSUME NEW t, Editable(t), NEW n \in Names, GetPath(t, ConfigPath(n)) # Absent
  PROVE  n \in RuntimesOf(t)
<1>1. ConfigPath(n) \in DOMAIN t
      BY DEF GetPath
<1>2. RuntimePath(n) \in Ancestors(ConfigPath(n))
  <2>1. RuntimePath(n) # ConfigPath(n)
    <3>1. Len(RuntimePath(n)) # Len(ConfigPath(n))
          BY RuntimePathShape, ConfigPathShape
    <3> QED
          BY <3>1, Zenon
  <2> QED
        BY <2>1, EntryPaths, ProperPrefix
<1>3. RuntimePath(n) \in DOMAIN t /\ t[RuntimePath(n)] = Table
      BY <1>1, <1>2 DEF Editable, WellFormed
<1> QED
      BY <1>3, MarkersDiffer DEF RuntimesOf, GetPath

\* RemoveRuntime takes the entry, and with it a default that names it; it leaves
\* every other entry as it is.
LEMMA RemoveRuntimeEffect ==
  ASSUME NEW t, Editable(t), NEW n \in Names
  PROVE  LET r == RemoveRuntime(t, n)
         IN  /\ \A q : GetPath(r, q) \in {GetPath(t, q), Absent}
             /\ DefaultRuntime(r) = IF DefaultRuntime(t) = n THEN Absent ELSE DefaultRuntime(t)
             /\ RuntimesOf(r) = RuntimesOf(t) \ {n}
             /\ \A m \in Names \ {n}, q \in Path :
                  IsPrefix(RuntimePath(m), q) => GetPath(r, q) = GetPath(t, q)
<1> DEFINE entry  == {p \in DOMAIN t : IsPrefix(RuntimePath(n), p)}
           named  == IF DefaultRuntime(t) = n THEN {DefaultPath} ELSE {}
           left   == DOMAIN t \ (entry \union named)
           hollow == {p \in left \intersect Chain : \A q \in left : IsPrefix(p, q) => q \in Chain}
           rest   == left \ hollow
           D      == IF rest = {Root, VersionPath} THEN {Root} ELSE rest
           r      == RemoveRuntime(t, n)
<1>1. DOMAIN r = D /\ \A p \in D : r[p] = t[p]
      BY Zenon DEF RemoveRuntime
<1>2. D \subseteq rest \/ D = {Root}
      OBVIOUS
<1>3. DOMAIN t \subseteq Path /\ Root \in DOMAIN t /\ \A q \in DOMAIN t : t[q] # Absent
      BY DEF Editable, WellFormed, Path
<1>4. \A q : q \in DOMAIN t /\ ~IsPrefix(RuntimePath(n), q) /\ q \notin named
            /\ q \notin Chain /\ q # VersionPath => q \in D
      OBVIOUS
<1>5. \A q \in D : q \in DOMAIN t
      BY <1>2, <1>3
<1>6. \A q \in D : q # Root => ~IsPrefix(RuntimePath(n), q) /\ q \notin named
      BY <1>2
<1> HIDE DEF D, r
<1>7. \A q : GetPath(r, q) \in {GetPath(t, q), Absent}
      BY <1>1, <1>5 DEF GetPath
<1>8. ASSUME NEW m \in Names \ {n}, NEW q \in Path, IsPrefix(RuntimePath(m), q)
      PROVE  GetPath(r, q) = GetPath(t, q)
  <2>1. RuntimePath(m) \in Path /\ RuntimePath(n) \in Path
        BY RuntimePathShape
  <2>3. q \notin Chain /\ q # VersionPath /\ q # DefaultPath
        BY <1>8, EntryIsDeep
  <2>4. ~IsPrefix(RuntimePath(n), q)
        BY <1>8, <2>1, EntryIsApart, PrefixOrder
  <2>5. q \in DOMAIN t => q \in D
        BY <1>4, <2>3, <2>4
  <2> QED
        BY <1>1, <1>5, <2>5 DEF GetPath
<1>9. \A m \in Names \ {n} : GetPath(r, RuntimePath(m)) = GetPath(t, RuntimePath(m))
      BY <1>8, EntryPaths
<1>10. RuntimePath(n) \notin D
  <2>1. RuntimePath(n) # Root /\ IsPrefix(RuntimePath(n), RuntimePath(n))
        BY RuntimePathShape, EntryPaths DEF Root
  <2> QED
        BY <1>6, <2>1
<1>11. RuntimesOf(r) = RuntimesOf(t) \ {n}
      BY <1>1, <1>9, <1>10 DEF RuntimesOf, GetPath
<1>12. DefaultRuntime(r) = IF DefaultRuntime(t) = n THEN Absent ELSE DefaultRuntime(t)
  <2>1. /\ DefaultPath # Root /\ DefaultPath # VersionPath /\ ~IsPrefix(RuntimePath(n), DefaultPath)
        /\ DefaultPath \notin Chain
    <3>1. DefaultPath \notin Ancestors(ConfigPath(n))
          BY DefaultIsApart
    <3> QED
          BY <3>1, DefaultIsApart, ChainIsAbove
  <2>2. CASE DefaultRuntime(t) = n
        BY <1>1, <1>6, <2>1, <2>2 DEF DefaultRuntime, GetPath
  <2>3. CASE DefaultRuntime(t) # n
    <3>1. DefaultPath \in DOMAIN t => DefaultPath \in D
          BY <1>4, <2>1, <2>3
    <3> QED
          BY <1>1, <1>5, <2>3, <3>1 DEF DefaultRuntime, GetPath
  <2> QED
        BY <2>2, <2>3
<1> QED
      BY <1>7, <1>8, <1>11, <1>12 DEF r

-----------------------------------------------------------------------------
(* The administrator's edits.                                              *)

\* An edit of what is his leaves the entries and a default that names one alone, if
\* the file can be edited afterwards.
LEMMA EditElsewhere ==
  ASSUME NEW t, WellFormed(t), NEW p, NEW v, v \notin {Table, Absent},
         Editable(SetPath(t, p, v)),
         p = VersionPath \/ ~Managed(SetPath(t, p, v), p)
  PROVE  /\ \A n \in Names, q \in Path :
              IsPrefix(RuntimePath(n), q) => GetPath(SetPath(t, p, v), q) = GetPath(t, q)
         /\ \A n \in Names :
              DefaultRuntime(SetPath(t, p, v)) = n => DefaultRuntime(t) = n
<1> DEFINE s == SetPath(t, p, v)
<1>1. p \in DOMAIN s
      BY DEF SetPath
<1>2. WellFormed(s) /\ p \in Path
      BY <1>1 DEF Editable, WellFormed, Path
<1>3. /\ GetPath(s, p) = v
      /\ \A q : ~IsPrefix(p, q) /\ q \notin Ancestors(p) => GetPath(s, q) = GetPath(t, q)
      BY <1>2, SetPathElsewhere
<1> HIDE DEF s
<1>4. \A n \in Names : p \notin Ancestors(ConfigPath(n))
      BY <1>3 DEF Editable, s
<1>5. \A n \in Names : ~IsPrefix(RuntimePath(n), p)
  <2>1. CASE p = VersionPath
    <3>1. Len(p) = 1 /\ \A n \in Names : RuntimePath(n) \in Path /\ Len(RuntimePath(n)) = 5
          BY <2>1, OtherPathsShape, RuntimePathShape
    <3> QED
          BY <1>2, <3>1, PrefixKeys
  <2>2. CASE ~Managed(s, p)
        BY <2>2 DEF Managed
  <2> QED
        BY <2>1, <2>2 DEF s
<1>6. ASSUME NEW n \in Names, NEW q \in Path, IsPrefix(RuntimePath(n), q)
      PROVE  GetPath(s, q) = GetPath(t, q)
  <2>1. /\ RuntimePath(n) \in Path /\ ConfigPath(n) \in Path
        /\ IsPrefix(RuntimePath(n), ConfigPath(n))
        BY EntryPaths
  <2>2. ~IsPrefix(p, q)
    <3>1. SUFFICES ASSUME IsPrefix(p, q) PROVE FALSE
          OBVIOUS
    <3>2. p \in Ancestors(RuntimePath(n))
          BY <1>2, <1>5, <1>6, <2>1, <3>1, PrefixesCompare
    <3>3. p \in Ancestors(ConfigPath(n))
          BY <2>1, <3>2, AncestorOfPrefix
    <3> QED
          BY <1>4, <3>3
  <2>3. q \notin Ancestors(p)
        BY <1>2, <1>5, <1>6, <2>1, PrefixOfAncestor, AncestorOrder, PrefixOrder
  <2> QED
        BY <1>3, <2>2, <2>3
<1>7. ASSUME NEW n \in Names, DefaultRuntime(s) = n PROVE DefaultRuntime(t) = n
  <2>1. DefaultPath \in Path /\ Ancestors(DefaultPath) \subseteq Ancestors(ConfigPath(n))
        BY DefaultIsApart
  <2>2. p # DefaultPath
    <3>1. SUFFICES ASSUME p = DefaultPath PROVE FALSE
          OBVIOUS
    <3>2. s[DefaultPath] = n
          BY <1>1, <1>7, <3>1 DEF DefaultRuntime, GetPath, s
    <3>3. Managed(s, p)
          BY <3>1, <3>2 DEF Managed
    <3> QED
          BY <3>1, <3>3, DefaultIsApart DEF s
  <2>3. ~IsPrefix(p, DefaultPath)
        BY <1>2, <1>4, <2>1, <2>2, ProperPrefix
  <2>4. DefaultPath \notin Ancestors(p)
    <3>1. SUFFICES ASSUME DefaultPath \in Ancestors(p) PROVE FALSE
          OBVIOUS
    <3>2. DefaultPath \in DOMAIN s /\ s[DefaultPath] = Table
          BY <1>1, <1>2, <3>1 DEF WellFormed, s
    <3> QED
          BY <3>2 DEF Editable, IsTable, GetPath, s
  <2> QED
        BY <1>3, <1>7, <2>3, <2>4 DEF DefaultRuntime
<1> QED
      BY <1>6, <1>7 DEF s

-----------------------------------------------------------------------------
(* Save.                                                                   *)

\* The empty tree, that of an empty or a missing file.
LEMMA EmptyTreeIsFree ==
  Editable(EmptyTree) /\ DefaultRuntime(EmptyTree) = Absent /\ RuntimesOf(EmptyTree) = {}
<1>1. DOMAIN EmptyTree = {Root} /\ EmptyTree[Root] = Table
      BY DEF EmptyTree
<1>2. Root \in Path /\ Len(Root) = 0
      BY DEF Root, Path
<1>3. Ancestors(Root) = {}
  <2>1. \A a \in Path : Len(a) \in Nat
        BY DEF Path
  <2> QED
        BY <1>2, <2>1, AncestorKeys
<1>4. WellFormed(EmptyTree)
      BY <1>1, <1>2, <1>3, MarkersDiffer DEF WellFormed, Path
<1>5. DefaultPath # Root /\ VersionPath # Root
      BY <1>2, OtherPathsShape
<1>6. \A n \in Names : RuntimePath(n) # Root
      BY <1>2, RuntimePathShape
<1> HIDE DEF EmptyTree, Root
<1> QED
      BY <1>1, <1>3, <1>4, <1>5, <1>6, MarkersDiffer
      DEF Editable, IsTable, GetPath, DefaultRuntime, RuntimesOf

\* A tree that is written as zero bytes is a root.
LEMMA ZeroBytesIsRoot ==
  ASSUME NEW t, WellFormed(t), RendersEmpty(t)
  PROVE  DOMAIN t = {Root}
<1>1. /\ DOMAIN t \subseteq Path /\ Root \in DOMAIN t
      /\ \A q \in DOMAIN t : \A a \in Ancestors(q) : a \in DOMAIN t
      BY DEF WellFormed, Path
<1>2. ASSUME NEW p \in DOMAIN t, p # Root PROVE FALSE
  <2>1. Root \in Path /\ p \in Path /\ IsPrefix(Root, p)
        BY <1>1, PrefixKeys DEF Root, Path
  <2>2. PICK k \in Path : k \in Ancestors(p) \union {p} /\ k # Root /\ Front(k) = Root
        BY <1>2, <2>1, NextKey
  <2> QED
        BY <1>1, <2>2 DEF RendersEmpty, Keys
<1> QED
      BY <1>1, <1>2

\* It holds nothing.
LEMMA RendersEmptyIsEmpty ==
  ASSUME NEW t, WellFormed(t), RendersEmpty(t)
  PROVE  UserConfig(t) = UserConfig(EmptyTree) /\ RuntimesOf(t) = {}
<1>1. t[Root] = Table
      BY DEF WellFormed
<1>2. DOMAIN t = {Root}
      BY ZeroBytesIsRoot
<1>3. UserLeaves(EmptyTree) = {} /\ UserLeaves(t) = {}
      BY <1>1, <1>2 DEF UserLeaves, Leaves, EmptyTree
<1>4. \A n \in Names : RuntimePath(n) # Root
      BY RuntimePathShape DEF Root
<1>5. RuntimesOf(t) = {}
      BY <1>2, <1>4 DEF RuntimesOf, GetPath
<1> QED
      BY <1>3, <1>5 DEF UserConfig

=============================================================================
