--------------------------- MODULE ArtifactsProofs ---------------------------
(***************************************************************************)
(* Three invariants of Artifacts, for any artifacts that follow each other *)
(* at the URL, in whatever order the files of a pull are written and       *)
(* whenever workers die: what kata reads while a worker waits is what was  *)
(* pulled for it, but for the paths of the assets, and it is whole.        *)
(*                                                                         *)
(* None is inductive: they speak of a worker that waits, which is at the   *)
(* end of the start.  The invariant follows a start: which files of the    *)
(* artifact are as published while it is pulled (PulledSoFar), and that    *)
(* only the chosen one is touched after it (OnlyPicked).  The third speaks *)
(* of the entry as well (EntryIsPicked), and has to tell a configuration   *)
(* from a torn file after any number of starts (TomlsAreTrees): it can, as *)
(* from the second transform on nothing changes (TransformSettles).        *)
(***************************************************************************)
EXTENDS Artifacts, TomlTreeProofs, WellFoundedInduction, TLAPS

\* Of the artifact that is pulled, only the files not yet written are not as they
\* were published.
PulledSoFar ==
  pc \in {"pull", "pick"} =>
    /\ todo \union writing \subseteq DOMAIN pulling
    /\ \A n \in DOMAIN pulling \ (todo \union writing) : dir[n] = pulling[n]

\* Files are asked for, and written, by a pull only.
Settled == pc # "pull" => todo \union writing = {}

\* The worker has changed no file of it but the configuration it has chosen.
OnlyPicked ==
  pc \in {"rewrite", "save", "wait"} =>
    /\ picked \in TomlNames
    /\ \A n \in DOMAIN pulling \ {picked} : dir[n] = pulling[n]
    /\ picked \in DOMAIN pulling => config = pulling[picked]
    /\ Transformable(config)
    /\ pc # "rewrite" => dir[picked] = Transform(config, ClassDir)

\* The inductive invariant.
IInv == TypeOK /\ PulledSoFar /\ Settled /\ OnlyPicked

-----------------------------------------------------------------------------

\* The names of an artifact are names of files.
LEMMA NamesAreFiles == \A a \in Published : DOMAIN a \subseteq FileNames
BY DEF FileNames

\* The first of some candidates is one of them.
LEMMA FirstIsOne ==
  ASSUME NEW S, S \subseteq Nat, S # {}
  PROVE  First(S) \in S
<1> DEFINE R == OpToRel(<, Nat)
<1>1. IsWellFoundedOn(R, Nat)
      BY NatLessThanWellFounded
<1>2. PICK i \in S : \A j \in S : ~(<<j, i>> \in R)
      BY <1>1, WFMin
<1>3. \A j \in S : i <= j
  <2>1. \A j \in Nat : j < i => <<j, i>> \in R
        BY DEF OpToRel
  <2> HIDE DEF R
  <2>2. i \in Nat /\ \A j \in S : j \in Nat /\ ~(j < i)
        BY <1>2, <2>1, Zenon
  <2> QED
        BY <2>2
<1> QED
      BY <1>3 DEF First

\* What is chosen is a file with the name of a configuration.
LEMMA ChosenIsThere ==
  ASSUME Usable
  PROVE  Chosen \in TomlNames /\ dir[Chosen] \notin {NoFile, Torn}
<1>1. Candidates \subseteq Nat /\ Candidates # {}
      BY TomlsListed DEF Usable, Candidates
<1>2. First(Candidates) \in Candidates
      BY <1>1, FirstIsOne
<1> QED
      BY <1>2 DEF Usable, Candidates, Chosen, TomlNames

\* A transform changes nothing but the paths of the assets.
LEMMA TransformIsFaithful ==
  ASSUME NEW t, Transformable(t)
  PROVE  Faithful(Transform(t, ClassDir), t)
<1> DEFINE s == Transform(t, ClassDir)
<1>1. /\ DOMAIN s = DOMAIN t
      /\ \A p \in Assets(t) : s[p] = Join(ClassDir, Base(t[p]))
      /\ \A p \in DOMAIN t \ Assets(t) : s[p] = t[p]
      BY DEF Transform, Assets
<1> HIDE DEF s
<1>2. ASSUME NEW p \in Assets(t)
      PROVE  \/ t[p] # << >> /\ s[p] = Append(ClassDir, t[p][Len(t[p])])
             \/ t[p] = << >> /\ s[p] = ClassDir
             \/ t[p] # << >> /\ t[p][Len(t[p])] = "." /\ s[p] = ClassDir
      BY <1>1 DEF Join, Base, Last
<1>3. \A p \in DOMAIN t : p \in Assets(t) <=>
        (Len(p) = 3 /\ p[1] = "hypervisor" /\ p[3] \in {"kernel", "image", "initrd"})
      BY DEF Assets, AssetKeys
<1> QED
      BY <1>1, <1>2, <1>3 DEF Faithful, s

-----------------------------------------------------------------------------

\* A worker that ends leaves nothing to say of it.
LEMMA EndsKeeps ==
  ASSUME IInv, Ends, UNCHANGED dir, remote' \in Published, entry' \in {entry, NoFile}
  PROVE  IInv'
<1>1. TypeOK'
      BY DEF IInv, TypeOK, Ends
<1> QED
      BY <1>1 DEF IInv, Ends, PulledSoFar, Settled, OnlyPicked

\* The steps of a pull.
LEMMA PullKeeps ==
  ASSUME IInv, Pull \/ (\E n \in FileNames : OpenFile(n) \/ WriteFile(n)) \/ Pulled
  PROVE  IInv'
<1> USE DEF IInv
<1>1. CASE Pull
  <2>1. TypeOK'
        BY <1>1, NamesAreFiles DEF TypeOK, Pull, Settled
  <2> QED
        BY <1>1, <2>1 DEF TypeOK, Pull, PulledSoFar, Settled, OnlyPicked
<1>2. ASSUME NEW n \in FileNames, OpenFile(n) PROVE IInv'
  <2>1. TypeOK'
        BY <1>2 DEF TypeOK, OpenFile
  <2>2. PulledSoFar'
        BY <1>2 DEF TypeOK, OpenFile, PulledSoFar
  <2> QED
        BY <1>2, <2>1, <2>2 DEF OpenFile, OnlyPicked, Settled
<1>3. ASSUME NEW n \in FileNames, WriteFile(n) PROVE IInv'
  <2>1. TypeOK'
        BY <1>3 DEF TypeOK, WriteFile
  <2>2. PulledSoFar'
        BY <1>3, NamesAreFiles DEF TypeOK, WriteFile, PulledSoFar
  <2> QED
        BY <1>3, <2>1, <2>2 DEF WriteFile, OnlyPicked, Settled
<1>4. CASE Pulled
  <2>1. TypeOK'
        BY <1>4 DEF TypeOK, Pulled
  <2> QED
        BY <1>4, <2>1 DEF Pulled, PulledSoFar, Settled, OnlyPicked
<1> QED
      BY <1>1, <1>2, <1>3, <1>4

\* The steps of the transform, and of AddRuntime and Save.
LEMMA TransformKeeps ==
  ASSUME IInv, OpenKataConfig \/ Rewrite \/ AddEntry
  PROVE  IInv'
<1> USE DEF IInv
<1>1. \A a \in Published : DOMAIN a \subseteq FileNames
      BY NamesAreFiles
<1>2. TomlNames \subseteq FileNames
      BY DEF TomlNames
<1>3. CASE OpenKataConfig
  <2>1. Chosen \in TomlNames /\ dir[Chosen] \notin {NoFile, Torn} /\ Transformable(dir[Chosen])
        BY <1>3, ChosenIsThere DEF OpenKataConfig, Usable
  <2> HIDE DEF IInv
  <2> DEFINE c == Chosen
  <2>2. /\ pc = "pick" /\ pc' = "rewrite" /\ picked' = c /\ config' = dir[c]
        /\ dir' = [dir EXCEPT ![c] = Torn]
        /\ UNCHANGED <<remote, pulling, todo, writing, entry, left, abandoned>>
        BY <1>3 DEF OpenKataConfig
  <2>3. c \in TomlNames /\ dir[c] \notin {NoFile, Torn} /\ Transformable(dir[c])
        BY <2>1
  <2> HIDE DEF c
  <2>4. TypeOK'
        BY <2>2, <2>3 DEF IInv, TypeOK, IsTree
  <2>5. OnlyPicked'
    <3>1. \A n \in DOMAIN pulling : dir[n] = pulling[n]
          BY <2>2 DEF IInv, PulledSoFar, Settled
    <3>2. \A n \in DOMAIN pulling \ {c} : dir'[n] = dir[n]
          BY <1>1, <2>2 DEF IInv, TypeOK
    <3>3. Transformable(config')
          BY <2>2, <2>3
    <3> QED
          BY <2>2, <2>3, <3>1, <3>2, <3>3 DEF OnlyPicked
  <2> QED
        BY <2>2, <2>4, <2>5 DEF IInv, PulledSoFar, Settled
<1>4. CASE Rewrite
  <2>1. TypeOK'
        BY <1>4 DEF TypeOK, Rewrite, IsTree
  <2>2. OnlyPicked'
    <3>1. picked \in DOMAIN dir
          BY <1>2, <1>4 DEF TypeOK, Rewrite, OnlyPicked
    <3>2. dir'[picked] = Transform(config, ClassDir) /\ \A n \in DOMAIN dir \ {picked} : dir'[n] = dir[n]
          BY <1>4, <3>1 DEF Rewrite
    <3>3. DOMAIN pulling \subseteq DOMAIN dir
          BY <1>1 DEF TypeOK
    <3> QED
          BY <1>4, <3>2, <3>3 DEF Rewrite, OnlyPicked
  <2> QED
        BY <1>4, <2>1, <2>2 DEF Rewrite, PulledSoFar, Settled
<1>5. CASE AddEntry
  <2>1. TypeOK'
        BY <1>5 DEF TypeOK, AddEntry, IsTree
  <2> QED
        BY <1>5, <2>1 DEF AddEntry, PulledSoFar, Settled, OnlyPicked
<1> QED
      BY <1>3, <1>4, <1>5

\* It holds at first.
LEMMA InitInv == Init => IInv
BY DEF Init, IInv, TypeOK, PulledSoFar, Settled, OnlyPicked

\* Every step keeps it.
LEMMA NextInv == IInv /\ [Next]_vars => IInv'
<1> SUFFICES ASSUME IInv, [Next]_vars PROVE IInv'
    OBVIOUS
<1>1. CASE NoKataConfig \/ CleanUp \/ Die
      BY <1>1, EndsKeeps DEF NoKataConfig, CleanUp, Die, IInv, TypeOK
<1>2. CASE Publish
  <2>1. remote' \in Published
        BY <1>2 DEF Publish
  <2>2. UNCHANGED <<worker, dir, entry>>
        BY <1>2 DEF Publish
  <2> QED
        BY <2>1, <2>2 DEF worker, IInv, TypeOK, PulledSoFar, Settled, OnlyPicked
<1>3. CASE UNCHANGED vars
      BY <1>3 DEF vars, worker, IInv, TypeOK, PulledSoFar, Settled, OnlyPicked
<1> QED
      BY <1>1, <1>2, <1>3, PullKeeps, TransformKeeps DEF Next, Work

\* The types of the variables, and that a worker past its transform has read a
\* configuration (main.go:416-450).
THEOREM TypeCorrect == Spec => []TypeOK
<1>1. IInv => TypeOK
      BY DEF IInv
<1> QED
      BY <1>1, InitInv, NextInv, PTL DEF Spec

\* What kata is configured with while a worker waits is the configuration pulled for
\* this start, with its assets in the directory of the class; or one of an earlier
\* artifact that sorts first (ConfigExplained: main.go:285-312).
THEOREM ConfigIsOfThisStart == Spec => []ConfigExplained
<1>1. IInv => ConfigExplained
  <2> SUFFICES ASSUME IInv, pc = "wait", picked \in DOMAIN pulling
               PROVE  Faithful(dir[picked], pulling[picked])
      BY DEF ConfigExplained, Stale
  <2>1. /\ config = pulling[picked] /\ Transformable(config)
        /\ dir[picked] = Transform(config, ClassDir)
        BY DEF IInv, OnlyPicked
  <2> QED
        BY <2>1, TransformIsFaithful
<1> QED
      BY <1>1, InitInv, NextInv, PTL DEF Spec

\* The assets it names are whole, as they were published, whatever a worker that died
\* before had left of them (AssetsWhole).
THEOREM AssetsAreWhole == Spec => []AssetsWhole
<1>1. IInv => AssetsWhole
      BY DEF IInv, OnlyPicked, AssetsWhole
<1> QED
      BY <1>1, InitInv, NextInv, PTL DEF Spec

-----------------------------------------------------------------------------
(* What pods meet.                                                         *)

\* The path of an asset after a transform.
Placed(f) == Join(ClassDir, Base(f))

\* It is in the directory of the class, and from the second time on the same.
LEMMA PlacedSettles ==
  ASSUME NEW f \in Seq(STRING)
  PROVE  /\ Placed(f) \in Seq(STRING) /\ IsPrefix(ClassDir, Placed(f))
         /\ Placed(Placed(Placed(f))) = Placed(Placed(f))
<1>1. \A g \in Seq(STRING) : Base(g) \in STRING \union {"."}
  <2>1. ASSUME NEW g \in Seq(STRING), g # << >> PROVE g[Len(g)] \in STRING
    <3>1. Len(g) \in 1 .. Len(g)
          BY <2>1, EmptySeq
    <3> QED
          BY <3>1, ElementOfSeq
  <2> QED
        BY <2>1, Zenon DEF Base, Last
<1>2. \A x : Join(ClassDir, x) = IF x = "." THEN ClassDir ELSE Append(ClassDir, x)
      BY DEF Join
<1>3. ClassDir \in Seq(STRING)
      BY ClassDirIsPath
<1>4. \A x \in STRING : /\ Append(ClassDir, x) \in Seq(STRING)
                        /\ Base(Append(ClassDir, x)) = x
                        /\ IsPrefix(ClassDir, Append(ClassDir, x))
  <2> SUFFICES ASSUME NEW x \in STRING
               PROVE  /\ Append(ClassDir, x) \in Seq(STRING)
                      /\ Base(Append(ClassDir, x)) = x
                      /\ IsPrefix(ClassDir, Append(ClassDir, x))
      OBVIOUS
  <2>1. /\ Append(ClassDir, x) \in Seq(STRING)
        /\ Len(Append(ClassDir, x)) = Len(ClassDir) + 1
        /\ Append(ClassDir, x)[Len(ClassDir) + 1] = x
        /\ \A i \in 1 .. Len(ClassDir) : Append(ClassDir, x)[i] = ClassDir[i]
        BY <1>3, AppendKey DEF Path, Key
  <2>2. Len(ClassDir) \in Nat
        BY <1>3
  <2>3. IsPrefix(ClassDir, Append(ClassDir, x))
    <3>1. ClassDir \in Path /\ Append(ClassDir, x) \in Path
          BY <1>3, <2>1 DEF Path, Key
    <3>2. /\ Len(ClassDir) <= Len(Append(ClassDir, x))
          /\ \A i \in 1 .. Len(ClassDir) : ClassDir[i] = Append(ClassDir, x)[i]
          BY <2>1, <2>2
    <3> QED
          BY <3>1, <3>2, PrefixKeys
  <2>4. Append(ClassDir, x) # << >>
    <3>1. Len(Root) = 0
          BY DEF Root
    <3>2. \A s : Len(s) = Len(ClassDir) + 1 => s # Root
          BY <2>2, <3>1
    <3> QED
          BY <2>1, <3>2 DEF Root
  <2>5. Base(Append(ClassDir, x)) = x
        BY <2>1, <2>4 DEF Base, Last
  <2> QED
        BY <2>1, <2>3, <2>5
<1>5. IsPrefix(ClassDir, ClassDir)
      BY <1>3, PrefixOrder DEF Path, Key
<1>6. \A g \in Seq(STRING) :
        /\ Placed(g) \in Seq(STRING) /\ IsPrefix(ClassDir, Placed(g))
        /\ Placed(g) = IF Base(g) = "." THEN ClassDir ELSE Append(ClassDir, Base(g))
      BY <1>1, <1>2, <1>3, <1>4, <1>5 DEF Placed
\* A path that was not empty stays where it is put.
<1>7. \A g \in Seq(STRING) : Base(g) # "." => Placed(Placed(g)) = Placed(g)
      BY <1>1, <1>4, <1>6
<1>8. CASE Base(f) # "."
      BY <1>6, <1>7, <1>8
<1>9. CASE Base(f) = "." /\ Base(ClassDir) # "."
      BY <1>3, <1>6, <1>7, <1>9
<1>10. CASE Base(f) = "." /\ Base(ClassDir) = "."
       BY <1>3, <1>6, <1>10
<1> QED
      BY <1>6, <1>8, <1>9, <1>10

\* A transform gives a configuration that can be transformed again, with its assets in
\* the directory of the class; from the second time on it changes nothing.
LEMMA TransformSettles ==
  ASSUME NEW t, Transformable(t)
  PROVE  LET s == Transform(t, ClassDir)
         IN  /\ Transformable(s)
             /\ \A p \in Assets(s) : IsPrefix(ClassDir, s[p])
             /\ Transform(Transform(s, ClassDir), ClassDir) = Transform(s, ClassDir)
<1> DEFINE s == Transform(t, ClassDir)
           u == Transform(s, ClassDir)
<1>1. \A v : /\ DOMAIN Transform(v, ClassDir) = DOMAIN v
             /\ Assets(Transform(v, ClassDir)) = Assets(v)
             /\ \A p \in DOMAIN v :
                  Transform(v, ClassDir)[p] = IF p \in Assets(v) THEN Placed(v[p]) ELSE v[p]
             /\ Transform(v, ClassDir) =
                  [p \in DOMAIN v |-> IF p \in Assets(v) THEN Placed(v[p]) ELSE v[p]]
      BY DEF Transform, Assets, Placed
<1>2. \A v : Assets(v) \subseteq DOMAIN v
      BY DEF Assets
<1>3. \A p \in Assets(t) : t[p] \in Seq(STRING)
      BY DEF Transformable
<1>4. /\ DOMAIN s = DOMAIN t /\ Assets(s) = Assets(t)
      /\ \A p \in Assets(t) : s[p] = Placed(t[p])
      BY <1>1, <1>2
<1> HIDE DEF s
<1>5. /\ DOMAIN u = DOMAIN t /\ Assets(u) = Assets(t)
      /\ \A p \in Assets(t) : u[p] = Placed(Placed(t[p]))
      BY <1>1, <1>2, <1>4
<1>6. Transformable(s) /\ \A p \in Assets(s) : IsPrefix(ClassDir, s[p])
      BY <1>3, <1>4, PlacedSettles DEF Transformable
<1>7. u = [p \in DOMAIN u |-> u[p]]
      BY <1>1
<1> HIDE DEF u
<1>8. Transform(u, ClassDir) = [p \in DOMAIN u |-> IF p \in Assets(u) THEN Placed(u[p]) ELSE u[p]]
      BY <1>1
<1>9. \A p \in DOMAIN u : p \in Assets(u) => Placed(u[p]) = u[p]
      BY <1>3, <1>5, PlacedSettles
<1>10. Transform(u, ClassDir) = u
       BY <1>7, <1>8, <1>9
<1> QED
      BY <1>6, <1>10 DEF s, u

\* What is in a *.toml is torn or a configuration.
Contents == Configs \union Rewrites(Configs) \union Rewrites(Rewrites(Configs))

TomlsAreTrees ==
  /\ \A n \in TomlNames : dir[n] \in Contents \union {Torn, NoFile}
  /\ pc \in {"rewrite", "save", "wait"} => config \in Contents

\* The entry is that of the worker that waits.
EntryIsPicked == entry # NoFile => abandoned \/ (pc = "wait" /\ entry = picked)

\* The inductive invariant.
EInv == IInv /\ TomlsAreTrees /\ EntryIsPicked

\* A configuration is transformed into one.
LEMMA ContentsClosed ==
  ASSUME NEW c \in Contents, Transformable(c)
  PROVE  Transform(c, ClassDir) \in Contents
<1>1. CASE c \in Configs
      BY <1>1 DEF Contents, Rewrites
<1>2. CASE c \in Rewrites(Configs)
      BY <1>2 DEF Contents, Rewrites
<1>3. CASE c \in Rewrites(Rewrites(Configs))
  <2>1. PICK t \in Configs : Transformable(t) /\ c = Transform(Transform(t, ClassDir), ClassDir)
        BY <1>3 DEF Rewrites
  <2>2. Transform(c, ClassDir) = c
        BY <2>1, TransformSettles
  <2> QED
        BY <2>2
<1> QED
      BY <1>1, <1>2, <1>3 DEF Contents

\* It holds at first.
LEMMA InitEntry == Init => EInv
BY InitInv DEF EInv, Init, TomlsAreTrees, EntryIsPicked, TomlNames

\* Every step keeps it.
LEMMA NextEntry == EInv /\ [Next]_vars => EInv'
<1> SUFFICES ASSUME EInv, [Next]_vars PROVE EInv'
    OBVIOUS
<1>1. IInv /\ IInv' /\ TomlsAreTrees /\ EntryIsPicked
      BY NextInv DEF EInv
<1>2. TomlNames \subseteq DOMAIN dir
      BY <1>1 DEF IInv, TypeOK, TomlNames
<1> SUFFICES TomlsAreTrees' /\ EntryIsPicked'
    BY <1>1 DEF EInv
<1> USE DEF TomlsAreTrees, EntryIsPicked
<1>3. CASE Pull
      BY <1>1, <1>3 DEF Pull
<1>4. ASSUME NEW n \in FileNames, OpenFile(n) PROVE TomlsAreTrees' /\ EntryIsPicked'
      BY <1>1, <1>2, <1>4 DEF OpenFile
<1>5. ASSUME NEW n \in FileNames, WriteFile(n) PROVE TomlsAreTrees' /\ EntryIsPicked'
  <2>1. n \in DOMAIN pulling /\ pulling \in Published
        BY <1>1, <1>5 DEF WriteFile, IInv, PulledSoFar, TypeOK
  <2>2. n \in TomlNames => pulling[n] \in Contents
        BY <2>1 DEF Contents, Configs
  <2> HIDE DEF Contents
  <2> QED
        BY <1>1, <1>2, <1>5, <2>2 DEF WriteFile
<1>6. CASE Pulled
      BY <1>1, <1>6 DEF Pulled
<1>7. CASE OpenKataConfig
  <2>1. Chosen \in TomlNames /\ dir[Chosen] \notin {NoFile, Torn}
        BY <1>7, ChosenIsThere DEF OpenKataConfig
  <2> DEFINE c == Chosen
  <2>2. /\ pc = "pick" /\ pc' = "rewrite" /\ picked' = c /\ config' = dir[c]
        /\ dir' = [dir EXCEPT ![c] = Torn] /\ UNCHANGED <<entry, abandoned>>
        BY <1>7 DEF OpenKataConfig
  <2>3. c \in TomlNames /\ dir[c] \notin {NoFile, Torn}
        BY <2>1
  <2> HIDE DEF c, Contents
  <2> QED
        BY <1>1, <1>2, <2>2, <2>3
<1>8. CASE Rewrite
  <2>1. Transform(config, ClassDir) \in Contents
        BY <1>1, <1>8, ContentsClosed DEF Rewrite, IInv, OnlyPicked
  <2> HIDE DEF Contents
  <2> QED
        BY <1>1, <1>2, <1>8, <2>1 DEF Rewrite
<1>9. CASE AddEntry
      BY <1>1, <1>9 DEF AddEntry
<1>10. CASE NoKataConfig \/ CleanUp \/ Die
       BY <1>1, <1>10 DEF NoKataConfig, CleanUp, Die, Ends
<1>11. CASE Publish \/ UNCHANGED vars
       BY <1>1, <1>11 DEF Publish, vars, worker
<1> QED
      BY <1>3, <1>4, <1>5, <1>6, <1>7, <1>8, <1>9, <1>10, <1>11 DEF Next, Work

\* What containerd hands to pods is whole and transformed while a worker waits, and
\* there is none without one, unless a worker ended without its CleanUp (main.go:290,
\* 438).
THEOREM EntryIsUsable == Spec => []EntryUsable
<1>1. EInv => EntryUsable
  <2> SUFFICES ASSUME EInv, entry # NoFile, ~abandoned
               PROVE  /\ pc = "wait" /\ IsTree(dir[entry])
                      /\ \A p \in Assets(dir[entry]) : IsPrefix(ClassDir, dir[entry][p])
      BY DEF EntryUsable
  <2>1. /\ pc = "wait" /\ entry = picked
        /\ Transformable(config) /\ dir[picked] = Transform(config, ClassDir)
        /\ config \in Contents
        BY DEF EInv, IInv, EntryIsPicked, OnlyPicked, TomlsAreTrees
  <2>2. IsTree(dir[entry])
        BY <2>1, ContentsClosed, NoContents DEF Contents, IsTree
  <2> QED
        BY <2>1, <2>2, TransformSettles
<1> QED
      BY <1>1, InitEntry, NextEntry, PTL DEF Spec

=============================================================================
