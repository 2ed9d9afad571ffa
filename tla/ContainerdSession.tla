-------------------------- MODULE ContainerdSession -------------------------
(***************************************************************************)
(* A client of internal/runtime/containerd: any sequence of Setup,         *)
(* AddRuntime, RemoveRuntime and Save, over any number of Configs, one at  *)
(* a time, on one file.  The worker uses a few of these sequences, and     *)
(* never setAsDefault; the interface runtime.Runtime allows them all.      *)
(***************************************************************************)
EXTENDS ContainerdConfig

CONSTANTS
  KataConfigs,  \* paths of kata configurations
  NoTree,
  InitFiles

ASSUME NoTreeIsNone == NoTree \notin InitFiles /\ NoTree # NoFile
ASSUME PathsAreValues == {Table, Absent} \intersect KataConfigs = {}

\* The parser made the tree, calls can be made on it, and containerd can start with
\* it: a default that names one of the runtimes names one that is there, and every
\* runtime has a type.  One that points to a kata configuration has its annotations,
\* as AddRuntime makes it.
Startable(t) ==
  /\ Editable(t)
  /\ DefaultRuntime(t) \in Names => DefaultRuntime(t) \in RuntimesOf(t)
  /\ \A n \in RuntimesOf(t) :
       /\ GetPath(t, TypePath(n)) # Absent
       /\ GetPath(t, ConfigPath(n)) \in KataConfigs =>
            GetPath(t, Append(RuntimePath(n), "pod_annotations")) = PodAnnotations

ASSUME FilesAreSound == \A f \in InitFiles \ {NoFile} : Startable(f)

VARIABLES
  tree,     \* the tree of the Config, or NoTree
  file,
  original, \* history: the file as it was at first
  replaced  \* history: which of "tree" and "file" setAsDefault has given a default

vars == <<tree, file, original, replaced>>

Both(b) == IF b THEN {"tree", "file"} ELSE {}

Init == tree = NoTree /\ file \in InitFiles /\ original = file /\ replaced = {}

\* containerd.Setup.
Setup ==
  /\ tree' = Content(file)
  /\ replaced' = Both("file" \in replaced)
  /\ UNCHANGED <<file, original>>

Add(n, path, setAsDefault) ==
  /\ tree # NoTree
  /\ tree' = AddRuntime(tree, n, path, setAsDefault)
  /\ replaced' = IF setAsDefault THEN replaced \union {"tree"} ELSE replaced
  /\ UNCHANGED <<file, original>>

\* When RemoveRuntime fails it leaves the tree alone.
Drop(n) ==
  /\ tree # NoTree
  /\ CanRemove(tree, n)
  /\ tree' = RemoveRuntime(tree, n)
  /\ UNCHANGED <<file, original, replaced>>

\* Removing the file fails when there is none.
Save ==
  /\ tree # NoTree
  /\ ~(RendersEmpty(tree) /\ file = NoFile)
  /\ file' = IF RendersEmpty(tree) THEN NoFile ELSE tree
  /\ replaced' = Both("tree" \in replaced)
  /\ UNCHANGED <<tree, original>>

Next ==
  \/ Setup
  \/ \E n \in Names, path \in KataConfigs, d \in BOOLEAN : Add(n, path, d)
  \/ \E n \in Names : Drop(n)
  \/ Save

Spec == Init /\ [][Next]_vars

-----------------------------------------------------------------------------
(* Properties.                                                             *)

Trees == {tree, file} \ {NoTree, NoFile}

\* Whatever containerd could start with it still can after any sequence of calls:
\* RemoveRuntime leaves no default_runtime_name that names a runtime it removed
\* (containerd.go:114-120), and AddRuntime makes an entry that can be used, also of
\* one that was there before kata-manager was (containerd.go:62-93).
StaysStartable == \A t \in Trees : Startable(t)

\* What the administrator had is in t, but for a default that was replaced.
Keeping(t, defaulted) ==
  \A p \in UserLeaves(Content(original)) :
    GetPath(t, p) = Content(original)[p] \/ (p = DefaultPath /\ defaulted)

\* No sequence of calls changes a value of the administrator's: not that of
\* another runtime, of another plugin, nor a default that is his, unless a client
\* that asked for setAsDefault made that very tree, or saved it in that file
\* (containerd.go:57-139).  Of a file that Save has removed he had nothing.
UserKept ==
  /\ tree # NoTree => Keeping(tree, "tree" \in replaced)
  /\ Keeping(Content(file), "file" \in replaced)

\* What an administrator's file is without anything of kata's: what is foreign
\* to the chain of tables of the runtimes, the tables that needs, and the version
\* if that is not all there is.
Stripped(t) ==
  LET foreign == {p \in DOMAIN t \ (Chain \union {Root, VersionPath}) : ~Managed(t, p)}
      version == IF foreign = {} THEN {} ELSE {VersionPath} \intersect DOMAIN t
  IN  [p \in {Root} \union version \union foreign \union UNION {Ancestors(q) : q \in foreign} |->
         t[p]]

\* Once the last of the runtimes is removed, in whatever order and however often
\* they were added, the tree is what it was before the first one was, cleared of
\* empty tables: RemoveRuntime is the inverse of AddRuntime, but for a default of
\* the administrator's that setAsDefault has replaced.
Reverted ==
  LET before == Content(original)
  IN  \A t \in Trees : RuntimesOf(t) = {} =>
        t \in {before, Stripped(before), Stripped(DeletePath(before, DefaultPath))}

\* What a client sees of a tree: its runtimes with their paths, and the default.
View(t) ==
  [paths   |-> [n \in RuntimesOf(t) |-> GetPath(t, ConfigPath(n))],
   default |-> {DefaultRuntime(t)} \intersect Names]

\* The calls are those of the interface: one changes the runtime it is given and no
\* other one of kata's, and the next client is given what Save was called on, whatever
\* tables, version or file go and come with the runtimes (containerd.go:42-176).
Interface == INSTANCE RuntimeInterface WITH
  client  <- IF tree = NoTree THEN {} ELSE {View(tree)},
  saved   <- {View(file)},
  source  <- {View(file)},
  saving  <- "no",
  Written <- {View(f) : f \in InitFiles}

ImplementsInterface == Interface!Spec

-----------------------------------------------------------------------------
(* The loop of RemoveRuntime as it is written, to compare with.            *)

Prune(t, path) == IF IsTable(t, path) /\ Keys(t, path) = {} THEN DeletePath(t, path) ELSE t

DropDefault(t, n) == IF DefaultRuntime(t) = n THEN DeletePath(t, DefaultPath) ELSE t

PruneUpwards(t) ==
  Prune(Prune(Prune(Prune(t, SubSeq(RuntimesPath, 1, 4)), SubSeq(RuntimesPath, 1, 3)),
              SubSeq(RuntimesPath, 1, 2)), SubSeq(RuntimesPath, 1, 1))

DropVersion(t) == IF Keys(t, Root) = {VersionPath} THEN DeletePath(t, VersionPath) ELSE t

\* The four tables deleted one after the other, from the lowest, are the tables
\* RemoveRuntime is said to leave out (containerd.go:122-137).
RemovalIsTheLoop ==
  \A t \in Trees : \A n \in Names :
    CanRemove(t, n) =>
      RemoveRuntime(t, n) = DropVersion(PruneUpwards(DropDefault(DeletePath(t, RuntimePath(n)), n)))

=============================================================================
