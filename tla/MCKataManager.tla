--------------------------- MODULE MCKataManager ----------------------------
(* KataManager for TLC: the files and config maps a node can start with.   *)
EXTENDS KataManager, TLC

\* The tree that holds these values.
TreeOf(leaves) ==
  [p \in DOMAIN leaves \union UNION {Ancestors(p) : p \in DOMAIN leaves} \union {Root} |->
     IF p \in DOMAIN leaves THEN leaves[p] ELSE Table]

VersionOnly == TreeOf(VersionPath :> "2")

\* A runtime of the administrator's own, and the default.
Runc == TreeOf(VersionPath :> "2" @@ DefaultPath :> "runc"
               @@ Append(RuntimePath("runc"), "runtime_type") :> "io.containerd.runc.v2")

\* What a worker that died has left, and the administrator made the default.
Left == TreeOf(DefaultPath :> "a" @@ TypePath("a") :> RuntimeType @@ ConfigPath("a") :> "a")

Files == {NoFile, VersionOnly, Runc, Left}

OneFile   == {Runc}
TwoFiles  == {Runc, Left}

Entry(n) == [name |-> n, url |-> "registry/" \o n]

OneClass  == {<<Entry("a")>>}
TwoOfThem == {<<Entry("b"), [name |-> "", url |-> "x"], Entry("a")>>}
SomeMaps  == {<<Entry("a"), [name |-> "", url |-> "x"]>>, <<Entry("b"), Entry("a")>>, << >>}

\* Processes that do the same, and inodes, are interchangeable.
Symmetry == Permutations(Workers) \union Permutations(Inodes)

DebugEdit == {[path |-> <<"debug">>, value |-> "true"]}

\* One edit is of the entry of a class.
SomeEdits == DebugEdit \union {[path |-> TypePath("b"), value |-> "io.containerd.other.v2"]}

=============================================================================
