------------------------ MODULE MCContainerdSession -------------------------
(* ContainerdSession for TLC: the files a session can start with.          *)
EXTENDS ContainerdSession, TLC

\* The tree that holds these values.
TreeOf(leaves) ==
  [p \in DOMAIN leaves \union UNION {Ancestors(p) : p \in DOMAIN leaves} \union {Root} |->
     IF p \in DOMAIN leaves THEN leaves[p] ELSE Table]

VersionOnly == TreeOf(VersionPath :> "2")

\* A runtime of the administrator's own, made the default.
Runc == TreeOf(VersionPath :> "2" @@ DefaultPath :> "runc"
               @@ Append(RuntimePath("runc"), "runtime_type") :> "io.containerd.runc.v2")

\* Another plugin, no runtimes, and an empty table.
Debug == TreeOf(VersionPath :> "2" @@ <<"debug", "level">> :> "info"
                @@ <<"plugins", "other", "key">> :> "1"
                @@ SubSeq(RuntimesPath, 1, 2) :> Table)

\* An entry for one of the classes, made by hand and without a kata configuration.
ByHand == TreeOf(Append(RuntimePath("a"), "runtime_type") :> "io.containerd.other.v2"
                 @@ Append(RuntimePath("a"), "snapshotter") :> "overlayfs")

Files == {NoFile, VersionOnly, Runc, Debug, ByHand}

=============================================================================
