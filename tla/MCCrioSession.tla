--------------------------- MODULE MCCrioSession ----------------------------
(* CrioSession for TLC: the files of the administrator and CRI-O's default. *)
EXTENDS CrioSession, TLC

\* The tree that holds these values.
TreeOf(leaves) ==
  [p \in DOMAIN leaves \union UNION {Ancestors(p) : p \in DOMAIN leaves} \union {Root} |->
     IF p \in DOMAIN leaves THEN leaves[p] ELSE Table]

\* A CRI-O whose own default is runc.
Runc == TreeOf(DefaultPath :> "runc" @@ Entry("runc", "runtime_root") :> "/run/runc")

\* crun, which the entries are copied from when it is there; the default is a class
\* made by hand.
Crun == TreeOf(DefaultPath :> "b" @@ Entry("b", "runtime_path") :> "/opt/kata"
               @@ Entry("crun", "runtime_path") :> "/usr/bin/crun"
               @@ Entry("crun", "monitor_path") :> "/usr/bin/conmon")

\* One of the classes, made by hand; the default is a runtime of his own.
ByHand == TreeOf(DefaultPath :> "mine" @@ Entry("mine", "monitor_cgroup") :> "pod"
                 @@ Entry("a", "runtime_config_path") :> "/etc/a.toml")

Files == {Crun, ByHand}

=============================================================================
