-------------------------- MODULE ContainerdConfig --------------------------
(***************************************************************************)
(* internal/runtime/containerd: what AddRuntime, RemoveRuntime and the     *)
(* other methods of Config compute on the tree of /etc/containerd/         *)
(* config.toml.  The operators are pure; the state they act on (the tree   *)
(* held by a Config, the file) belongs to the modules that use them.       *)
(***************************************************************************)
EXTENDS TomlTree

CONSTANT Names   \* the runtime class names that can be configured

\* The options getRuntimeConfig hands to containerd.Setup.
RuntimeType    == "io.containerd.kata.v2"
PodAnnotations == "io.katacontainers.*"

\* "plugins" / "io.containerd.grpc.v1.cri" / "containerd" / "runtimes".
RuntimesPath    == <<"plugins", "cri", "containerd", "runtimes">>
DefaultPath     == <<"plugins", "cri", "containerd", "default_runtime_name">>
RuntimePath(n)  == Append(RuntimesPath, n)
VersionPath     == <<"version">>
ConfigPath(n)   == RuntimePath(n) \o <<"options", "ConfigPath">>
TypePath(n)     == Append(RuntimePath(n), "runtime_type")

\* Keys are strings (which the provers do not know of a literal), and neither a
\* name nor a value that is written is one of the markers of TomlTree.
ASSUME KeysAreStrings ==
  Names \union {"plugins", "cri", "containerd", "runtimes", "default_runtime_name", "version",
                "runtime_type", "privileged_without_host_devices", "pod_annotations",
                "options", "ConfigPath"} \subseteq Key
ASSUME ValuesAreNoMarkers ==
  {Table, Absent} \intersect (Names \union {RuntimeType, PodAnnotations, "true"}) = {}

-----------------------------------------------------------------------------

\* Mutant: of an entry that is there only the path is set.
AddRuntimePathOnly(tree, n, path, setAsDefault) ==
  IF GetPath(tree, RuntimePath(n)) = Absent
  THEN SetPath(SetPath(SetPath(tree, Append(RuntimePath(n), "runtime_type"), RuntimeType),
                       Append(RuntimePath(n), "pod_annotations"), PodAnnotations),
               ConfigPath(n), path)
  ELSE SetPath(tree, ConfigPath(n), path)

\* AddRuntime.  The type and the privileged flag are written only for a runtime
\* that was not there; the annotations and the path of the kata configuration
\* always are.  (An entry that was there is printed and parsed back, which
\* leaves its keys and values as they were.)
AddRuntime(tree, n, path, setAsDefault) ==
  LET at(key)    == Append(RuntimePath(n), key)
      fresh      == IF GetPath(tree, RuntimePath(n)) = Absent
                    THEN SetPath(SetPath(tree, at("runtime_type"), RuntimeType),
                                 at("privileged_without_host_devices"), "true")
                    ELSE tree
      configured == SetPath(SetPath(fresh, at("pod_annotations"), PodAnnotations),
                            ConfigPath(n), path)
  IN  IF setAsDefault THEN SetPath(configured, DefaultPath, n) ELSE configured

DefaultRuntime(tree) == GetPath(tree, DefaultPath)

-----------------------------------------------------------------------------

\* RemoveRuntime returns DeletePath's error, before it has changed anything,
\* when the table of runtimes is not there.
CanRemove(tree, n) == CanDelete(tree, RuntimePath(n))

\* Where the tables left empty are looked for.
Chain == {SubSeq(RuntimesPath, 1, i) : i \in 1 .. Len(RuntimesPath)}

\* Mutant: the options of the entry are deleted, the entry is not.
RemoveOptions(tree, n) == DeletePath(tree, RuntimePath(n) \o <<"options">>)

\* Mutant: the table of all runtimes is deleted.
RemoveRuntimes(tree, n) == DeletePath(tree, RuntimesPath)

\* Mutant: the default that names the entry stays.
RemoveEntryOnly(tree, n) == DeletePath(tree, RuntimePath(n))

\* Mutant: the default is deleted with any entry, not only with the one it names.
RemoveAnyDefault(tree, n) == DeletePath(DeletePath(tree, RuntimePath(n)), DefaultPath)

\* Mutant: tables that are left empty stay, and so does the version.
RemoveWithoutPruning(tree, n) ==
  LET t == DeletePath(tree, RuntimePath(n))
  IN  IF DefaultRuntime(t) = n THEN DeletePath(t, DefaultPath) ELSE t

\* Mutant: the loop upwards ends one table too early.
RemoveUpToPlugins(tree, n) ==
  LET entry  == {p \in DOMAIN tree : IsPrefix(RuntimePath(n), p)}
      named  == IF DefaultRuntime(tree) = n THEN {DefaultPath} ELSE {}
      left   == DOMAIN tree \ (entry \union named)
      hollow == {p \in left \intersect (Chain \ {<<"plugins">>}) :
                   \A q \in left : IsPrefix(p, q) => q \in Chain}
  IN  [p \in left \ hollow |-> tree[p]]

\* The entry goes with all that is below it, the default if it is the entry, then
\* every table of the chain that has nothing but tables of the chain left in it
\* (the loop goes upwards, so a table goes when the last one in it has), and at
\* last the version, if nothing else is left.
RemoveRuntime(tree, n) ==
  LET entry  == {p \in DOMAIN tree : IsPrefix(RuntimePath(n), p)}
      named  == IF DefaultRuntime(tree) = n THEN {DefaultPath} ELSE {}
      left   == DOMAIN tree \ (entry \union named)
      hollow == {p \in left \intersect Chain : \A q \in left : IsPrefix(p, q) => q \in Chain}
      rest   == left \ hollow
  IN  [p \in (IF rest = {Root, VersionPath} THEN {Root} ELSE rest) |-> tree[p]]

-----------------------------------------------------------------------------

\* What is at the path of the configuration: a tree, or nothing, which is not even
\* a root.  loadConfig reads a missing file as an empty one.
NoFile == << >>

Content(f) == IF f = NoFile THEN EmptyTree ELSE f

\* Save removes the file instead of writing zero bytes.
RendersEmpty(tree) == Keys(tree, Root) = {}

-----------------------------------------------------------------------------

\* The runtimes a tree configures.
RuntimesOf(tree) == {n \in Names : GetPath(tree, RuntimePath(n)) # Absent}

\* Are they those AddRuntime makes?
EntriesTyped(tree) == \A n \in RuntimesOf(tree) : GetPath(tree, TypePath(n)) = RuntimeType

\* The values that are the administrator's: not the entry of a managed runtime,
\* not a default that names one, and not the version line, which goes with the
\* last entry of the file.
Managed(tree, p) ==
  \/ \E n \in Names : IsPrefix(RuntimePath(n), p)
  \/ p = DefaultPath /\ tree[p] \in Names
  \/ p = VersionPath

UserLeaves(tree) == {p \in Leaves(tree) : ~Managed(tree, p)}

UserConfig(tree) == [p \in UserLeaves(tree) |-> tree[p]]

\* The trees the operations are meant for: the parser made them, what they hold
\* on the way to a managed entry are tables, and the version is a value.  (Where
\* a value stands in for a table, go-toml's SetPath writes beside it.)
Editable(tree) ==
  /\ WellFormed(tree)
  /\ \A n \in Names : \A a \in Ancestors(ConfigPath(n)) : GetPath(tree, a) \in {Table, Absent}
  /\ ~IsTable(tree, VersionPath)
  /\ ~IsTable(tree, DefaultPath)

=============================================================================
