----------------------------- MODULE CrioConfig -----------------------------
(***************************************************************************)
(* internal/runtime/crio: what AddRuntime, RemoveRuntime and DefaultRuntime *)
(* of its Config compute on the tree CRI-O reports.  It differs from the   *)
(* containerd back end in what an entry is made from (a copy of another    *)
(* one), in the order of a removal, and in that nothing of the file is     *)
(* taken away with the last entry but the tables that are left empty.      *)
(***************************************************************************)
EXTENDS TomlTree

CONSTANT Names   \* the runtime class names that can be configured

DefaultCrioRuntime == "crun"
RuntimeType        == "vm"

RuntimesPath   == <<"crio", "runtime", "runtimes">>
DefaultPath    == <<"crio", "runtime", "default_runtime">>
RuntimePath(n) == Append(RuntimesPath, n)
Entry(n, key)  == Append(RuntimePath(n), key)

ASSUME KeysAreStrings ==
  Names \union {DefaultCrioRuntime, "crio", "runtime", "runtimes", "default_runtime",
                "runtime_path", "runtime_type", "privileged_without_host_devices"} \subseteq Key

\* A name or a value that is written is not one of the markers of TomlTree.
ASSUME ValuesAreNoMarkers == {Table, Absent} \intersect (Names \union {RuntimeType, "true"}) = {}

-----------------------------------------------------------------------------

DefaultRuntime(tree) == GetPath(tree, DefaultPath)

\* The runtimes whose options an entry is copied from: the first of crun and the
\* default that is there.
Sources(tree) ==
  LET there == {r \in {DefaultCrioRuntime, DefaultRuntime(tree)} : IsTable(tree, RuntimePath(r))}
  IN  IF DefaultCrioRuntime \in there THEN {DefaultCrioRuntime} ELSE there

\* Mutant: an entry that is there keeps its options.
AddRuntimeOnce(tree, n, path, setAsDefault) ==
  LET copied == IF IsTable(tree, RuntimePath(n)) \/ Sources(tree) = {} THEN tree
                ELSE CopyTable(tree, RuntimePath(CHOOSE r \in Sources(tree) : TRUE), RuntimePath(n))
      typed  == SetPath(SetPath(SetPath(copied, Entry(n, "runtime_path"), path),
                                Entry(n, "runtime_type"), RuntimeType),
                        Entry(n, "privileged_without_host_devices"), "true")
  IN  IF setAsDefault THEN SetPath(typed, DefaultPath, n) ELSE typed

\* Mutant: the options are taken from the source after it has been given the path,
\* as if the copy were the source itself.
AddRuntimeShared(tree, n, path, setAsDefault) ==
  LET marked == IF Sources(tree) = {} THEN tree
                ELSE LET r == CHOOSE r \in Sources(tree) : TRUE
                     IN  CopyTable(SetPath(tree, Entry(r, "runtime_path"), path),
                                   RuntimePath(r), RuntimePath(n))
      typed  == SetPath(SetPath(SetPath(marked, Entry(n, "runtime_path"), path),
                                Entry(n, "runtime_type"), RuntimeType),
                        Entry(n, "privileged_without_host_devices"), "true")
  IN  IF setAsDefault THEN SetPath(typed, DefaultPath, n) ELSE typed

\* AddRuntime.  Whatever the entry was, it becomes a copy of its source, if there
\* is one, with the path, the type and the privileged flag of kata.
AddRuntime(tree, n, path, setAsDefault) ==
  LET copied == IF Sources(tree) = {} THEN tree
                ELSE CopyTable(tree, RuntimePath(CHOOSE r \in Sources(tree) : TRUE), RuntimePath(n))
      typed  == SetPath(SetPath(SetPath(copied, Entry(n, "runtime_path"), path),
                                Entry(n, "runtime_type"), RuntimeType),
                        Entry(n, "privileged_without_host_devices"), "true")
  IN  IF setAsDefault THEN SetPath(typed, DefaultPath, n) ELSE typed

-----------------------------------------------------------------------------

\* The default goes first, and is gone also when the removal then fails.
DropDefault(tree, n) ==
  IF DefaultRuntime(tree) = n THEN DeletePath(tree, DefaultPath) ELSE tree

CanRemove(tree, n) == CanDelete(tree, RuntimePath(n))

Prune(tree, path) ==
  IF IsTable(tree, path) /\ Keys(tree, path) = {} THEN DeletePath(tree, path) ELSE tree

\* The loop upwards.  (It ends at the first table that is not empty; those above
\* hold that one and are not empty either.)
PruneUpwards(tree) ==
  Prune(Prune(Prune(tree, RuntimesPath), SubSeq(RuntimesPath, 1, 2)), SubSeq(RuntimesPath, 1, 1))

\* Mutant: the default that names the entry stays.
RemoveEntryOnly(tree, n) == PruneUpwards(DeletePath(tree, RuntimePath(n)))

\* Mutant: the table of all runtimes is deleted.
RemoveRuntimes(tree, n) == PruneUpwards(DeletePath(DropDefault(tree, n), RuntimesPath))

RemoveRuntime(tree, n) == PruneUpwards(DeletePath(DropDefault(tree, n), RuntimePath(n)))

-----------------------------------------------------------------------------

\* The values that are the administrator's: all but the entry of a class and a
\* default that names one.
Managed(tree, p) ==
  \/ \E n \in Names : IsPrefix(RuntimePath(n), p)
  \/ p = DefaultPath /\ tree[p] \in Names

UserConfig(tree) ==
  [p \in {q \in Leaves(tree) : ~Managed(tree, q)} |-> tree[p]]

RuntimesOf(tree) == {n \in Names : GetPath(tree, RuntimePath(n)) # Absent}

\* The trees the operations are meant for: what they hold on the way to an entry,
\* and the entries themselves, are tables, and the default is a value.
Editable(tree) ==
  /\ WellFormed(tree)
  /\ \A n \in Names \union {DefaultCrioRuntime} :
       \A a \in Ancestors(RuntimePath(n)) \union {RuntimePath(n)} : GetPath(tree, a) \in {Table, Absent}
  /\ ~IsTable(tree, DefaultPath)

\* The default is a runtime that is there.
DefaultThere(tree) ==
  DefaultRuntime(tree) # Absent => IsTable(tree, RuntimePath(DefaultRuntime(tree)))

=============================================================================
