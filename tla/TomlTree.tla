------------------------------ MODULE TomlTree ------------------------------
(***************************************************************************)
(* The trees of github.com/pelletier/go-toml v1, the library in which both *)
(* runtime back ends edit their configuration.                             *)
(*                                                                         *)
(* A tree is a function from the paths present in it to what is there: a   *)
(* value, or the marker Table.  A path is a sequence of keys and the root  *)
(* <<>> is always present and a table.  Writing a tree out and parsing it  *)
(* again gives the same function: the writer emits a header for every      *)
(* table, an empty one included, so an empty table survives the round trip *)
(* and only the tree with no key at all is written as zero bytes.          *)
(*                                                                         *)
(* Arrays of tables are left out: no path the program uses crosses one.    *)
(***************************************************************************)
EXTENDS Naturals, Sequences, SequencesExt

CONSTANTS
  Table,   \* what is stored at the path of a table
  Absent   \* what GetPath answers for a path that is not there (Go's nil)

ASSUME MarkersDiffer == Table # Absent

Key == STRING

Root == << >>

EmptyTree == [p \in {Root} |-> Table]

GetPath(tree, path) == IF path \in DOMAIN tree THEN tree[path] ELSE Absent

IsTable(tree, path) == GetPath(tree, path) = Table

\* The entries directly below a table.
Keys(tree, path) == {p \in DOMAIN tree : p # Root /\ Front(p) = path}

\* The proper prefixes of a path: the tables it needs.
Ancestors(path) == {SubSeq(path, 1, n) : n \in 0 .. Len(path) - 1}

\* Mutant: the tables on the way are not created.
SetPathBare(tree, path, value) ==
  LET kept == {p \in DOMAIN tree : ~IsPrefix(path, p)}
  IN  [p \in kept \union {path} |-> IF p = path THEN value ELSE tree[p]]

\* SetPath with a plain value: the missing tables on the way are created, and
\* a table that stood at the path is replaced with all it held.
SetPath(tree, path, value) ==
  LET kept == {p \in DOMAIN tree : ~IsPrefix(path, p)}
  IN  [p \in kept \union Ancestors(path) \union {path} |->
         IF p = path THEN value
         ELSE IF p \in kept THEN tree[p] ELSE Table]

\* DeletePath fails when the parent is not a table; deleting a key that is not
\* there is no error.
CanDelete(tree, path) == IsTable(tree, Front(path))

DeletePath(tree, path) == [p \in {q \in DOMAIN tree : ~IsPrefix(path, q)} |-> tree[p]]

\* SetPath with a table: what was at and below the path goes, and a copy of the
\* table at another path, with all it holds, takes its place.
CopyTable(tree, from, to) ==
  LET kept    == {p \in DOMAIN tree : ~IsPrefix(to, p)}
      below   == {q \in DOMAIN tree : IsPrefix(from, q)}
      rest(p, top) == SubSeq(p, Len(top) + 1, Len(p))
  IN  [p \in kept \union Ancestors(to) \union {to \o rest(q, from) : q \in below} |->
         IF IsPrefix(to, p) THEN tree[from \o rest(p, to)]
         ELSE IF p \in kept THEN tree[p] ELSE Table]

-----------------------------------------------------------------------------

\* The paths that hold a value.
Leaves(tree) == {p \in DOMAIN tree : tree[p] # Table}

\* A tree the parser can produce: every path has its parents, as tables,
\* and an entry is either there or not.
WellFormed(tree) ==
  /\ DOMAIN tree \subseteq Seq(Key)
  /\ Root \in DOMAIN tree /\ tree[Root] = Table
  /\ \A p \in DOMAIN tree : \A a \in Ancestors(p) : a \in DOMAIN tree /\ tree[a] = Table
  /\ \A p \in DOMAIN tree : tree[p] # Absent

=============================================================================
