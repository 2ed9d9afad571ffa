--------------------------- MODULE KataTransform ----------------------------
(***************************************************************************)
(* The transform of internal/kata/transform: the paths of the assets of a  *)
(* kata configuration are made to point into the directory the artifact    *)
(* was pulled to.  A file path, which is a value in the tree, is the       *)
(* sequence of its elements, and << >> the empty string.                   *)
(***************************************************************************)
EXTENDS TomlTree

AssetKeys == {"kernel", "image", "initrd"}

\* The assets of every hypervisor that are there: GetPath gives no nil.
Assets(tree) ==
  {p \in DOMAIN tree : Len(p) = 3 /\ p[1] = "hypervisor" /\ p[3] \in AssetKeys}

\* value.(string) panics on any other type.
Transformable(tree) == \A p \in Assets(tree) : tree[p] \in Seq(STRING)

\* filepath.Base: "." for the empty path.
Base(file) == IF file = << >> THEN "." ELSE Last(file)

\* filepath.Join with one more element, which "." is not.
Join(dir, name) == IF name = "." THEN dir ELSE Append(dir, name)

\* Mutant: the whole path is kept below the root.
Nested(tree, root) ==
  [p \in DOMAIN tree |-> IF p \in Assets(tree) THEN root \o tree[p] ELSE tree[p]]

Transform(tree, root) ==
  [p \in DOMAIN tree |->
     IF p \in Assets(tree) THEN Join(root, Base(tree[p])) ELSE tree[p]]

=============================================================================
