----------------------------- MODULE MCStartup ------------------------------
(* Startup for TLC: config maps that differ in the directory, in the       *)
(* classes and in the entries that are not valid.                          *)
EXTENDS Startup

Class(n) == [name |-> n, url |-> "registry/artifact:tag"]
NoUrl(n) == [name |-> n, url |-> ""]

MCConfigMaps == {
  NoConfig,
  [artifactsDir |-> Unset, runtimeClasses |-> <<Class("a"), Class("b")>>],
  [artifactsDir |-> "other", runtimeClasses |-> <<NoUrl("b"), Class("b"), Class(""), Class("a")>>],
  [artifactsDir |-> "other", runtimeClasses |-> <<Class("a"), NoUrl(""), Class("a")>>],
  [artifactsDir |-> "missing", runtimeClasses |-> <<Class("a")>>]}

\* Pods, and files, are interchangeable.
Symmetry == Permutations(Pods) \union Permutations(Files)
=============================================================================
