----------------------------- MODULE MCPidFile ------------------------------
(* PidFile for TLC: processes and inodes are interchangeable.              *)
EXTENDS PidFile, TLC

Symmetry == Permutations(Workers) \union Permutations(Inodes)

=============================================================================
