----------------------------- MODULE MCCdiSpec ------------------------------
(* GPUs for TLC: groups that are the index of a GPU or not, shared or not. *)
EXTENDS CdiSpec

MCGpus ==
  {[driver |-> "nvidia", group |-> 7, fd |-> NoFd]}
    \union [driver : {VfioDriver}, group : {1, 7, 8}, fd : {NoFd, 0, 1}]
=============================================================================
