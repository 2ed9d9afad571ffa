--------------------------- MODULE MCArtifactRef ----------------------------
(* ArtifactRef for TLC: three registries, one with a port, and one whose   *)
(* entry is written by docker login.                                       *)
EXTENDS ArtifactRef

WithPort == <<"n", ":", "n">>
MCStored == (<<"n">> :> "password") @@ (WithPort :> "password") @@ (<<"n", "n">> :> "auth")
=============================================================================
