---------------------------- MODULE MCArtifacts -----------------------------
(* Artifacts for TLC: what a URL can lead to, one after another.           *)
EXTENDS Artifacts, TLC

Qemu(key) == <<"hypervisor", "qemu", key>>

Config(kernel, rest) ==
  (Root :> Table) @@ (<<"hypervisor">> :> Table) @@ (<<"hypervisor", "qemu">> :> Table)
    @@ (Qemu("kernel") :> kernel) @@ (Qemu("path") :> <<"opt", "qemu">>) @@ rest

\* Two artifacts that share names, one that renames its configuration, one without
\* a configuration, and one whose kernel is no string.
V1 == ("a.toml" :> Config(<<"opt", "kata", "vmlinuz">>, Qemu("initrd") :> <<"opt", "initrd">>))
        @@ ("vmlinuz" :> "1") @@ ("initrd" :> "1")
V2 == ("a.toml" :> Config(<<"usr", "vmlinuz">>, Qemu("image") :> << >>)) @@ ("vmlinuz" :> "2")
V3 == ("b.toml" :> Config(<<"vmlinuz">>, << >>)) @@ ("vmlinuz" :> "3")
Bare == "vmlinuz" :> "4"
Bad  == ("a.toml" :> Config(Torn, << >>))

MCPublished == {V1, V2, V3, Bare, Bad}
MCTomls  == <<"a.toml", "b.toml">>
MCClassDir == <<"artifacts", "class">>
=============================================================================
