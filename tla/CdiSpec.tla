------------------------------ MODULE CdiSpec -------------------------------
(***************************************************************************)
(* generateCDISpec() of cmd/k8s-kata-manager/main.go, with internal/cdi:   *)
(* every start of a worker lists the GPUs of the node, makes entries of    *)
(* those bound to vfio-pci and replaces the CDI specification on disk.     *)
(* The GPUs are bound to other drivers, and back, meanwhile.               *)
(*                                                                         *)
(* A name is <<"", number>> for an index or an IOMMU group, <<"vfio", n>>  *)
(* for an IOMMUFD device; a node is a directory and a name in it.          *)
(***************************************************************************)
EXTENDS Integers, Sequences

CONSTANTS
  Gpus,        \* what a GPU can be: [driver, group, fd]
  MaxGpus,     \* bound of the model: GPUs on the node
  MaxRebinds   \* bound of the model: changes of a GPU

VfioDriver == "vfio-pci"
VfioPath == "/dev/vfio"
VfioDevicesPath == "/dev/vfio/devices"
NoFd == -1          \* IommuFD is ""

ASSUME GpusTyped ==
  \A g \in Gpus : g.driver \in STRING /\ g.group \in Int /\ g.fd \in Nat \union {NoFd}
ASSUME GpuBounds == MaxGpus \in Nat /\ MaxRebinds \in Nat

VARIABLES
  gpus,      \* the GPUs of the node, by their PCI addresses
  stage,     \* "idle", or in generateCDISpec(): "loop", "save"
  devices,   \* what GetGPUs() answered
  idx,       \* the GPU whose turn it is, from 1
  path,      \* path of GetAllDeviceSpecs(): outlives a turn of the loop
  deviceSpecs,
  cdi,       \* the specification on disk: its entries, and the devices they are of
  result,    \* how the call ended: "none" (not yet), "saved" or "refused"
  rebinds

gen     == <<stage, devices, idx, path, deviceSpecs>>
genVars == <<gpus, gen, cdi, result, rebinds>>

-----------------------------------------------------------------------------

Num(n) == <<"", n>>
Vfio(fd) == <<"vfio", fd>>

PassThrough(d) == d.driver = VfioDriver

HasFd(d) == d.fd # NoFd

\* Mutant: an IOMMUFD device has no key for its group.
KeysByOne(i, d) == <<Num(i - 1), IF HasFd(d) THEN Vfio(d.fd) ELSE Num(d.group)>>

\* Mutant: the number of the IOMMUFD device is its key.
KeysByNumber(i, d) ==
  <<Num(i - 1), Num(d.group)>> \o (IF HasFd(d) THEN <<Num(d.fd)>> ELSE << >>)

\* The keys of a device: its index, its group and its IOMMUFD device.
Keys(i, d) == <<Num(i - 1), Num(d.group)>> \o (IF HasFd(d) THEN <<Vfio(d.fd)>> ELSE << >>)

DevName(d) == IF HasFd(d) THEN Vfio(d.fd) ELSE Num(d.group)

\* The directory after a turn of the loop: it is set, and never reset.
NextPath(p, d) == IF HasFd(d) THEN VfioDevicesPath ELSE p

\* What a turn of the loop appends: the same node under every key.
Entries(i, d, p) ==
  LET keys == Keys(i, d)
  IN  [k \in DOMAIN keys |-> [name |-> keys[k], node |-> <<p, DevName(d)>>]]

Names(entries) == {entries[k].name : k \in DOMAIN entries}

\* What the library accepts on Save: some device, no two of one name, and names
\* that begin with a letter or a digit.
Valid(entries) ==
  /\ entries # << >>
  /\ \A k, l \in DOMAIN entries : entries[k].name = entries[l].name => k = l
  /\ \A n \in Names(entries) : n[2] >= 0

NoSpec == [entries |-> << >>, of |-> << >>]

-----------------------------------------------------------------------------

\* No two GPUs have the same IOMMUFD device.
Distinct(ds) ==
  \A i, j \in DOMAIN ds : HasFd(ds[i]) /\ ds[i].fd = ds[j].fd => i = j

GenInit ==
  /\ gpus \in UNION {[1 .. n -> Gpus] : n \in 0 .. MaxGpus}
  /\ Distinct(gpus)
  /\ stage = "idle" /\ devices = << >> /\ idx = 1 /\ path = VfioPath /\ deviceSpecs = << >>
  /\ cdi = NoSpec
  /\ result = "none"
  /\ rebinds = 0

GetGPUs ==
  /\ stage = "idle"
  /\ stage' = "loop" /\ devices' = gpus /\ idx' = 1 /\ path' = VfioPath /\ deviceSpecs' = << >>
  /\ result' = "none"
  /\ UNCHANGED <<gpus, cdi, rebinds>>

\* Mutant: the index counts the GPUs that are passed through.
AddDeviceCounted ==
  /\ stage = "loop" /\ idx <= Len(devices) /\ PassThrough(devices[idx])
  /\ path' = NextPath(path, devices[idx])
  /\ deviceSpecs' = deviceSpecs \o
       Entries(Len(SelectSeq(SubSeq(devices, 1, idx), PassThrough)), devices[idx], path')
  /\ idx' = idx + 1
  /\ UNCHANGED <<gpus, stage, devices, cdi, result, rebinds>>

AddDevice ==
  /\ stage = "loop" /\ idx <= Len(devices) /\ PassThrough(devices[idx])
  /\ path' = NextPath(path, devices[idx])
  /\ deviceSpecs' = deviceSpecs \o Entries(idx, devices[idx], path')
  /\ idx' = idx + 1
  /\ UNCHANGED <<gpus, stage, devices, cdi, result, rebinds>>

SkipDevice ==
  /\ stage = "loop" /\ idx <= Len(devices) /\ ~PassThrough(devices[idx])
  /\ idx' = idx + 1
  /\ UNCHANGED <<gpus, stage, devices, path, deviceSpecs, cdi, result, rebinds>>

GetSpec ==
  /\ stage = "loop" /\ idx > Len(devices)
  /\ stage' = "save"
  /\ UNCHANGED <<gpus, devices, idx, path, deviceSpecs, cdi, result, rebinds>>

\* The specification is replaced as a whole (a temporary file is renamed) ...
Save ==
  /\ stage = "save" /\ Valid(deviceSpecs)
  /\ cdi' = [entries |-> deviceSpecs, of |-> devices]
  /\ stage' = "idle" /\ result' = "saved"
  /\ UNCHANGED <<gpus, devices, idx, path, deviceSpecs, rebinds>>

\* ... or refused: the worker ends, what is on disk stays.
RefuseSpec ==
  /\ stage = "save" /\ ~Valid(deviceSpecs)
  /\ stage' = "idle" /\ result' = "refused"
  /\ UNCHANGED <<gpus, devices, idx, path, deviceSpecs, cdi, rebinds>>

\* The worker is killed.
Die ==
  /\ stage # "idle" /\ stage' = "idle"
  /\ UNCHANGED <<gpus, devices, idx, path, deviceSpecs, cdi, result, rebinds>>

Rebind ==
  /\ rebinds < MaxRebinds /\ rebinds' = rebinds + 1
  /\ \E i \in DOMAIN gpus, g \in Gpus :
       g # gpus[i] /\ gpus' = [gpus EXCEPT ![i] = g] /\ Distinct(gpus')
  /\ UNCHANGED <<gen, cdi, result>>

GenNext ==
  GetGPUs \/ AddDevice \/ SkipDevice \/ GetSpec \/ Save \/ RefuseSpec \/ Die \/ Rebind

GenSpec == GenInit /\ [][GenNext]_genVars

-----------------------------------------------------------------------------
(* Properties.                                                             *)

\* The node the keys of a device stand for, as the comment at lib-vfio.go:92 has it.
NodeOf(d) == <<IF HasFd(d) THEN VfioDevicesPath ELSE VfioPath, DevName(d)>>

KeysOf(i, d) == {Num(i - 1), Num(d.group)} \union (IF HasFd(d) THEN {Vfio(d.fd)} ELSE {})

\* A device without IOMMUFD that comes after one with it.
Mixed(ds, i) ==
  ~HasFd(ds[i]) /\ \E j \in 1 .. i - 1 : PassThrough(ds[j]) /\ HasFd(ds[j])

\* Every entry that is made, and so every one on disk, is a key of a GPU that was
\* bound to vfio-pci when GetGPUs() looked, and leads to that GPU's own device
\* node, whatever came before it in the loop; but for a GPU without IOMMUFD that
\* comes after one with it (lib-vfio.go:69-113).
EntryExplained(e, ds) ==
  \E i \in DOMAIN ds :
    /\ PassThrough(ds[i])
    /\ e.name \in KeysOf(i, ds[i])
    /\ e.node = NodeOf(ds[i]) \/ Mixed(ds, i)

EntriesExplained ==
  /\ \A k \in DOMAIN deviceSpecs : EntryExplained(deviceSpecs[k], devices)
  /\ \A k \in DOMAIN cdi.entries : EntryExplained(cdi.entries[k], cdi.of)

\* A specification on disk has every key of every GPU that was passed through, and
\* one GPU per key: a container that asks for a key gets the GPU it means, also
\* when the keys are those of an earlier start (lib-vfio.go:98-111, main.go:486).
OnDiskComplete ==
  /\ \A i \in DOMAIN cdi.of :
       PassThrough(cdi.of[i]) => KeysOf(i, cdi.of[i]) \subseteq Names(cdi.entries)
  /\ \A i, j \in DOMAIN cdi.of :
       (i # j /\ PassThrough(cdi.of[i]) /\ PassThrough(cdi.of[j])) =>
          KeysOf(i, cdi.of[i]) \intersect KeysOf(j, cdi.of[j]) = {}

\* The worker is refused its specification only if no GPU is passed through, one
\* has no group, or two keys are the same number: two GPUs of one group, or a
\* group that is numbered as an index (spec.Save, main.go:486).
RefusalExplained ==
  (stage = "idle" /\ result = "refused") =>
    LET P == {i \in DOMAIN devices : PassThrough(devices[i])}
    IN  \/ P = {}
        \/ \E i \in P : devices[i].group < 0
        \/ \E i, j \in P : i # j /\ devices[i].group = devices[j].group
        \/ \E i, j \in P : devices[i].group = j - 1

=============================================================================
