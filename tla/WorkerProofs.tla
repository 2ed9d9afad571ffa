---------------------------- MODULE WorkerProofs ----------------------------
(***************************************************************************)
(* What a worker guarantees besides the configuration of the runtime: of   *)
(* the pid file, for any number of processes and inodes; of the CDI        *)
(* specification, for any number and kind of GPUs; of the request it makes *)
(* of a registry, for references of any length; and of the classes of its  *)
(* configuration, for any lists, edits and number of workers.              *)
(*                                                                         *)
(* The invariants of the pid file say what a lock implies.  None is        *)
(* inductive: that no one else writes into the file of a holder needs to   *)
(* know that every process past its flock which still has its file open    *)
(* holds the lock of that file, which is LockKept.                         *)
(*                                                                         *)
(* Those of the CDI specification are about what is on disk, or about how  *)
(* a call ended; what makes them true is what the loop has made so far:    *)
(* its entries are of the GPUs that had their turn (AllOf), with all of    *)
(* their keys (AllThere), and a name is twice among them just if two GPUs  *)
(* share it (SharedTwice, TwiceShared).  Save() refuses such a name.       *)
(*                                                                         *)
(* A reference is cut three times.  That the cuts agree is a matter of     *)
(* where its separators are (HostIsRegistry, PartsOf).                     *)
(*                                                                         *)
(* SanitizeConfig() compacts a list while it reads it.  The loop is a fold *)
(* of the community modules, and what it computes is proved by induction   *)
(* on its turns (TurnsCompact), for lists of any length: the valid classes *)
(* remain, in their order, and nothing else.  From there the invariant of  *)
(* Startup follows a worker to its Save() (SetupInv).                      *)
(***************************************************************************)
EXTENDS PidFile, CdiSpec, ArtifactRef, Startup, FiniteSetTheorems, SequenceTheorems, WellFoundedInduction, TLAPS

-----------------------------------------------------------------------------
(* The pid file.                                                           *)

\* The file is open between os.Create and the end of initialize() at least.
OpenWhileStarting ==
  \A w \in Workers :
    /\ pc[w] \in {"flock", "write"} => pidFd[w] # NoInode
    /\ pc[w] \in {"down", "create"} => pidFd[w] = NoInode

\* Past its flock, a process that has its file open holds its lock.
LockKept ==
  \A w \in Workers :
    (pc[w] \in Locked /\ pidFd[w] # NoInode) => pidLock[pidFd[w]] = w

\* The file of a process past initialize() has its pid, or has been truncated.
NotRenamed ==
  \A w \in Workers :
    (pc[w] \in {"running", "exiting"} /\ pidFd[w] # NoInode) =>
      pidText[pidFd[w]] \in {w, Nobody}

\* The inductive invariant.
PidInv ==
  /\ TypeOK
  /\ OpenWhileStarting
  /\ LockHeldByLiving
  /\ LockKept
  /\ NotRenamed

-----------------------------------------------------------------------------

\* The invariant holds when no instance has started (no pid file, no lock).
LEMMA InitPidInv == Init => PidInv
BY NobodyWorks, NoInodeIsNone
DEF Init, FileInit, PidInv, TypeOK, OpenWhileStarting, LockHeldByLiving, LockKept,
    NotRenamed, PidStates, Locked

\* Every step of initialize(), of shutdown(), of the collector and every death
\* keeps the invariant.
LEMMA StepPidInv == PidInv /\ [Next]_pidVars => PidInv'
<1> SUFFICES ASSUME PidInv, [Next]_pidVars PROVE PidInv'
    OBVIOUS
<1> USE NobodyWorks, NoInodeIsNone
    DEF PidInv, TypeOK, OpenWhileStarting, LockHeldByLiving, LockKept, NotRenamed,
        PidStates, Locked
<1>1. CASE UNCHANGED pidVars
      BY <1>1 DEF pidVars
<1>2. ASSUME NEW w \in Workers, PidStep(w) PROVE PidInv'
  <2>1. CASE Start(w)
        BY <2>1 DEF Start, Goto, fileVars
  <2>2. CASE Create(w)
        BY <2>2 DEF Create, Goto, OpenPid, Free
  <2>3. CASE Flock(w)
        BY <2>3 DEF Flock, Goto, LockPid, CanLock
  <2>4. CASE Refuse(w)
        BY <2>4 DEF Refuse, Goto, ClosePid, Contents
  <2>5. CASE Write(w)
        BY <2>5 DEF Write, Goto, WritePid
  <2>6. CASE Finalize(w)
        BY <2>6 DEF Finalize, ClosePid, Contents
  <2>7. CASE Shutdown(w)
        BY <2>7 DEF Shutdown, Goto, RemovePid, Contents
  <2>8. CASE End(w)
        BY <2>8 DEF End, ClosePid, Contents
  <2> QED
        BY <1>2, <2>1, <2>2, <2>3, <2>4, <2>5, <2>6, <2>7, <2>8 DEF PidStep
<1> QED
    BY <1>1, <1>2 DEF Next

\* Type correctness and the inductive invariant, in every behaviour.
THEOREM PidInvariance == Spec => []PidInv
<1> QED
    BY InitPidInv, StepPidInv, PTL DEF Spec

\* The types of the variables: for every set of processes and inodes.
THEOREM TypeCorrect == Spec => []TypeOK
<1>1. PidInv => TypeOK
      BY DEF PidInv
<1> QED
    BY <1>1, PidInvariance, PTL

\* A lock belongs to a living process that has the locked file open, so that a
\* crash or a kill never keeps the next instance out.
THEOREM LocksDieWithTheirOwner == Spec => []LockHeldByLiving
<1>1. PidInv => LockHeldByLiving
      BY DEF PidInv
<1> QED
    BY <1>1, PidInvariance, PTL

\* Two instances past initialize(): the collector closed the file of one, or it was
\* unlinked; and none unlinks a file that another holds, unless its own was closed or
\* unlinked before.
THEOREM OverlapHasTwoCauses == Spec => OverlapExplained
<1>1. PidInv => OpenApart
      BY NobodyWorks DEF PidInv, LockKept, Locked, OpenApart, Orphaned
<1>2. PidInv /\ [Next]_pidVars =>
        [\A v, w \in Workers : LosesItsName(v, w) =>
           pc[w] = "flock" \/ pidFd[v] = NoInode \/ Orphaned(v)]_pidVars
  <2> SUFFICES ASSUME PidInv, NEW v \in Workers, NEW w \in Workers, LosesItsName(v, w),
                      pidFd[v] # NoInode, pidFd[v] = pidPath
               PROVE pc[w] = "flock"
      BY DEF Orphaned
  <2>1. pc[v] = "running" /\ v # w /\ pidFd[w] = pidFd[v]
        BY DEF LosesItsName, Shutdown, Goto
  <2>2. pidLock[pidFd[w]] = v
        BY <2>1 DEF PidInv, LockKept, Locked
  <2>3. pc[w] \notin Locked
        BY <2>1, <2>2 DEF PidInv, LockKept
  <2> QED
      BY <2>1, <2>3 DEF PidInv, TypeOK, OpenWhileStarting, PidStates, Locked
<1> QED
    BY <1>1, <1>2, PidInvariance, PTL DEF Spec, OverlapExplained

\* No other instance's pid appears in the file of a holder.
THEOREM HolderKeepsItsName == Spec => []HolderNotRenamed
<1>1. PidInv => HolderNotRenamed
      BY DEF PidInv, NotRenamed, HolderNotRenamed
<1> QED
    BY <1>1, PidInvariance, PTL

\* An instance that initialize() refuses was kept out by a living one.
THEOREM RefusalsAreJustified == Spec => RefusedByTheLiving
<1>1. PidInv /\ [Next]_pidVars =>
        [\A w \in Workers : Refuse(w) =>
           \E v \in Workers \ {w} : pc[v] \in Locked /\ pidFd[v] = pidFd[w]]_pidVars
  <2> SUFFICES ASSUME PidInv, NEW w \in Workers, Refuse(w)
               PROVE \E v \in Workers \ {w} : pc[v] \in Locked /\ pidFd[v] = pidFd[w]
      OBVIOUS
  <2> DEFINE v == pidLock[pidFd[w]]
  <2>1. pc[w] = "flock" /\ pidFd[w] \in Inodes /\ v # Nobody
        BY DEF PidInv, TypeOK, OpenWhileStarting, Refuse, Goto, CanLock
  <2>2. v \in Workers /\ pc[v] \in Locked /\ pidFd[v] = pidFd[w]
        BY <2>1 DEF PidInv, TypeOK, LockHeldByLiving
  <2>3. v # w
        BY <2>1, <2>2 DEF Locked
  <2> QED
        BY <2>2, <2>3
<1> QED
    BY <1>1, PidInvariance, PTL DEF Spec, RefusedByTheLiving

-----------------------------------------------------------------------------
(* The CDI specification.                                                  *)

\* What an entry can be.
AName == {"", "vfio"} \X Int
AnEntry == [name : AName, node : {VfioPath, VfioDevicesPath} \X AName]

\* The GPUs whose turn is over that are passed through.
Done == {i \in DOMAIN devices : i < idx /\ PassThrough(devices[i])}

\* The types of the variables; what is saved went through the whole loop.
GpuTypes ==
  /\ gpus \in Seq(Gpus) /\ devices \in Seq(Gpus)
  /\ Distinct(gpus) /\ Distinct(devices)
  /\ idx \in Nat \ {0}
  /\ stage \in {"idle", "loop", "save"}
  /\ deviceSpecs \in Seq(AnEntry)
  /\ stage = "save" => idx > Len(devices)

\* The directory is that of IOMMUFD once a GPU had one.
PathExplained ==
  path # VfioPath => path = VfioDevicesPath /\ \E j \in Done : HasFd(devices[j])

\* The entry is one of the GPU's.
IsOf(e, i) ==
  /\ e.name \in KeysOf(i, devices[i])
  /\ e.node = NodeOf(devices[i]) \/ Mixed(devices, i)

\* What was appended is of those GPUs, ...
AllOf == \A k \in DOMAIN deviceSpecs : \E i \in Done : IsOf(deviceSpecs[k], i)

\* ... has all of their keys, ...
AllThere == \A i \in Done : KeysOf(i, devices[i]) \subseteq Names(deviceSpecs)

\* ... a key of two of them twice, ...
Twice(n) == \E k, l \in DOMAIN deviceSpecs :
              k # l /\ deviceSpecs[k].name = n /\ deviceSpecs[l].name = n

SharedTwice ==
  \A i, j \in Done :
    i # j => \A n \in KeysOf(i, devices[i]) \intersect KeysOf(j, devices[j]) : Twice(n)

\* ... and no other key.
Clash == \E i, j \in Done : \/ i # j /\ devices[i].group = devices[j].group
                            \/ devices[i].group = j - 1

TwiceShared == (\E n : Twice(n)) => Clash

\* How a call ended is not known while it runs.
Open == stage # "idle" => result = "none"

\* What the loop has made so far.
LoopInv == PathExplained /\ AllOf /\ AllThere /\ SharedTwice /\ TwiceShared

OnDiskExplained == \A k \in DOMAIN cdi.entries : EntryExplained(cdi.entries[k], cdi.of)

\* The inductive invariant.
GenInv ==
  /\ GpuTypes /\ LoopInv /\ Open
  /\ OnDiskExplained /\ OnDiskComplete /\ RefusalExplained

-----------------------------------------------------------------------------

\* What one sequence after another holds.
LEMMA Appended ==
  ASSUME NEW S, NEW s \in Seq(S), NEW e \in Seq(S)
  PROVE  /\ s \o e \in Seq(S)
         /\ \A k \in DOMAIN s : k \in DOMAIN (s \o e) /\ (s \o e)[k] = s[k]
         /\ \A m \in DOMAIN e : /\ Len(s) + m \in DOMAIN (s \o e) /\ Len(s) + m \notin DOMAIN s
                                /\ (s \o e)[Len(s) + m] = e[m]
         /\ \A k \in DOMAIN (s \o e) : k \in DOMAIN s \/ \E m \in DOMAIN e : k = Len(s) + m
<1>1. /\ s \o e \in Seq(S) /\ Len(s \o e) = Len(s) + Len(e)
      /\ \A i \in 1 .. Len(s) + Len(e) :
           (s \o e)[i] = IF i <= Len(s) THEN s[i] ELSE e[i - Len(s)]
      BY ConcatProperties
<1>2. /\ Len(s) \in Nat /\ Len(e) \in Nat
      /\ DOMAIN s = 1 .. Len(s) /\ DOMAIN e = 1 .. Len(e)
      /\ DOMAIN (s \o e) = 1 .. Len(s) + Len(e)
      BY <1>1
<1>3. \A m \in 1 .. Len(e) : /\ Len(s) + m \in 1 .. Len(s) + Len(e) /\ Len(s) + m \notin 1 .. Len(s)
                             /\ ~(Len(s) + m <= Len(s)) /\ (Len(s) + m) - Len(s) = m
      BY <1>2
<1>4. \A k \in 1 .. Len(s) + Len(e) : k \in 1 .. Len(s) \/ \E m \in 1 .. Len(e) : k = Len(s) + m
  <2>1. SUFFICES ASSUME NEW k \in 1 .. Len(s) + Len(e), k \notin 1 .. Len(s)
                 PROVE  k - Len(s) \in 1 .. Len(e) /\ k = Len(s) + (k - Len(s))
        OBVIOUS
  <2> QED
        BY <1>2, <2>1
<1>5. \A k \in 1 .. Len(s) : k \in 1 .. Len(s) + Len(e) /\ k <= Len(s)
      BY <1>2
<1> QED
      BY <1>1, <1>2, <1>3, <1>4, <1>5

\* The keys of a GPU, one by one.
LEMMA KeysAre ==
  ASSUME NEW d \in Gpus, NEW i \in Nat \ {0}
  PROVE  /\ Keys(i, d) \in Seq(AName)
         /\ DOMAIN Keys(i, d) = 1 .. IF HasFd(d) THEN 3 ELSE 2
         /\ Keys(i, d)[1] = Num(i - 1) /\ Keys(i, d)[2] = Num(d.group)
         /\ HasFd(d) => Keys(i, d)[3] = Vfio(d.fd)
<1>1. d.group \in Int /\ (HasFd(d) => d.fd \in Int) /\ i - 1 \in Int
      BY GpusTyped DEF HasFd
<1>2. Num(i - 1) \in AName /\ Num(d.group) \in AName /\ (HasFd(d) => Vfio(d.fd) \in AName)
      BY <1>1 DEF Num, Vfio, AName
<1>3. CASE HasFd(d)
  <2> DEFINE a == Num(i - 1)
             b == Num(d.group)
             c == Vfio(d.fd)
  <2>1. Keys(i, d) = <<a, b>> \o <<c>> /\ a \in AName /\ b \in AName /\ c \in AName
        BY <1>2, <1>3 DEF Keys
  <2> HIDE DEF a, b, c
  <2>2. <<a, b>> \in Seq(AName) /\ <<c>> \in Seq(AName) /\ Len(<<a, b>>) = 2 /\ Len(<<c>>) = 1
        BY <2>1
  <2>3. /\ <<a, b>>[1] = a /\ <<a, b>>[2] = b /\ <<c>>[1] = c
        /\ 1 \in 1 .. 2 + 1 /\ 2 \in 1 .. 2 + 1 /\ 3 \in 1 .. 2 + 1 /\ 2 + 1 = 3
        /\ 1 <= 2 /\ ~(3 <= 2) /\ 3 - 2 = 1
        OBVIOUS
  <2>4. /\ Keys(i, d) \in Seq(AName) /\ Len(Keys(i, d)) = 2 + 1
        /\ \A k \in 1 .. 2 + 1 : Keys(i, d)[k] = IF k <= 2 THEN <<a, b>>[k] ELSE <<c>>[k - 2]
        BY <2>1, <2>2, ConcatProperties
  <2>5. DOMAIN Keys(i, d) = 1 .. 3
        BY <2>3, <2>4
  <2>6. Keys(i, d)[1] = a /\ Keys(i, d)[2] = b /\ Keys(i, d)[3] = c
        BY <2>3, <2>4
  <2> QED
        BY <1>3, <2>4, <2>5, <2>6 DEF a, b, c
<1>4. CASE ~HasFd(d)
  <2> DEFINE a == Num(i - 1)
             b == Num(d.group)
  <2>1. Keys(i, d) = <<a, b>> \o << >> /\ a \in AName /\ b \in AName
        BY <1>2, <1>4 DEF Keys
  <2> HIDE DEF a, b
  <2>2. <<a, b>> \o << >> = <<a, b>>
        BY <2>1
  <2>3. Keys(i, d) \in Seq(AName) /\ DOMAIN Keys(i, d) = 1 .. 2
        /\ Keys(i, d)[1] = a /\ Keys(i, d)[2] = b
        BY <2>1, <2>2
  <2> QED
        BY <1>4, <2>3 DEF a, b
<1> QED
      BY <1>3, <1>4

\* Names are the same if they are of one kind and have the same number.
LEMMA NamesDiffer ==
  /\ \A m, n : Num(m) = Num(n) => m = n
  /\ \A m, n : Vfio(m) = Vfio(n) => m = n
  /\ \A m, n : Num(m) # Vfio(n)
BY DEF Num, Vfio

\* What a turn of the loop appends has every key of the GPU, and one twice only if the
\* GPU has the index of its group.
MadeFor(e, i, d, p) ==
  /\ e \in Seq(AnEntry) /\ e # << >>
  /\ \A k \in DOMAIN e : e[k].name \in KeysOf(i, d) /\ e[k].node = <<p, DevName(d)>>
  /\ \A n \in KeysOf(i, d) : \E k \in DOMAIN e : e[k].name = n
  /\ \A k, l \in DOMAIN e : k # l /\ e[k].name = e[l].name => d.group = i - 1

\* A turn of the loop makes such entries.
LEMMA EntriesAre ==
  ASSUME NEW d \in Gpus, NEW i \in Nat \ {0}, NEW p \in {VfioPath, VfioDevicesPath}
  PROVE  MadeFor(Entries(i, d, p), i, d, p)
<1> DEFINE e    == Entries(i, d, p)
           keys == Keys(i, d)
           node == <<p, DevName(d)>>
<1>1. e = [k \in DOMAIN keys |-> [name |-> keys[k], node |-> node]]
      BY DEF Entries
<1>2. /\ keys \in Seq(AName)
      /\ DOMAIN keys = 1 .. IF HasFd(d) THEN 3 ELSE 2
      /\ keys[1] = Num(i - 1) /\ keys[2] = Num(d.group)
      /\ HasFd(d) => keys[3] = Vfio(d.fd)
      BY KeysAre
<1>3. DevName(d) \in AName
  <2>1. d.group \in Int /\ (HasFd(d) => d.fd \in Int)
        BY GpusTyped DEF HasFd
  <2> QED
        BY <2>1 DEF DevName, Num, Vfio, AName
<1> HIDE DEF keys, e
<1>4. /\ DOMAIN e = DOMAIN keys
      /\ \A k \in DOMAIN keys : e[k].name = keys[k] /\ e[k].node = node
      /\ \A k \in DOMAIN keys : e[k] \in AnEntry
      BY <1>1, <1>2, <1>3 DEF AnEntry
<1>5. e \in Seq(AnEntry) /\ e # << >>
  <2>1. \E n \in Nat : DOMAIN keys = 1 .. n /\ n # 0
        BY <1>2
  <2>2. PICK n \in Nat : e \in [1 .. n -> AnEntry] /\ n # 0
        BY <1>1, <1>4, <2>1
  <2>3. e \in Seq(AnEntry) /\ Len(e) = n
        BY <2>2
  <2> QED
        BY <2>2, <2>3
<1>6. CASE HasFd(d)
  <2>1. DOMAIN keys = {1, 2, 3} /\ KeysOf(i, d) = {keys[1], keys[2], keys[3]}
        BY <1>2, <1>6 DEF KeysOf
  <2>2. /\ keys[1] = keys[2] => d.group = i - 1
        /\ keys[1] # keys[3] /\ keys[2] # keys[3]
        BY <1>2, <1>6, NamesDiffer
  <2> QED
        BY <1>4, <1>5, <2>1, <2>2 DEF e, MadeFor
<1>7. CASE ~HasFd(d)
  <2>1. DOMAIN keys = {1, 2} /\ KeysOf(i, d) = {keys[1], keys[2]}
        BY <1>2, <1>7 DEF KeysOf
  <2>2. keys[1] = keys[2] => d.group = i - 1
        BY <1>2, NamesDiffer
  <2> QED
        BY <1>4, <1>5, <2>1, <2>2 DEF e, MadeFor
<1> QED
      BY <1>6, <1>7

\* Two GPUs with one key share their group, or one has the index of the other's group.
LEMMA SharedKey ==
  ASSUME GpuTypes, NEW i \in DOMAIN devices, NEW j \in DOMAIN devices, i # j,
         NEW n \in KeysOf(i, devices[i]), n \in KeysOf(j, devices[j])
  PROVE  \/ devices[i].group = devices[j].group
         \/ devices[i].group = j - 1 \/ devices[j].group = i - 1
<1>1. ~(HasFd(devices[i]) /\ HasFd(devices[j]) /\ devices[i].fd = devices[j].fd)
      BY DEF GpuTypes, Distinct
<1>2. i - 1 # j - 1
      BY DEF GpuTypes
<1> QED
      BY <1>1, <1>2, NamesDiffer DEF KeysOf

\* The invariant holds before the first start.
LEMMA InitGen == GenInit => GenInv
<1> SUFFICES ASSUME GenInit PROVE GenInv
    OBVIOUS
<1>1. gpus \in Seq(Gpus)
      BY GpuBounds DEF GenInit
<1>2. /\ devices = << >> /\ deviceSpecs = << >> /\ idx = 1 /\ path = VfioPath
      /\ cdi.entries = << >> /\ cdi.of = << >> /\ stage = "idle" /\ result = "none"
      /\ Distinct(gpus)
      BY DEF GenInit, NoSpec
<1>3. /\ devices \in Seq(Gpus) /\ deviceSpecs \in Seq(AnEntry)
      /\ DOMAIN devices = {} /\ DOMAIN deviceSpecs = {}
      /\ DOMAIN cdi.entries = {} /\ DOMAIN cdi.of = {}
      BY <1>2
<1>4. GpuTypes
      BY <1>1, <1>2, <1>3 DEF GpuTypes, Distinct
<1> QED
      BY <1>2, <1>3, <1>4
      DEF GenInv, LoopInv, PathExplained, AllOf, AllThere, SharedTwice, TwiceShared, Twice, Done,
          Open, OnDiskExplained, OnDiskComplete, RefusalExplained

\* A step that takes no GPU its turn keeps what the loop has made, ...
LEMMA LoopKept ==
  ASSUME LoopInv, Done' = Done, UNCHANGED <<devices, path, deviceSpecs>>
  PROVE  LoopInv'
<1>1. PathExplained' /\ AllOf' /\ AllThere'
      BY DEF LoopInv, PathExplained, AllOf, AllThere, IsOf
<1>2. (\A n : Twice(n)' <=> Twice(n)) /\ (Clash' <=> Clash)
      BY DEF Twice, Clash
<1>3. SharedTwice' /\ TwiceShared'
      BY <1>2 DEF LoopInv, SharedTwice, TwiceShared
<1> QED
      BY <1>1, <1>3 DEF LoopInv

\* ... and one that does not save keeps what is on disk.
LEMMA DiskKept ==
  ASSUME OnDiskComplete, OnDiskExplained, cdi' = cdi
  PROVE  OnDiskComplete' /\ OnDiskExplained'
BY DEF OnDiskComplete, OnDiskExplained

\* A turn of the loop for a GPU that is passed through.
LEMMA AddDeviceGen ==
  ASSUME GenInv, AddDevice
  PROVE  GenInv'
<1> DEFINE d == devices[idx]
           e == Entries(idx, d, path')
           s == deviceSpecs
           u == deviceSpecs'
<1>1. /\ GpuTypes /\ PathExplained /\ AllOf /\ AllThere /\ SharedTwice /\ TwiceShared
      /\ Open /\ OnDiskComplete /\ RefusalExplained
      /\ OnDiskExplained
      BY DEF GenInv, LoopInv
<1>2. /\ stage = "loop" /\ idx <= Len(devices) /\ PassThrough(d)
      /\ path' = NextPath(path, d) /\ u = s \o e /\ idx' = idx + 1
      /\ UNCHANGED <<gpus, stage, devices, cdi, result>>
      BY DEF AddDevice
<1>3. /\ devices \in Seq(Gpus) /\ idx \in Nat \ {0} /\ s \in Seq(AnEntry)
      /\ idx \in DOMAIN devices /\ d \in Gpus
      BY <1>1, <1>2 DEF GpuTypes
<1>4. Done' = Done \union {idx} /\ idx \notin Done /\ Done \subseteq DOMAIN devices
  <2>1. \A i \in DOMAIN devices : i \in Nat
        BY <1>3
  <2> QED
        BY <1>2, <1>3, <2>1 DEF Done
<1>5. path' \in {VfioPath, VfioDevicesPath} /\ PathExplained'
      BY <1>1, <1>2, <1>4 DEF PathExplained, NextPath
<1>6. /\ e \in Seq(AnEntry) /\ e # << >>
      /\ \A k \in DOMAIN e : e[k].name \in KeysOf(idx, d) /\ e[k].node = <<path', DevName(d)>>
      /\ \A n \in KeysOf(idx, d) : \E k \in DOMAIN e : e[k].name = n
      /\ \A k, l \in DOMAIN e : k # l /\ e[k].name = e[l].name => d.group = idx - 1
  <2>1. \A p \in {VfioPath, VfioDevicesPath} : MadeFor(Entries(idx, d, p), idx, d, p)
        BY <1>3, EntriesAre
  <2>2. MadeFor(e, idx, d, path')
        BY <1>5, <2>1
  <2> HIDE DEF d, e
  <2> QED
        BY <2>2 DEF MadeFor
<1> HIDE DEF d, e
<1>7. /\ u \in Seq(AnEntry)
      /\ \A k \in DOMAIN s : k \in DOMAIN u /\ u[k] = s[k]
      /\ \A m \in DOMAIN e : /\ Len(s) + m \in DOMAIN u /\ Len(s) + m \notin DOMAIN s
                             /\ u[Len(s) + m] = e[m]
      /\ \A k \in DOMAIN u : k \in DOMAIN s \/ \E m \in DOMAIN e : k = Len(s) + m
      BY <1>2, <1>3, <1>6, Appended
<1> HIDE DEF s, u
<1>8. GpuTypes'
      BY <1>1, <1>2, <1>3, <1>7 DEF GpuTypes, u
\* The new entries are of this GPU.
<1>9. \A m \in DOMAIN e : IsOf(e[m], idx)
  <2>1. HasFd(d) \/ path' = VfioPath \/ Mixed(devices, idx)
    <3>1. SUFFICES ASSUME ~HasFd(d), path' # VfioPath PROVE Mixed(devices, idx)
          OBVIOUS
    <3>2. PICK j \in Done : HasFd(devices[j])
          BY <1>1, <1>2, <3>1 DEF PathExplained, NextPath
    <3>3. j \in 1 .. idx - 1 /\ PassThrough(devices[j])
          BY <1>3, <3>2 DEF Done
    <3> QED
          BY <3>1, <3>2, <3>3 DEF Mixed, d
  <2>2. HasFd(d) => path' = VfioDevicesPath
        BY <1>2 DEF NextPath
  <2> QED
        BY <1>6, <2>1, <2>2 DEF IsOf, NodeOf, d
<1>10. AllOf'
  <2>1. ASSUME NEW k \in DOMAIN u PROVE \E i \in Done \union {idx} : IsOf(u[k], i)
        BY <1>1, <1>7, <1>9, <2>1 DEF AllOf, s
  <2> QED
        BY <1>2, <1>4, <2>1 DEF AllOf, IsOf, u
\* It has all of its keys.
<1>11. \A n \in KeysOf(idx, d) : \E m \in DOMAIN e : u[Len(s) + m].name = n
       BY <1>6, <1>7
<1>12. Names(s) \subseteq Names(u) /\ KeysOf(idx, d) \subseteq Names(u)
  <2>1. ASSUME NEW k \in DOMAIN s PROVE s[k].name \in Names(u)
    <3>1. k \in DOMAIN u /\ u[k] = s[k]
          BY <1>7
    <3> QED
          BY <3>1 DEF Names
  <2>2. ASSUME NEW n \in KeysOf(idx, d) PROVE n \in Names(u)
    <3>1. PICK m \in DOMAIN e : u[Len(s) + m].name = n
          BY <1>11
    <3>2. Len(s) + m \in DOMAIN u
          BY <1>7
    <3> QED
          BY <3>1, <3>2 DEF Names
  <2> QED
        BY <2>1, <2>2 DEF Names
<1>13. AllThere'
       BY <1>1, <1>2, <1>4, <1>12 DEF AllThere, s, u, d
\* A key it shares is twice there, and one that is twice there is shared.
<1> DEFINE TwiceIn(t, n) == \E k, l \in DOMAIN t : k # l /\ t[k].name = n /\ t[l].name = n
<1>14. /\ \A n : Twice(n) <=> TwiceIn(s, n)
       /\ \A n : Twice(n)' <=> TwiceIn(u, n)
       BY DEF Twice, s, u
<1>15. \A n : TwiceIn(s, n) => TwiceIn(u, n)
       BY <1>7
<1>16. ASSUME NEW j \in Done, NEW n, n \in KeysOf(j, devices[j]), n \in KeysOf(idx, d)
       PROVE  TwiceIn(u, n)
  <2>1. PICK k \in DOMAIN s : s[k].name = n
        BY <1>1, <1>16 DEF AllThere, Names, s
  <2>2. PICK m \in DOMAIN e : u[Len(s) + m].name = n
        BY <1>11, <1>16
  <2> QED
        BY <1>7, <2>1, <2>2
<1>17. SharedTwice'
  <2>1. ASSUME NEW i \in Done \union {idx}, NEW j \in Done \union {idx}, i # j,
               NEW n \in KeysOf(i, devices[i]) \intersect KeysOf(j, devices[j])
        PROVE  TwiceIn(u, n)
    <3>1. CASE i \in Done /\ j \in Done
          BY <1>1, <1>14, <1>15, <2>1, <3>1 DEF SharedTwice
    <3>2. CASE i \in Done /\ j = idx
          BY <1>16, <2>1, <3>2 DEF d
    <3>3. CASE i = idx /\ j \in Done
          BY <1>16, <2>1, <3>3 DEF d
    <3> QED
          BY <2>1, <3>1, <3>2, <3>3
  <2> HIDE DEF TwiceIn
  <2> QED
        BY <1>2, <1>4, <1>14, <2>1 DEF SharedTwice
<1>18. TwiceShared'
  <2> DEFINE ClashOf(D) == \E i, j \in D : \/ i # j /\ devices[i].group = devices[j].group
                                           \/ devices[i].group = j - 1
  <2>1. (Clash' <=> ClashOf(Done \union {idx})) /\ (Clash => ClashOf(Done \union {idx}))
        BY <1>2, <1>4 DEF Clash
  <2>2. ASSUME NEW n, NEW k \in DOMAIN u, NEW l \in DOMAIN u, k # l, u[k].name = n, u[l].name = n
        PROVE  ClashOf(Done \union {idx})
    <3>1. CASE k \in DOMAIN s /\ l \in DOMAIN s
      <4>1. Twice(n)
            BY <1>7, <1>14, <2>2, <3>1
      <4> QED
            BY <1>1, <2>1, <4>1 DEF TwiceShared
    <3>2. ASSUME NEW x \in DOMAIN s, NEW m \in DOMAIN e, s[x].name = n, e[m].name = n
          PROVE  ClashOf(Done \union {idx})
      <4>1. PICK i \in Done : n \in KeysOf(i, devices[i])
            BY <1>1, <3>2 DEF AllOf, IsOf, s
      <4>2. n \in KeysOf(idx, devices[idx]) /\ i # idx /\ i \in DOMAIN devices
            BY <1>4, <1>6, <3>2, <4>1 DEF d
      <4>3. \/ devices[i].group = devices[idx].group
            \/ devices[i].group = idx - 1 \/ devices[idx].group = i - 1
            BY <1>1, <1>3, <4>1, <4>2, SharedKey
      <4> QED
            BY <4>1, <4>2, <4>3
    <3>3. ASSUME NEW m \in DOMAIN e, NEW o \in DOMAIN e, k = Len(s) + m, l = Len(s) + o
          PROVE  ClashOf(Done \union {idx})
      <4>1. m # o /\ e[m].name = e[o].name
            BY <1>7, <2>2, <3>3
      <4>2. devices[idx].group = idx - 1
            BY <1>6, <4>1 DEF d
      <4> QED
            BY <4>2
    <3> HIDE DEF ClashOf
    <3>4. CASE k \in DOMAIN s /\ l \notin DOMAIN s
          BY <1>7, <2>2, <3>2, <3>4
    <3>5. CASE l \in DOMAIN s /\ k \notin DOMAIN s
          BY <1>7, <2>2, <3>2, <3>5
    <3>6. CASE k \notin DOMAIN s /\ l \notin DOMAIN s
          BY <1>7, <3>3, <3>6
    <3> QED
          BY <3>1, <3>4, <3>5, <3>6
  <2> HIDE DEF ClashOf
  <2>3. (\E n : TwiceIn(u, n)) => ClashOf(Done \union {idx})
        BY <2>2
  <2> HIDE DEF TwiceIn
  <2> QED
        BY <1>14, <2>1, <2>3 DEF TwiceShared
<1>19. Open' /\ RefusalExplained'
       BY <1>1, <1>2 DEF Open, RefusalExplained
<1>20. OnDiskExplained' /\ OnDiskComplete'
       BY <1>1, <1>2, DiskKept
<1> QED
      BY <1>5, <1>8, <1>10, <1>13, <1>17, <1>18, <1>19, <1>20 DEF GenInv, LoopInv

\* A start lists the GPUs anew and begins with nothing.
LEMMA GetGPUsGen ==
  ASSUME GenInv, GetGPUs
  PROVE  GenInv'
<1>1. /\ GpuTypes /\ OnDiskComplete /\ OnDiskExplained
      BY DEF GenInv
<1>2. /\ stage' = "loop" /\ devices' = gpus /\ idx' = 1 /\ path' = VfioPath /\ deviceSpecs' = << >>
      /\ result' = "none" /\ UNCHANGED <<gpus, cdi>>
      BY DEF GetGPUs
<1>3. gpus \in Seq(Gpus) /\ DOMAIN gpus \subseteq Nat \ {0}
      BY <1>1 DEF GpuTypes
<1>4. Done' = {} /\ deviceSpecs' \in Seq(AnEntry) /\ DOMAIN deviceSpecs' = {}
      BY <1>2, <1>3 DEF Done
<1>5. GpuTypes'
      BY <1>1, <1>2, <1>4 DEF GpuTypes
<1>6. PathExplained' /\ AllOf' /\ AllThere' /\ SharedTwice' /\ TwiceShared'
      BY <1>2, <1>4 DEF PathExplained, AllOf, AllThere, SharedTwice, TwiceShared, Twice
<1>7. Open' /\ RefusalExplained'
      BY <1>2 DEF Open, RefusalExplained
<1> QED
      BY <1>1, <1>2, <1>5, <1>6, <1>7, DiskKept DEF GenInv, LoopInv

\* A GPU that is not passed through, and the steps between the loop and Save().
LEMMA OtherStepsGen ==
  ASSUME GenInv, SkipDevice \/ GetSpec \/ Die \/ Rebind
  PROVE  GenInv'
<1>1. /\ GpuTypes /\ LoopInv /\ Open /\ OnDiskComplete /\ RefusalExplained /\ OnDiskExplained
      BY DEF GenInv
<1>2. UNCHANGED <<devices, path, deviceSpecs, cdi, result>>
      BY DEF SkipDevice, GetSpec, Die, Rebind, gen
<1>3. Done' = Done
  <2>1. CASE SkipDevice
    <3>1. /\ \A i \in DOMAIN devices : i \in Nat
          /\ idx \in Nat /\ idx' = idx + 1 /\ ~PassThrough(devices[idx])
          BY <1>1, <2>1 DEF SkipDevice, GpuTypes
    <3>2. \A i \in DOMAIN devices :
            (i < idx /\ PassThrough(devices[i])) <=> (i < idx' /\ PassThrough(devices[i]))
          BY <3>1
    <3> QED
          BY <1>2, <3>2 DEF Done
  <2>2. CASE GetSpec \/ Die \/ Rebind
        BY <1>2, <2>2 DEF GetSpec, Die, Rebind, gen, Done
  <2> QED
        BY <2>1, <2>2
<1>4. LoopInv' /\ OnDiskComplete' /\ OnDiskExplained'
      BY <1>1, <1>2, <1>3, LoopKept, DiskKept
<1>5. GpuTypes'
  <2>1. CASE Rebind
    <3>1. PICK i \in DOMAIN gpus, g \in Gpus :
             gpus' = [gpus EXCEPT ![i] = g] /\ Distinct(gpus')
          BY <2>1 DEF Rebind
    <3>2. gpus' \in Seq(Gpus)
      <4>1. PICK n \in Nat : gpus \in [1 .. n -> Gpus]
            BY <1>1 DEF GpuTypes
      <4>2. gpus' \in [1 .. n -> Gpus]
            BY <3>1, <4>1
      <4> QED
            BY <4>2
    <3> QED
          BY <1>1, <2>1, <3>1, <3>2 DEF GpuTypes, Rebind, gen
  <2>2. CASE SkipDevice
        BY <1>1, <2>2 DEF GpuTypes, SkipDevice
  <2>3. CASE GetSpec
        BY <1>1, <2>3 DEF GpuTypes, GetSpec
  <2>4. CASE Die
        BY <1>1, <2>4 DEF GpuTypes, Die
  <2> QED
        BY <2>1, <2>2, <2>3, <2>4
<1>6. Open'
      BY <1>1 DEF Open, SkipDevice, GetSpec, Die, Rebind, gen
<1>7. RefusalExplained'
  <2>1. CASE Die
        BY <1>1, <1>2, <2>1 DEF Open, RefusalExplained, Die
  <2>2. CASE Rebind
        BY <1>1, <1>2, <2>2 DEF RefusalExplained, Rebind, gen
  <2>3. CASE SkipDevice \/ GetSpec
    <3>1. stage' # "idle"
          BY <2>3 DEF SkipDevice, GetSpec
    <3> QED
          BY <3>1 DEF RefusalExplained
  <2> QED
        BY <2>1, <2>2, <2>3
<1> QED
      BY <1>4, <1>5, <1>6, <1>7 DEF GenInv

\* Every GPU that is passed through had its turn when the specification is saved.
LEMMA AllDone ==
  ASSUME GpuTypes, stage = "save"
  PROVE  Done = {i \in DOMAIN devices : PassThrough(devices[i])}
<1>1. \A i \in DOMAIN devices : i < idx
      BY DEF GpuTypes
<1> QED
      BY <1>1 DEF Done

\* What the library accepts has one GPU per key, and all of them.
LEMMA SaveGen ==
  ASSUME GenInv, Save
  PROVE  GenInv'
<1>1. /\ GpuTypes /\ LoopInv /\ AllOf /\ AllThere /\ SharedTwice
      BY DEF GenInv, LoopInv
<1>2. /\ stage = "save" /\ Valid(deviceSpecs) /\ cdi' = [entries |-> deviceSpecs, of |-> devices]
      /\ stage' = "idle" /\ result' = "saved"
      /\ UNCHANGED <<gpus, devices, idx, path, deviceSpecs>>
      BY DEF Save
<1>3. Done = {i \in DOMAIN devices : PassThrough(devices[i])} /\ Done' = Done
      BY <1>1, <1>2, AllDone DEF Done
<1>4. cdi'.entries = deviceSpecs /\ cdi'.of = devices
      BY <1>2
<1>5. OnDiskExplained'
  <2>1. ASSUME NEW k \in DOMAIN deviceSpecs PROVE EntryExplained(deviceSpecs[k], devices)
    <3>1. PICK i \in Done : IsOf(deviceSpecs[k], i)
          BY <1>1 DEF AllOf
    <3> QED
          BY <1>3, <3>1 DEF EntryExplained, IsOf
  <2> QED
        BY <1>4, <2>1 DEF OnDiskExplained
<1>6. OnDiskComplete'
  <2>1. \A i \in Done : KeysOf(i, devices[i]) \subseteq Names(deviceSpecs)
        BY <1>1 DEF AllThere
  <2>2. \A n : ~Twice(n)
        BY <1>2 DEF Twice, Valid
  <2>3. \A i, j \in Done : i # j => KeysOf(i, devices[i]) \intersect KeysOf(j, devices[j]) = {}
        BY <1>1, <2>2 DEF SharedTwice
  <2> QED
        BY <1>3, <1>4, <2>1, <2>3 DEF OnDiskComplete
<1>7. GpuTypes' /\ Open' /\ RefusalExplained'
      BY <1>1, <1>2 DEF GpuTypes, Open, RefusalExplained
<1>8. LoopInv'
      BY <1>1, <1>2, <1>3, LoopKept
<1> QED
      BY <1>5, <1>6, <1>7, <1>8 DEF GenInv

\* What it refuses has no GPU, one without a group, or two keys that are the same.
LEMMA RefuseGen ==
  ASSUME GenInv, RefuseSpec
  PROVE  GenInv'
<1>1. /\ GpuTypes /\ LoopInv /\ AllOf /\ AllThere /\ TwiceShared
      /\ OnDiskComplete /\ OnDiskExplained
      BY DEF GenInv, LoopInv
<1>2. /\ stage = "save" /\ ~Valid(deviceSpecs) /\ stage' = "idle"
      /\ UNCHANGED <<gpus, devices, idx, path, deviceSpecs, cdi>>
      BY DEF RefuseSpec
<1>3. Done = {i \in DOMAIN devices : PassThrough(devices[i])} /\ Done' = Done
      BY <1>1, <1>2, AllDone DEF Done
<1>4. deviceSpecs = << >> => Done = {}
  <2>1. SUFFICES ASSUME deviceSpecs = << >>, NEW i \in Done PROVE FALSE
        OBVIOUS
  <2>2. DOMAIN deviceSpecs = {}
        BY <2>1
  <2>3. Num(i - 1) \in Names(deviceSpecs)
        BY <1>1 DEF AllThere, KeysOf
  <2> QED
        BY <2>2, <2>3 DEF Names
<1>5. (\E k, l \in DOMAIN deviceSpecs : deviceSpecs[k].name = deviceSpecs[l].name /\ k # l) => Clash
      BY <1>1 DEF TwiceShared, Twice
<1>6. ASSUME NEW n \in Names(deviceSpecs), ~(n[2] >= 0)
      PROVE  \E i \in Done : devices[i].group < 0
  <2>1. PICK k \in DOMAIN deviceSpecs : n = deviceSpecs[k].name
        BY <1>6 DEF Names
  <2>2. PICK i \in Done : n \in KeysOf(i, devices[i])
        BY <1>1, <2>1 DEF AllOf, IsOf
  <2>3. /\ i - 1 >= 0 /\ devices[i].group \in Int
        /\ HasFd(devices[i]) => devices[i].fd \in Nat
    <3>1. i \in DOMAIN devices /\ devices \in Seq(Gpus)
          BY <1>1, <1>3, <2>2 DEF GpuTypes
    <3>2. i \in Nat \ {0} /\ devices[i] \in Gpus
          BY <3>1
    <3> QED
          BY <3>2, GpusTyped DEF HasFd
  <2>4. /\ Num(i - 1)[2] = i - 1 /\ Num(devices[i].group)[2] = devices[i].group
        /\ Vfio(devices[i].fd)[2] = devices[i].fd
        BY DEF Num, Vfio
  <2>5. n # Num(i - 1) /\ (HasFd(devices[i]) => n # Vfio(devices[i].fd))
        BY <1>6, <2>3, <2>4
  <2>6. n = Num(devices[i].group)
        BY <2>2, <2>5 DEF KeysOf
  <2> QED
        BY <1>6, <2>3, <2>4, <2>6
<1>7. Done = {} \/ (\E i \in Done : devices[i].group < 0) \/ Clash
  <2>1. \/ deviceSpecs = << >>
        \/ \E k, l \in DOMAIN deviceSpecs : deviceSpecs[k].name = deviceSpecs[l].name /\ k # l
        \/ \E n \in Names(deviceSpecs) : ~(n[2] >= 0)
        BY <1>2 DEF Valid
  <2> QED
        BY <1>4, <1>5, <1>6, <2>1
<1>8. RefusalExplained'
      BY <1>2, <1>3, <1>7 DEF RefusalExplained, Clash
<1>9. GpuTypes' /\ Open'
      BY <1>1, <1>2 DEF GpuTypes, Open
<1> QED
      BY <1>1, <1>2, <1>3, <1>8, <1>9, LoopKept, DiskKept DEF GenInv

\* Every step of generateCDISpec(), every death and every change of a GPU keeps it.
LEMMA StepGen == GenInv /\ [GenNext]_genVars => GenInv'
<1> SUFFICES ASSUME GenInv, [GenNext]_genVars PROVE GenInv'
    OBVIOUS
<1>1. CASE UNCHANGED genVars
  <2>1. UNCHANGED <<gpus, stage, devices, idx, path, deviceSpecs, cdi, result>>
        BY <1>1 DEF genVars, gen
  <2>2. Done' = Done /\ LoopInv /\ OnDiskComplete /\ OnDiskExplained
        BY <2>1 DEF Done, GenInv, LoopInv, OnDiskExplained
  <2>3. LoopInv' /\ OnDiskComplete' /\ OnDiskExplained'
        BY <2>1, <2>2, LoopKept, DiskKept
  <2>4. GpuTypes' /\ Open' /\ RefusalExplained'
        BY <2>1 DEF GenInv, GpuTypes, Open, RefusalExplained
  <2> QED
        BY <2>3, <2>4 DEF GenInv
<1> QED
      BY <1>1, GetGPUsGen, AddDeviceGen, OtherStepsGen, SaveGen, RefuseGen DEF GenNext

\* The inductive invariant, in every behaviour.
THEOREM GenInvariance == GenSpec => []GenInv
BY InitGen, StepGen, PTL DEF GenSpec

\* What the invariant says of the entries that are not on disk yet.
LEMMA MadeExplained == GenInv => EntriesExplained
<1> SUFFICES ASSUME GenInv PROVE EntriesExplained
    OBVIOUS
<1>1. ASSUME NEW k \in DOMAIN deviceSpecs PROVE EntryExplained(deviceSpecs[k], devices)
  <2>1. PICK i \in Done : IsOf(deviceSpecs[k], i)
        BY DEF GenInv, LoopInv, AllOf
  <2> QED
        BY <2>1 DEF EntryExplained, IsOf, Done
<1> QED
      BY <1>1 DEF GenInv, OnDiskExplained, EntriesExplained

\* Every entry, on disk or still in memory, is a key of a GPU that was passed
\* through and leads to its node, but for the GPU without IOMMUFD that comes after
\* one with it (lib-vfio.go:69-113).
THEOREM EntriesLeadToTheirGPU == GenSpec => []EntriesExplained
BY GenInvariance, MadeExplained, PTL

\* A specification on disk has all keys of its GPUs, and no key of two of them
\* (lib-vfio.go:98-111, main.go:486).
THEOREM OneGPUPerKey == GenSpec => []OnDiskComplete
<1>1. GenInv => OnDiskComplete
      BY DEF GenInv
<1> QED
    BY <1>1, GenInvariance, PTL

\* A worker is refused its specification for one of four reasons: no GPU is passed
\* through, one has no group, two share one, or one has the group of an index
\* (spec.Save, main.go:486).
THEOREM RefusedForAReason == GenSpec => []RefusalExplained
<1>1. GenInv => RefusalExplained
      BY DEF GenInv
<1> QED
    BY <1>1, GenInvariance, PTL

-----------------------------------------------------------------------------
(* The reference of an artifact.                                           *)

\* Where the first, or the last, c of a sequence is.
IsFirst(s, c, k) ==
  \/ k = 0 /\ \A i \in 1 .. Len(s) : s[i] # c
  \/ k \in 1 .. Len(s) /\ s[k] = c /\ \A i \in 1 .. Len(s) : s[i] = c => k <= i

IsLast(s, c, k) ==
  \/ k = 0 /\ \A i \in 1 .. Len(s) : s[i] # c
  \/ k \in 1 .. Len(s) /\ s[k] = c /\ \A i \in 1 .. Len(s) : s[i] = c => i <= k

\* A set of numbers has a least one, ...
LEMMA LeastIsOne ==
  ASSUME NEW S, S \subseteq Nat, S # {}
  PROVE  \E x \in S : \A y \in S : x <= y
<1> DEFINE R == OpToRel(<, Nat)
<1>1. IsWellFoundedOn(R, Nat)
      BY NatLessThanWellFounded
<1>2. PICK i \in S : \A j \in S : ~(<<j, i>> \in R)
      BY <1>1, WFMin
<1>3. \A j \in Nat : j < i => <<j, i>> \in R
      BY DEF OpToRel
<1> HIDE DEF R
<1>4. i \in Nat /\ \A j \in S : j \in Nat /\ ~(j < i)
      BY <1>2, <1>3, Zenon
<1> QED
      BY <1>4

\* ... and, if it is bounded, a greatest.
LEMMA GreatestIsOne ==
  ASSUME NEW n \in Nat, NEW S, S \subseteq 1 .. n, S # {}
  PROVE  \E x \in S : \A y \in S : y <= x
<1> DEFINE T == {n - x : x \in S}
<1>1. T \subseteq Nat /\ T # {}
  <2>1. \A x \in S : n - x \in Nat
    <3>1. \A x \in 1 .. n : n - x \in Nat
          OBVIOUS
    <3> QED
          BY <3>1
  <2>2. \E x : x \in S
        OBVIOUS
  <2> QED
        BY <2>1, <2>2, Zenon
<1>2. PICK z \in T : \A y \in T : z <= y
  <2> HIDE DEF T
  <2> QED
      BY <1>1, LeastIsOne
<1>3. PICK x \in S : z = n - x
      OBVIOUS
<1>4. \A y \in S : n - x <= n - y
      BY <1>2, <1>3
<1> QED
      BY <1>3, <1>4

\* What SelectInSeq() and SelectLastInSeq() find.
LEMMA FirstOfIs ==
  ASSUME NEW s \in Seq(Chars), NEW c
  PROVE  IsFirst(s, c, FirstOf(s, c))
<1> DEFINE I == {i \in 1 .. Len(s) : s[i] = c}
<1>1. FirstOf(s, c) = IF I # {} THEN Min(I) ELSE 0
      BY DEF FirstOf, SelectInSeq
<1>2. CASE I = {}
      BY <1>1, <1>2 DEF IsFirst
<1>3. CASE I # {}
  <2>1. Min(I) \in I /\ \A y \in I : Min(I) <= y
    <3>1. I \subseteq Nat
          OBVIOUS
    <3> HIDE DEF I
    <3>2. \E x \in I : \A y \in I : x <= y
          BY <1>3, <3>1, LeastIsOne
    <3> QED
          BY <3>2 DEF Min
  <2> QED
      BY <1>1, <1>3, <2>1 DEF IsFirst
<1> QED
      BY <1>2, <1>3

LEMMA LastOfIs ==
  ASSUME NEW s \in Seq(Chars), NEW c
  PROVE  IsLast(s, c, LastOf(s, c))
<1> DEFINE I == {i \in 1 .. Len(s) : s[i] = c}
<1>1. LastOf(s, c) = IF I # {} THEN Max(I) ELSE 0
      BY DEF LastOf, SelectLastInSeq
<1>2. CASE I = {}
      BY <1>1, <1>2 DEF IsLast
<1>3. CASE I # {}
  <2>1. Max(I) \in I /\ \A y \in I : Max(I) >= y
    <3>1. I \subseteq 1 .. Len(s) /\ Len(s) \in Nat
          OBVIOUS
    <3> HIDE DEF I
    <3>2. \E x \in I : \A y \in I : y <= x
          BY <1>3, <3>1, GreatestIsOne
    <3>3. \E x \in I : \A y \in I : x >= y
          BY <3>1, <3>2
    <3> QED
          BY <3>3 DEF Max
  <2>2. \A y \in I : y <= Max(I)
        BY <2>1
  <2> QED
      BY <1>1, <1>3, <2>1, <2>2 DEF IsLast
<1> QED
      BY <1>2, <1>3

\* There is one such place.
LEMMA PlaceIsOne ==
  ASSUME NEW s \in Seq(Chars), NEW c, NEW k, NEW l
  PROVE  /\ IsFirst(s, c, k) /\ IsFirst(s, c, l) => k = l
         /\ IsLast(s, c, k) /\ IsLast(s, c, l) => k = l
BY DEF IsFirst, IsLast

\* What SubSeq() cuts out.
LEMMA Cut ==
  ASSUME NEW s \in Seq(Chars), NEW i \in 1 .. Len(s) + 1, NEW j \in i - 1 .. Len(s)
  PROVE  /\ SubSeq(s, i, j) \in Seq(Chars) /\ Len(SubSeq(s, i, j)) = j - i + 1
         /\ \A k \in 1 .. j - i + 1 : SubSeq(s, i, j)[k] = s[i + k - 1]
<1>1. i \in Int /\ j \in Int /\ \A k \in i .. j : s[k] \in Chars
      OBVIOUS
<1>2. j - i + 1 = IF i <= j THEN j - i + 1 ELSE 0
      OBVIOUS
<1> QED
      BY <1>1, <1>2, SubSeqProperties

\* What is before and after a separator.
LEMMA BeforeIs ==
  ASSUME NEW s \in Seq(Chars), NEW i \in 1 .. Len(s)
  PROVE  /\ Before(s, i) \in Seq(Chars) /\ Len(Before(s, i)) = i - 1
         /\ \A k \in 1 .. i - 1 : Before(s, i)[k] = s[k]
<1>1. 1 \in 1 .. Len(s) + 1 /\ i - 1 \in 1 - 1 .. Len(s) /\ (i - 1) - 1 + 1 = i - 1
      OBVIOUS
<1>2. \A k \in 1 .. i - 1 : 1 + k - 1 = k
      OBVIOUS
<1> DEFINE b == SubSeq(s, 1, i - 1)
<1>3. /\ b \in Seq(Chars) /\ Len(b) = (i - 1) - 1 + 1
      /\ \A k \in 1 .. (i - 1) - 1 + 1 : b[k] = s[1 + k - 1]
      BY <1>1, Cut
<1>4. Before(s, i) = b
      BY DEF Before
<1> HIDE DEF b
<1> QED
      BY <1>1, <1>2, <1>3, <1>4

LEMMA AfterIs ==
  ASSUME NEW s \in Seq(Chars), NEW i \in 1 .. Len(s)
  PROVE  /\ After(s, i) \in Seq(Chars) /\ Len(After(s, i)) = Len(s) - i
         /\ \A k \in 1 .. Len(s) - i : After(s, i)[k] = s[i + k]
<1>1. i + 1 \in 1 .. Len(s) + 1 /\ Len(s) \in (i + 1) - 1 .. Len(s)
      /\ Len(s) - (i + 1) + 1 = Len(s) - i
      OBVIOUS
<1>2. \A k \in 1 .. Len(s) - i : (i + 1) + k - 1 = i + k
      OBVIOUS
<1> DEFINE a == SubSeq(s, i + 1, Len(s))
<1>3. /\ a \in Seq(Chars) /\ Len(a) = Len(s) - (i + 1) + 1
      /\ \A k \in 1 .. Len(s) - (i + 1) + 1 : a[k] = s[(i + 1) + k - 1]
      BY <1>1, Cut
<1>4. After(s, i) = a
      BY DEF After
<1> HIDE DEF a
<1> QED
      BY <1>1, <1>2, <1>3, <1>4

\* Cutting twice is cutting once.
LEMMA BeforeBefore ==
  ASSUME NEW s \in Seq(Chars), NEW i \in 1 .. Len(s), NEW k \in 1 .. i - 1
  PROVE  Before(Before(s, i), k) = Before(s, k)
<1> DEFINE b == Before(s, i)
<1>1. b \in Seq(Chars) /\ Len(b) = i - 1 /\ \A m \in 1 .. i - 1 : b[m] = s[m]
      BY BeforeIs
<1> HIDE DEF b
<1>2. /\ Before(b, k) \in Seq(Chars) /\ Len(Before(b, k)) = k - 1
      /\ \A m \in 1 .. k - 1 : Before(b, k)[m] = b[m]
      BY <1>1, BeforeIs
<1>3. /\ Before(s, k) \in Seq(Chars) /\ Len(Before(s, k)) = k - 1
      /\ \A m \in 1 .. k - 1 : Before(s, k)[m] = s[m]
  <2>1. k \in 1 .. Len(s)
        OBVIOUS
  <2> QED
        BY <2>1, BeforeIs
<1>4. \A m \in 1 .. k - 1 : Before(b, k)[m] = Before(s, k)[m]
  <2>1. \A m \in 1 .. k - 1 : m \in 1 .. i - 1
        OBVIOUS
  <2> QED
        BY <1>1, <1>2, <1>3, <2>1
<1>5. Before(b, k) = Before(s, k)
      BY <1>2, <1>3, <1>4, SeqEqual
<1> QED
      BY <1>5 DEF b

\* The host the library reads off the repository is the registry of the reference.
LEMMA HostIsRegistry ==
  ASSUME NEW s \in Seq(Chars), Separator(s) # 0, CanConnect(Before(s, Separator(s)))
  PROVE  /\ Host(Before(s, Separator(s))) = Before(s, FirstOf(s, "/"))
         /\ ParseRegistry(s) = Before(s, FirstOf(s, "/"))
<1> DEFINE sep == Separator(s)
           b   == Before(s, sep)
           k   == FirstOf(b, "/")
<1>1. sep \in 1 .. Len(s)
  <2>1. IsLast(s, "@", LastOf(s, "@")) /\ IsLast(s, ":", LastOf(s, ":"))
        BY LastOfIs
  <2> QED
        BY <2>1 DEF Separator, IsLast
<1> HIDE DEF sep
<1>2. b \in Seq(Chars) /\ Len(b) = sep - 1 /\ \A m \in 1 .. sep - 1 : b[m] = s[m]
      BY <1>1, BeforeIs
<1>3. CanConnect(b) /\ Host(b) = Before(b, k)
      BY DEF Host, sep
<1> HIDE DEF b
<1>4. IsFirst(b, "/", k) /\ k # 0
      BY <1>2, <1>3, FirstOfIs DEF CanConnect
<1> HIDE DEF k
<1>5. IsFirst(s, "/", k)
      BY <1>1, <1>2, <1>4 DEF IsFirst
<1>6. FirstOf(s, "/") = k
      BY <1>5, FirstOfIs, PlaceIsOne
<1>7. k \in 1 .. sep - 1
      BY <1>2, <1>4 DEF IsFirst
<1>8. Before(b, k) = Before(s, k)
      BY <1>1, <1>7, BeforeBefore DEF b
<1> QED
      BY <1>3, <1>4, <1>6, <1>8 DEF ParseRegistry, b, sep

\* The credentials are those of the caller, ...
OwnCreds ==
  \/ caller = "class" /\ secret = "" /\ creds = Nil
  \/ caller = "class" /\ secret = "stored" /\ creds = Entry(ParseRegistry(ref))
  \/ caller = "command" /\ creds \in Flags

\* ... the Artifact is that of the reference, which has a separator, ...
OwnArtifact ==
  /\ art # None => art = Artifact(ref)
  /\ step \in {"pull", "done"} => art = Artifact(ref) /\ Separator(ref) # 0
  /\ step = "panic" => Separator(ref) = 0

\* ... and the request is made from both.
OwnRequest ==
  step = "done" =>
    /\ CanConnect(art.repository)
    /\ request = [host |-> Host(art.repository), creds |-> Sent(art, Host(art.repository))]

\* The inductive invariant.
RefInv ==
  /\ ref \in Seq(Chars)
  /\ step \in {"new", "pull", "done"} => OwnCreds
  /\ OwnArtifact /\ OwnRequest

\* The invariant holds before anything is parsed.
LEMMA InitRef == RefInit => RefInv
<1> SUFFICES ASSUME RefInit PROVE RefInv
    OBVIOUS
<1>1. ref \in Seq(Chars)
  <2>1. PICK n \in 0 .. MaxLen : ref \in [1 .. n -> Chars]
        BY DEF RefInit, Refs
  <2>2. n \in Nat
        BY RefBounds
  <2> QED
        BY <2>1, <2>2
<1> QED
      BY <1>1 DEF RefInit, RefInv, OwnArtifact, OwnRequest

\* Every step of the two callers, and of NewArtifact() and Pull(), keeps it.
LEMMA StepRef == RefInv /\ [RefNext]_refVars => RefInv'
<1> SUFFICES ASSUME RefInv, [RefNext]_refVars PROVE RefInv'
    OBVIOUS
<1>1. CASE UNCHANGED refVars
  <2>1. /\ ref' = ref /\ secret' = secret /\ step' = step /\ caller' = caller
        /\ creds' = creds /\ art' = art /\ request' = request
        BY <1>1 DEF refVars
  <2>2. OwnCreds' <=> OwnCreds
        BY <2>1 DEF OwnCreds
  <2>3. OwnArtifact' /\ OwnRequest'
        BY <2>1 DEF RefInv, OwnArtifact, OwnRequest, Sent
  <2> QED
        BY <2>1, <2>2, <2>3 DEF RefInv
<1>2. CASE GetCredentials
      BY <1>2 DEF RefInv, OwnCreds, OwnArtifact, OwnRequest, GetCredentials
<1>3. CASE PullCommand
      BY <1>3 DEF RefInv, OwnCreds, OwnArtifact, OwnRequest, PullCommand
<1>4. CASE NewArtifact
  <2>1. /\ step = "new" /\ ref' = ref /\ secret' = secret /\ caller' = caller /\ creds' = creds
        /\ step' \in {"error", "panic", "pull"}
        BY <1>4 DEF NewArtifact
  <2>2. OwnCreds'
        BY <2>1 DEF RefInv, OwnCreds
  <2>3. OwnArtifact'
        BY <1>4, <2>1 DEF RefInv, OwnArtifact, NewArtifact
  <2> QED
        BY <2>1, <2>2, <2>3 DEF RefInv, OwnRequest
<1>5. CASE Pull
  <2>1. /\ step = "pull" /\ ref' = ref /\ secret' = secret /\ caller' = caller
        /\ creds' = creds /\ art' = art /\ step' \in {"error", "done"}
        BY <1>5 DEF Pull
  <2>2. OwnCreds'
        BY <2>1 DEF RefInv, OwnCreds
  <2>3. OwnArtifact'
        BY <2>1 DEF RefInv, OwnArtifact
  <2>4. OwnRequest'
    <3>1. SUFFICES ASSUME step' = "done" PROVE OwnRequest'
          BY DEF OwnRequest
    <3>2. /\ CanConnect(art.repository)
          /\ request' = [host |-> Host(art.repository), creds |-> Sent(art, Host(art.repository))]
          BY <1>5, <3>1 DEF Pull
    <3>3. Sent(art, Host(art.repository))' = Sent(art, Host(art.repository))
          BY <2>1 DEF Sent
    <3> QED
          BY <2>1, <3>2, <3>3 DEF OwnRequest
  <2> QED
        BY <2>1, <2>2, <2>3, <2>4 DEF RefInv
<1> QED
      BY <1>1, <1>2, <1>3, <1>4, <1>5 DEF RefNext

\* The inductive invariant, in every behaviour.
THEOREM RefInvariance == RefSpec => []RefInv
BY InitRef, StepRef, PTL DEF RefSpec

\* The host the library connects to is the registry the credentials were looked up
\* for, so the test of Pull() lets them through.
LEMMA RequestOwnCredentials == RefInv => OwnCredentials
<1> SUFFICES ASSUME RefInv, step = "done" PROVE OwnCredentials
    BY DEF OwnCredentials
<1> DEFINE own == Before(ref, FirstOf(ref, "/"))
<1>1. ref \in Seq(Chars) /\ OwnCreds /\ art = Artifact(ref) /\ Separator(ref) # 0
      BY DEF RefInv, OwnArtifact
<1>2. /\ art.repository = Before(ref, Separator(ref))
      /\ art.registry = ParseRegistry(ref)
      BY <1>1 DEF Artifact
<1>3. CanConnect(art.repository) /\ request.host = Host(art.repository)
      /\ request.creds = Sent(art, Host(art.repository))
      BY DEF RefInv, OwnRequest
<1>4. request.host = own /\ art.registry = own
      BY <1>1, <1>2, <1>3, HostIsRegistry
<1>5. request.creds = IF creds = Nil THEN Anonymous ELSE creds
      BY <1>3, <1>4 DEF Sent
<1>6. Entry(own) # Nil /\ Nil \notin Flags
      BY CredsDiffer DEF Entry, Flags
<1>7. /\ caller = "command" => request.creds = creds
      /\ caller # "command" => request.creds = IF secret = "" THEN Anonymous ELSE Entry(own)
      BY <1>1, <1>2, <1>4, <1>5, <1>6 DEF OwnCreds
<1> QED
      BY <1>4, <1>7 DEF OwnCredentials

\* The characters of a host, with its port or without.
LEMMA HostPortChars ==
  ASSUME NEW s \in Seq(Chars), HostPort(s)
  PROVE  \A k \in 1 .. Len(s) : s[k] \in {"n", ":"}
<1>1. CASE Name(s)
      BY <1>1 DEF Name
<1>2. CASE \E i \in DOMAIN s : s[i] = ":" /\ Name(Before(s, i)) /\ Name(After(s, i))
  <2>1. PICK i \in 1 .. Len(s) : s[i] = ":" /\ Name(Before(s, i)) /\ Name(After(s, i))
        BY <1>2
  <2> DEFINE b == Before(s, i)
             a == After(s, i)
  <2>2. \A k \in 1 .. i - 1 : s[k] = "n"
    <3>1. b \in Seq(Chars) /\ Len(b) = i - 1 /\ \A k \in 1 .. i - 1 : b[k] = s[k]
          BY BeforeIs
    <3>2. Name(b)
          BY <2>1
    <3> HIDE DEF b
    <3>3. \A k \in 1 .. i - 1 : b[k] = "n"
          BY <3>1, <3>2 DEF Name
    <3> QED
          BY <3>1, <3>3
  <2>3. \A k \in 1 .. Len(s) - i : s[i + k] = "n"
    <3>1. a \in Seq(Chars) /\ Len(a) = Len(s) - i /\ \A k \in 1 .. Len(s) - i : a[k] = s[i + k]
          BY AfterIs
    <3>2. Name(a)
          BY <2>1
    <3> HIDE DEF a
    <3>3. \A k \in 1 .. Len(s) - i : a[k] = "n"
          BY <3>1, <3>2 DEF Name
    <3> QED
          BY <3>1, <3>3
  <2>4. ASSUME NEW k \in 1 .. Len(s) PROVE s[k] \in {"n", ":"}
    <3>1. CASE k < i
      <4>1. k \in 1 .. i - 1
            BY <3>1
      <4> QED
            BY <2>2, <4>1
    <3>2. CASE k > i
      <4>1. k - i \in 1 .. Len(s) - i /\ i + (k - i) = k
            BY <3>2
      <4> QED
            BY <2>3, <4>1
    <3> QED
        BY <2>1, <3>1, <3>2
  <2> QED
        BY <2>4
<1> QED
      BY <1>1, <1>2 DEF HostPort

\* Where the parts of a reference of the documented form end.
LEMMA PartsOf ==
  ASSUME NEW s \in Seq(Chars), NEW i \in 1 .. Len(s), NEW j \in 1 .. Len(s), i < j, s[i] = "/",
         WellFormed(Before(s, i), SubSeq(s, i + 1, j - 1), s[j], After(s, j))
  PROVE  FirstOf(s, "/") = i /\ Separator(s) = j
<1>1. /\ HostPort(Before(s, i)) /\ Path(SubSeq(s, i + 1, j - 1))
      /\ s[j] \in {":", "@"} /\ Reference(s[j], After(s, j))
      BY DEF WellFormed
<1>2. \A k \in 1 .. i - 1 : s[k] \in {"n", ":"}
  <2>1. Before(s, i) \in Seq(Chars) /\ Len(Before(s, i)) = i - 1
        /\ \A k \in 1 .. i - 1 : Before(s, i)[k] = s[k]
        BY BeforeIs
  <2> QED
        BY <1>1, <2>1, HostPortChars
<1>3. \A k \in i + 1 .. j - 1 : s[k] \in {"n", "/"}
  <2> DEFINE p == SubSeq(s, i + 1, j - 1)
  <2>1. /\ i + 1 \in 1 .. Len(s) + 1 /\ j - 1 \in (i + 1) - 1 .. Len(s)
        /\ (j - 1) - (i + 1) + 1 = j - 1 - i
        OBVIOUS
  <2>2. p \in Seq(Chars) /\ Len(p) = j - 1 - i
        /\ \A k \in 1 .. j - 1 - i : p[k] = s[(i + 1) + k - 1]
        BY <2>1, Cut
  <2>3. \A k \in DOMAIN p : p[k] \in {"n", "/"}
        BY <1>1 DEF Path
  <2> HIDE DEF p
  <2>4. \A k \in 1 .. j - 1 - i : s[(i + 1) + k - 1] \in {"n", "/"}
    <3>1. DOMAIN p = 1 .. Len(p)
          BY <2>2
    <3>2. \A k \in 1 .. j - 1 - i : p[k] \in {"n", "/"}
          BY <2>2, <2>3, <3>1
    <3> QED
          BY <2>2, <3>2
  <2>5. \A k \in i + 1 .. j - 1 : k - i \in 1 .. j - 1 - i /\ (i + 1) + (k - i) - 1 = k
        OBVIOUS
  <2> QED
        BY <2>4, <2>5
<1>4. \A k \in j + 1 .. Len(s) : s[k] \in {"n", ":"} /\ (s[j] = ":" => s[k] = "n")
  <2> DEFINE t == After(s, j)
  <2>1. t \in Seq(Chars) /\ Len(t) = Len(s) - j /\ \A k \in 1 .. Len(s) - j : t[k] = s[j + k]
        BY AfterIs
  <2>2. s[j] = ":" => Name(t)
        BY <1>1 DEF Reference
  <2>3. s[j] # ":" => HostPort(t)
        BY <1>1 DEF Reference
  <2> HIDE DEF t
  <2>4. \A k \in 1 .. Len(t) : t[k] \in {"n", ":"} /\ (s[j] = ":" => t[k] = "n")
        BY <2>1, <2>2, <2>3, HostPortChars DEF Name
  <2>5. \A k \in j + 1 .. Len(s) : k - j \in 1 .. Len(s) - j /\ j + (k - j) = k
        OBVIOUS
  <2> QED
        BY <2>1, <2>4, <2>5
<1>5. \A k \in 1 .. Len(s) : \/ k \in 1 .. i - 1 \/ k = i \/ k \in i + 1 .. j - 1
                             \/ k = j \/ k \in j + 1 .. Len(s)
      OBVIOUS
<1>6. IsFirst(s, "/", i)
  <2>1. \A k \in 1 .. Len(s) : s[k] = "/" => i <= k
        BY <1>2, <1>5
  <2> QED
        BY <2>1 DEF IsFirst
<1>7. CASE s[j] = "@"
  <2>1. IsLast(s, "@", j)
    <3>1. \A k \in 1 .. Len(s) : s[k] = "@" => k <= j
          BY <1>4, <1>5
    <3> QED
          BY <1>7, <3>1 DEF IsLast
  <2>2. LastOf(s, "@") = j
        BY <2>1, LastOfIs, PlaceIsOne
  <2> QED
        BY <1>6, <2>2, FirstOfIs, PlaceIsOne DEF Separator
<1>8. CASE s[j] = ":"
  <2>1. IsLast(s, ":", j) /\ IsLast(s, "@", 0)
    <3>1. \A k \in 1 .. Len(s) : s[k] # "@" /\ (s[k] = ":" => k <= j)
          BY <1>2, <1>3, <1>4, <1>5, <1>8
    <3> QED
          BY <1>8, <3>1 DEF IsLast
  <2>2. LastOf(s, ":") = j /\ LastOf(s, "@") = 0
        BY <2>1, LastOfIs, PlaceIsOne
  <2> QED
        BY <1>6, <2>2, FirstOfIs, PlaceIsOne DEF Separator
<1> QED
      BY <1>1, <1>7, <1>8

\* A reference of the documented form is cut at the ends of its parts.
LEMMA CutIsParsed == RefInv => Parsed
<1> SUFFICES ASSUME RefInv, art # None \/ step = "panic",
                    NEW i \in DOMAIN ref, NEW j \in DOMAIN ref, i < j, ref[i] = "/",
                    WellFormed(Before(ref, i), SubSeq(ref, i + 1, j - 1), ref[j], After(ref, j))
             PROVE  art = [registry |-> Before(ref, i), repository |-> Before(ref, j),
                           tag |-> After(ref, j)]
    BY DEF Parsed
<1>1. ref \in Seq(Chars) /\ i \in 1 .. Len(ref) /\ j \in 1 .. Len(ref)
      BY DEF RefInv
<1>2. FirstOf(ref, "/") = i /\ Separator(ref) = j
      BY <1>1, PartsOf
<1>3. i # 0 /\ j # 0
      BY <1>1
<1>4. art = Artifact(ref)
      BY <1>2, <1>3 DEF RefInv, OwnArtifact
<1> QED
      BY <1>2, <1>3, <1>4 DEF Artifact, ParseRegistry

\* A reference of the documented form, of whatever length, is cut into the parts it
\* was written from (oras/pull.go:52-61).
THEOREM ReferenceIsCut == RefSpec => []Parsed
<1> QED
    BY RefInvariance, CutIsParsed, PTL

\* A registry gets the credentials that are its own, and no others, whatever the
\* reference and the secret are (secrets.go:60, oras/pull.go:47 and 81).
THEOREM CredentialsAreOwn == RefSpec => []OwnCredentials
<1> QED
    BY RefInvariance, RequestOwnCredentials, PTL

-----------------------------------------------------------------------------
(* SanitizeConfig().                                                       *)

\* The fold that the loop is, before its first turn ...
Untouched(c) == [classes |-> c, i |-> 1]

\* ... and after the turns of each of the sets of positions up to k.
TurnsUpTo(c, k, f) ==
  f = [s \in SUBSET (1 .. k) |->
         IF s = {} THEN Untouched(c) ELSE SanitizeTurn(f[s \ {Max(s)}], Max(s))]

\* Max() of the community modules, of positions.
LEMMA MaxIsGreatest ==
  ASSUME NEW n \in Nat, NEW s, s \subseteq 1 .. n, s # {}
  PROVE  Max(s) \in s /\ \A y \in s : y <= Max(s)
<1>1. \E x \in s : \A y \in s : x >= y
      BY GreatestIsOne
<1> QED
    BY <1>1 DEF Max

\* The last position is the one the fold takes off a set that has it.
LEMMA MaxIsLast ==
  ASSUME NEW n \in Nat, NEW s, s \subseteq 1 .. n, n \in s
  PROVE  Max(s) = n
<1>1. Max(s) \in s /\ n <= Max(s)
      BY MaxIsGreatest
<1>2. Max(s) \in 1 .. n
      BY <1>1
<1> QED
    BY <1>1, <1>2

\* The function the fold is defined by exists: it is extended by one turn ...
LEMMA TurnsExtend ==
  ASSUME NEW c, NEW k \in Nat, NEW f, TurnsUpTo(c, k, f)
  PROVE  \E g : TurnsUpTo(c, k + 1, g)
<1> DEFINE Rest(s) == s \ {k + 1}
           g == [s \in SUBSET (1 .. k + 1) |->
                   IF k + 1 \in s THEN SanitizeTurn(f[Rest(s)], k + 1) ELSE f[s]]
           Body(s) == IF s = {} THEN Untouched(c) ELSE SanitizeTurn(g[s \ {Max(s)}], Max(s))
<1>1. ASSUME NEW s \in SUBSET (1 .. k + 1)
      PROVE  g[s] = Body(s)
  <2>1. CASE k + 1 \in s
    <3>1. Max(s) = k + 1 /\ s # {}
      <4>1. k + 1 \in Nat /\ s \subseteq 1 .. (k + 1)
            OBVIOUS
      <4>2. Max(s) = k + 1
            BY <2>1, <4>1, MaxIsLast
      <4> QED
          BY <2>1, <4>2
    <3>2. Rest(s) \in SUBSET (1 .. k) /\ Rest(s) \in SUBSET (1 .. k + 1) /\ k + 1 \notin Rest(s)
          OBVIOUS
    <3>3. g[s] = SanitizeTurn(f[Rest(s)], k + 1) /\ g[Rest(s)] = f[Rest(s)]
          BY <2>1, <3>2, Zenon
    <3> QED
        BY <3>1, <3>3, Zenon
  <2>2. CASE k + 1 \notin s
    <3>1. s \in SUBSET (1 .. k)
          BY <2>2
    <3>2. g[s] = f[s]
          BY <2>2, Zenon
    <3>3. f[s] = IF s = {} THEN Untouched(c) ELSE SanitizeTurn(f[s \ {Max(s)}], Max(s))
          BY <3>1, Zenon DEF TurnsUpTo
    <3>4. s \ {Max(s)} \in SUBSET (1 .. k + 1) /\ k + 1 \notin s \ {Max(s)}
          BY <2>2
    <3>5. g[s \ {Max(s)}] = f[s \ {Max(s)}]
          BY <3>4, Zenon
    <3> QED
        BY <3>2, <3>3, <3>5, Zenon
  <2> QED
      BY <2>1, <2>2
<1>2. g = [s \in SUBSET (1 .. k + 1) |-> g[s]]
      OBVIOUS
<1>3. g = [s \in SUBSET (1 .. k + 1) |-> Body(s)]
  <2> HIDE DEF g
  <2>1. ASSUME NEW s \in SUBSET (1 .. k + 1)
        PROVE  g[s] = Body(s)
        BY <1>1
  <2> HIDE DEF Body
  <2> QED
      BY <1>2, <2>1
<1>4. TurnsUpTo(c, k + 1, g)
  <2> HIDE DEF g
  <2> QED
      BY <1>3, Zenon DEF TurnsUpTo
<1> QED
    BY <1>4, Zenon

\* ... and so for every number of turns, as there is no least one without it.
LEMMA TurnsExist ==
  ASSUME NEW c, NEW n \in Nat
  PROVE  \E f : TurnsUpTo(c, n, f)
<1> DEFINE Without == {k \in Nat : ~ \E f : TurnsUpTo(c, k, f)}
<1> SUFFICES ASSUME Without # {} PROVE FALSE
    OBVIOUS
<1>1. PICK k \in Without : \A j \in Without : k <= j
  <2>1. Without \subseteq Nat
        OBVIOUS
  <2> HIDE DEF Without
  <2> QED
      BY <2>1, LeastIsOne
<1>2. CASE k = 0
  <2> DEFINE f == [s \in SUBSET (1 .. 0) |-> Untouched(c)]
             g == [s \in SUBSET (1 .. 0) |->
                     IF s = {} THEN Untouched(c) ELSE SanitizeTurn(f[s \ {Max(s)}], Max(s))]
  <2>1. \A s \in SUBSET (1 .. 0) : s = {}
        OBVIOUS
  <2>2. f = g
        BY <2>1
  <2>3. TurnsUpTo(c, 0, f)
        BY <2>2, Zenon DEF TurnsUpTo
  <2> QED
      BY <1>2, <2>3, Zenon
<1>3. CASE k # 0
  <2>1. k - 1 \in Nat /\ k - 1 \notin Without /\ k - 1 + 1 = k
    <3>1. k \in Nat
          OBVIOUS
    <3> HIDE DEF Without
    <3> QED
        BY <1>1, <1>3, <3>1
  <2>2. \E f : TurnsUpTo(c, k - 1, f)
        BY <2>1, Zenon
  <2>3. \E g : TurnsUpTo(c, k - 1 + 1, g)
    <3> DEFINE j == k - 1
    <3>1. j \in Nat /\ \E f : TurnsUpTo(c, j, f)
          BY <2>1, <2>2
    <3> HIDE DEF j
    <3>2. \E g : TurnsUpTo(c, j + 1, g)
          BY <3>1, TurnsExtend
    <3> QED
        BY <3>2 DEF j
  <2>4. k \notin Without
        BY <2>1, <2>3
  <2> QED
      BY <2>4, Zenon
<1> QED
    BY <1>2, <1>3

\* What SanitizeConfig() leaves is what there is after all turns, cut at i.
LEMMA SanitizeIsTurns ==
  ASSUME NEW c \in Seq(Classes)
  PROVE  \E f : /\ TurnsUpTo(c, Len(c), f)
                /\ Sanitize(c) = SubSeq(f[1 .. Len(c)].classes, 1, f[1 .. Len(c)].i - 1)
<1> DEFINE n == Len(c)
           at == [k \in DOMAIN c |-> k]
           AsFolded(g, s) == IF s = {} THEN Untouched(c)
                             ELSE SanitizeTurn(g[s \ {Max(s)}], at[Max(s)])
           AsTurns(g, s) == IF s = {} THEN Untouched(c)
                            ELSE SanitizeTurn(g[s \ {Max(s)}], Max(s))
           IsFold(g) == g = [s \in SUBSET (DOMAIN at) |-> AsFolded(g, s)]
           F == CHOOSE g : IsFold(g)
<1>1. FoldLeftDomain(SanitizeTurn, [classes |-> c, i |-> 1], c) = F[DOMAIN at]
      BY DEF FoldLeftDomain, FoldLeft, MapThenFoldSet, Untouched
<1>2. DOMAIN c = 1 .. n /\ n \in Nat
      OBVIOUS
<1>3. DOMAIN at = 1 .. n
      BY <1>2
<1>4. PICK f : TurnsUpTo(c, n, f)
      BY <1>2, TurnsExist
<1>5. ASSUME NEW g, NEW s \in SUBSET (1 .. n)
      PROVE  AsFolded(g, s) = AsTurns(g, s)
  <2>1. CASE s = {}
        BY <2>1, Zenon
  <2>2. CASE s # {}
    <3>1. Max(s) \in DOMAIN c
          BY <2>2, <1>2, MaxIsGreatest
    <3>2. at[Max(s)] = Max(s)
          BY <3>1, Zenon
    <3> HIDE DEF at
    <3> QED
        BY <2>2, <3>2, Zenon
  <2> QED
      BY <2>1, <2>2
<1>6. \A g : [s \in SUBSET (1 .. n) |-> AsFolded(g, s)] = [s \in SUBSET (1 .. n) |-> AsTurns(g, s)]
  <2> HIDE DEF AsFolded, AsTurns
  <2> QED
      BY <1>5
<1>7. \A g : TurnsUpTo(c, n, g) <=> g = [s \in SUBSET (1 .. n) |-> AsTurns(g, s)]
      BY DEF TurnsUpTo
<1>8. \A g : IsFold(g) <=> TurnsUpTo(c, n, g)
  <2> HIDE DEF AsFolded, AsTurns, at
  <2> QED
      BY <1>3, <1>6, <1>7
<1>9. Sanitize(c) = SubSeq(F[1 .. n].classes, 1, F[1 .. n].i - 1)
      BY <1>1, <1>3, Zenon DEF Sanitize
<1>10. TurnsUpTo(c, n, F)
  <2> HIDE DEF IsFold
  <2> QED
      BY <1>4, <1>8, Zenon
<1> HIDE DEF F
<1> QED
    BY <1>9, <1>10, Zenon

\* How many of the first m classes are valid: where the last of them belongs.
Place(c, m) == Cardinality({k \in 1 .. m : ValidClass(c[k])})

\* No place before the first class ...
LEMMA PlaceNone ==
  ASSUME NEW c
  PROVE  Place(c, 0) = 0
<1>1. {k \in 1 .. 0 : ValidClass(c[k])} = {}
      OBVIOUS
<1> QED
    BY <1>1, FS_EmptySet DEF Place

\* ... and one more for a valid class.
LEMMA PlaceNext ==
  ASSUME NEW c, NEW m \in Nat \ {0}
  PROVE  /\ Place(c, m - 1) \in Nat
         /\ Place(c, m) = Place(c, m - 1) + (IF ValidClass(c[m]) THEN 1 ELSE 0)
<1> DEFINE S(n) == {k \in 1 .. n : ValidClass(c[k])}
<1>1. IsFiniteSet(S(m - 1)) /\ Cardinality(S(m - 1)) \in Nat
  <2>1. m - 1 \in Int /\ S(m - 1) \in SUBSET (1 .. (m - 1))
        OBVIOUS
  <2>2. IsFiniteSet(1 .. (m - 1))
        BY <2>1, FS_Interval
  <2> HIDE DEF S
  <2>3. IsFiniteSet(S(m - 1))
        BY <2>1, <2>2, FS_Subset
  <2> QED
      BY <2>3, FS_CardinalityType
<1>2. m \notin S(m - 1)
      OBVIOUS
<1>3. CASE ValidClass(c[m])
  <2>1. S(m) = S(m - 1) \union {m}
        BY <1>3
  <2> HIDE DEF S
  <2>2. Cardinality(S(m)) = Cardinality(S(m - 1)) + 1
        BY <1>1, <1>2, <2>1, FS_AddElement
  <2> QED
      BY <1>1, <1>3, <2>2 DEF Place, S
<1>4. CASE ~ValidClass(c[m])
  <2>1. S(m) = S(m - 1)
        BY <1>4
  <2> HIDE DEF S
  <2>2. Cardinality(S(m)) = Cardinality(S(m - 1))
        BY <2>1
  <2> QED
      BY <1>1, <1>4, <2>2 DEF Place, S
<1> QED
    BY <1>3, <1>4

\* The state of the loop after k turns.
Compacted(c, k, acc) ==
  /\ acc.i \in 1 .. (k + 1)
  /\ acc.i = Place(c, k) + 1
  /\ acc.classes \in [1 .. Len(c) -> Classes]
  /\ \A m \in 1 .. Len(c) : m > k => acc.classes[m] = c[m]
  /\ \A m \in 1 .. Len(c) : m <= k /\ ValidClass(c[m]) =>
       /\ Place(c, m) \in 1 .. Len(c) /\ Place(c, m) < acc.i
       /\ acc.classes[Place(c, m)] = c[m]
  /\ \A p \in 1 .. Len(c) : p < acc.i =>
       \E m \in 1 .. Len(c) : m <= k /\ ValidClass(c[m]) /\ p = Place(c, m)

\* A turn writes at i, which it has read already: of what is before i, and of what it
\* has still to read, nothing changes.
LEMMA TurnCompacts ==
  ASSUME NEW c \in Seq(Classes), NEW k \in 1 .. Len(c), NEW acc,
         Compacted(c, k - 1, acc)
  PROVE  Compacted(c, k, SanitizeTurn(acc, k))
<1> DEFINE n == Len(c)
<1>1. /\ acc.i \in 1 .. k /\ acc.i \in 1 .. n
      /\ acc.i = Place(c, k - 1) + 1
      /\ acc.classes \in [1 .. n -> Classes]
      /\ \A m \in 1 .. n : m > k - 1 => acc.classes[m] = c[m]
      /\ \A m \in 1 .. n : m <= k - 1 /\ ValidClass(c[m]) =>
           /\ Place(c, m) \in 1 .. n /\ Place(c, m) < acc.i
           /\ acc.classes[Place(c, m)] = c[m]
      /\ \A p \in 1 .. n : p < acc.i =>
           \E m \in 1 .. n : m <= k - 1 /\ ValidClass(c[m]) /\ p = Place(c, m)
      BY DEF Compacted
<1>2. acc.classes[k] = c[k]
      BY <1>1
<1>3. /\ Place(c, k - 1) \in Nat
      /\ Place(c, k) = Place(c, k - 1) + (IF ValidClass(c[k]) THEN 1 ELSE 0)
  <2>1. k \in Nat \ {0}
        OBVIOUS
  <2> QED
      BY <2>1, PlaceNext
<1>4. CASE ~ValidClass(c[k])
  <2>1. SanitizeTurn(acc, k) = acc
        BY <1>2, <1>4 DEF SanitizeTurn
  <2>2. \A m \in 1 .. n : m <= k /\ ValidClass(c[m]) => m <= k - 1
        BY <1>4
  <2>3. /\ acc.i \in 1 .. (k + 1)
        /\ \A m \in 1 .. n : m > k => m > k - 1
        /\ \A m \in 1 .. n : m <= k - 1 => m <= k
        BY <1>1
  <2>4. Place(c, k) = Place(c, k - 1)
        BY <1>3, <1>4
  <2>5. \A p \in 1 .. n : p < acc.i =>
          \E m \in 1 .. n : m <= k /\ ValidClass(c[m]) /\ p = Place(c, m)
        BY <1>1, <2>3
  <2>6. \A m \in 1 .. n : m <= k /\ ValidClass(c[m]) =>
           /\ Place(c, m) \in 1 .. n /\ Place(c, m) < acc.i
           /\ acc.classes[Place(c, m)] = c[m]
        BY <1>1, <2>2
  <2> QED
      BY <1>1, <2>1, <2>3, <2>4, <2>5, <2>6 DEF Compacted
<1>5. CASE ValidClass(c[k])
  <2> DEFINE cs == [acc.classes EXCEPT ![acc.i] = c[k]]
             new == SanitizeTurn(acc, k)
  <2>1. new = [classes |-> cs, i |-> acc.i + 1]
        BY <1>2, <1>5 DEF SanitizeTurn
  <2>2. c[k] \in Classes
        OBVIOUS
  <2>3. cs \in [1 .. n -> Classes] /\ cs[acc.i] = c[k]
        BY <1>1, <2>2
  <2>4. \A m \in 1 .. n : m # acc.i => cs[m] = acc.classes[m]
        BY <1>1
  <2>5. new.i = acc.i + 1 /\ new.classes = cs
        BY <2>1
  <2>6. Place(c, k) = acc.i /\ acc.i < acc.i + 1
        BY <1>1, <1>3, <1>5
  <2> HIDE DEF cs, new
  <2>7. new.i \in 1 .. (k + 1) /\ new.i = Place(c, k) + 1
        BY <1>1, <2>5, <2>6
  <2>8. ASSUME NEW m \in 1 .. n, m > k
        PROVE  cs[m] = c[m]
        BY <1>1, <2>4, <2>8
  <2>9. ASSUME NEW m \in 1 .. n, m <= k, ValidClass(c[m])
        PROVE  /\ Place(c, m) \in 1 .. n /\ Place(c, m) < acc.i + 1
               /\ cs[Place(c, m)] = c[m]
    <3>1. CASE m = k
          BY <1>1, <2>3, <2>6, <3>1
    <3>2. CASE m # k
      <4>1. m <= k - 1
            BY <2>9, <3>2
      <4>2. /\ Place(c, m) \in 1 .. n /\ Place(c, m) < acc.i
            /\ acc.classes[Place(c, m)] = c[m]
            BY <1>1, <2>9, <4>1
      <4>3. Place(c, m) < acc.i + 1 /\ Place(c, m) # acc.i
            BY <1>1, <4>2
      <4> QED
          BY <2>4, <4>2, <4>3
    <3> QED
        BY <3>1, <3>2
  <2>10. ASSUME NEW p \in 1 .. n, p < acc.i + 1
         PROVE  \E m \in 1 .. n : m <= k /\ ValidClass(c[m]) /\ p = Place(c, m)
    <3>1. CASE p = acc.i
          BY <1>5, <2>6, <3>1
    <3>2. CASE p # acc.i
      <4>1. p < acc.i
            BY <1>1, <2>10, <3>2
      <4>2. PICK m \in 1 .. n : m <= k - 1 /\ ValidClass(c[m]) /\ p = Place(c, m)
            BY <1>1, <4>1
      <4>3. m <= k
            BY <4>2
      <4> QED
          BY <4>2, <4>3
    <3> QED
        BY <3>1, <3>2
  <2>11. Compacted(c, k, new)
         BY <2>3, <2>5, <2>7, <2>8, <2>9, <2>10 DEF Compacted
  <2> QED
      BY <2>11 DEF new
<1> QED
    BY <1>4, <1>5

\* After each turn.
LEMMA TurnsCompact ==
  ASSUME NEW c \in Seq(Classes), NEW f, TurnsUpTo(c, Len(c), f), NEW k \in 0 .. Len(c)
  PROVE  Compacted(c, k, f[1 .. k])
<1> DEFINE n == Len(c)
           Off == {j \in 0 .. n : ~Compacted(c, j, f[1 .. j])}
<1> SUFFICES ASSUME Off # {} PROVE FALSE
    OBVIOUS
<1>1. PICK j \in Off : \A m \in Off : j <= m
  <2>1. Off \subseteq Nat
        OBVIOUS
  <2> HIDE DEF Off
  <2> QED
      BY <2>1, LeastIsOne
<1>2. CASE j = 0
  <2>1. 1 .. 0 = {} /\ {} \in SUBSET (1 .. n)
        OBVIOUS
  <2>2. f[1 .. 0] = Untouched(c)
        BY <2>1, Zenon DEF TurnsUpTo
  <2>3. c \in [1 .. n -> Classes]
        OBVIOUS
  <2>4. Compacted(c, 0, Untouched(c))
        BY <2>3, PlaceNone DEF Compacted, Untouched
  <2> QED
      BY <1>2, <2>2, <2>4
<1>3. CASE j # 0
  <2>1. j \in 1 .. n /\ j - 1 \in 0 .. n /\ ~(j <= j - 1)
        BY <1>3
  <2>2. j - 1 \notin Off
    <3> HIDE DEF Off
    <3> QED
        BY <1>1, <2>1
  <2>3. Compacted(c, j - 1, f[1 .. (j - 1)])
        BY <2>1, <2>2
  <2>4. 1 .. j \in SUBSET (1 .. n) /\ 1 .. j # {} /\ j \in 1 .. j
        BY <2>1
  <2>5. Max(1 .. j) = j
    <3>1. j \in Nat /\ 1 .. j \subseteq 1 .. j
          BY <2>1
    <3> QED
        BY <2>4, <3>1, MaxIsLast
  <2>6. (1 .. j) \ {j} = 1 .. (j - 1)
        BY <2>1
  <2>7. f[1 .. j] = SanitizeTurn(f[(1 .. j) \ {Max(1 .. j)}], Max(1 .. j))
        BY <2>4, Zenon DEF TurnsUpTo
  <2>8. f[1 .. j] = SanitizeTurn(f[1 .. (j - 1)], j)
        BY <2>5, <2>6, <2>7, Zenon
  <2>9. Compacted(c, j, SanitizeTurn(f[1 .. (j - 1)], j))
        BY <2>1, <2>3, TurnCompacts
  <2> QED
      BY <2>8, <2>9
<1> QED
    BY <1>2, <1>3

\* SanitizeConfig() keeps the valid classes, each at its place, and nothing else.
THEOREM SanitizeKeepsValid ==
  ASSUME NEW c \in Seq(Classes)
  PROVE  /\ Sanitize(c) \in Seq(Classes)
         /\ \A m \in DOMAIN c : ValidClass(c[m]) =>
              Place(c, m) \in DOMAIN Sanitize(c) /\ Sanitize(c)[Place(c, m)] = c[m]
         /\ \A p \in DOMAIN Sanitize(c) :
              \E m \in DOMAIN c : ValidClass(c[m]) /\ p = Place(c, m)
<1> DEFINE n == Len(c)
<1>1. PICK f : /\ TurnsUpTo(c, n, f)
               /\ Sanitize(c) = SubSeq(f[1 .. n].classes, 1, f[1 .. n].i - 1)
      BY SanitizeIsTurns
<1> DEFINE end == f[1 .. n]
           l == end.i - 1
           s == SubSeq(end.classes, 1, l)
<1>2. n \in 0 .. n /\ n \in Nat /\ DOMAIN c = 1 .. n /\ \A m \in 1 .. n : m <= n
      OBVIOUS
<1>3. Compacted(c, n, end)
      BY <1>1, <1>2, TurnsCompact
<1>4. Sanitize(c) = s
      BY <1>1
<1> HIDE DEF end
<1>5. end.i \in 1 .. (n + 1) /\ end.classes \in [1 .. n -> Classes]
      BY <1>3 DEF Compacted
<1>6. end.classes \in Seq(Classes) /\ Len(end.classes) = n /\ l \in 0 .. n
      BY <1>2, <1>5
<1>7. /\ s \in Seq(Classes) /\ Len(s) = l
      /\ \A p \in 1 .. l : s[p] = end.classes[p]
      BY <1>6
<1> HIDE DEF s
<1>8. DOMAIN s = 1 .. l
      BY <1>7
<1>9. \A p \in 1 .. n : p < end.i <=> p \in 1 .. l
      BY <1>5
<1>10. \A p \in 1 .. l : p \in 1 .. n
       BY <1>6
<1>11. ASSUME NEW m \in DOMAIN c, ValidClass(c[m])
       PROVE  Place(c, m) \in DOMAIN s /\ s[Place(c, m)] = c[m]
  <2>1. /\ Place(c, m) \in 1 .. n /\ Place(c, m) < end.i
        /\ end.classes[Place(c, m)] = c[m]
        BY <1>2, <1>3, <1>11 DEF Compacted
  <2>2. Place(c, m) \in 1 .. l
        BY <1>9, <2>1
  <2> QED
      BY <1>7, <1>8, <2>1, <2>2
<1>12. ASSUME NEW p \in DOMAIN s
       PROVE  \E m \in DOMAIN c : ValidClass(c[m]) /\ p = Place(c, m)
  <2>1. p \in 1 .. n /\ p < end.i
        BY <1>8, <1>9, <1>10, <1>12
  <2> QED
      BY <1>2, <1>3, <2>1 DEF Compacted
<1> QED
    BY <1>4, <1>7, <1>11, <1>12

-----------------------------------------------------------------------------
(* What the configuration of a worker decides.                             *)

\* A directory a worker can be given, or is not yet.
Dirs == {NoDir, DefaultDir} \union {c.artifactsDir : c \in ConfigMaps \ {NoConfig}}

\* Where a worker can be.
PodStates == {"down", "init", "flock", "load", "loop", "wait", "unload", "remove", "panicked"}

\* What is known of a worker.
PodRecords ==
  [pc : PodStates, dir : Dirs, classes : Seq(Classes), i : Nat \ {0},
   tree : [ClassNames -> Dirs] \union {<< >>}, file : Files \union {NoFile},
   listed : Seq(Classes), crossed : BOOLEAN]

\* Type correctness.
SetupTypes ==
  configMap \in ConfigMaps /\ entries \in [ClassNames -> Dirs] /\ proc \in [Pods -> PodRecords]

\* What a worker kept of the classes it was given.
ListKept(r) ==
  /\ \A m \in DOMAIN r.listed : ValidClass(r.listed[m]) =>
       \E p \in DOMAIN r.classes : r.classes[p] = r.listed[m]
  /\ \A p \in DOMAIN r.classes : r.classes[p].name \in ClassNames

\* The loop adds to what was loaded, a class at a time from the first one.
TreeFilled(rt, r) ==
  /\ r.pc \in {"init", "flock", "load"} => r.i = 1
  /\ r.pc \in {"wait", "unload", "remove"} => rt \in Supported
  /\ r.pc \in {"loop", "remove"} /\ rt \in Supported => r.tree \in [ClassNames -> Dirs]
  /\ r.pc = "loop" /\ rt \in Supported =>
       \A k \in DOMAIN r.classes : k < r.i => r.tree[r.classes[k].name] = r.dir

\* What a worker wrote is still there while it waits.
Written(e, r) ==
  r.pc = "wait" /\ ~r.crossed =>
    \A k \in DOMAIN r.classes : e[r.classes[k].name] = r.dir

\* Two workers that run at the same time are crossed: the one that came later had
\* another pid file than the one that was there.
Apart ==
  \A v, w \in Pods : v # w /\ Running(v) /\ Running(w) =>
    proc[v].crossed /\ proc[w].crossed

\* The inductive invariant: Written needs TreeFilled when the tree is saved, ListKept to
\* speak of the config map, and Apart as others save as well.
SetupInv ==
  /\ SetupTypes /\ Apart
  /\ \A w \in Pods :
       ListKept(proc[w]) /\ TreeFilled(runtime, proc[w]) /\ Written(entries, proc[w])

\* A worker before configure().
LEMMA FreshIs ==
  /\ Fresh \in PodRecords
  /\ Fresh.pc = "down" /\ Fresh.i = 1 /\ Fresh.classes = << >> /\ Fresh.listed = << >>
BY DEF Fresh, PodRecords, PodStates, Dirs

\* It holds at first.
LEMMA SetupInitInv == SetupInit => SetupInv
<1> SUFFICES ASSUME SetupInit PROVE SetupInv
    OBVIOUS
<1> USE DEF SetupInit
<1>1. \A w \in Pods : proc[w] = Fresh
      OBVIOUS
<1>2. SetupTypes
      BY FreshIs DEF SetupTypes, Dirs
<1>3. ListKept(Fresh) /\ TreeFilled(runtime, Fresh) /\ Written(entries, Fresh)
      BY FreshIs DEF ListKept, TreeFilled, Written
<1>4. Apart
      BY <1>1, FreshIs DEF Apart, Running
<1> QED
    BY <1>1, <1>2, <1>3, <1>4 DEF SetupInv

\* A step of the pod w, after which it is as r says.
LEMMA PodStep ==
  ASSUME SetupInv, NEW w \in Pods, NEW r \in PodRecords,
         Becomes(w, r), UNCHANGED <<configMap, runtime>>,
         entries' \in [ClassNames -> Dirs], Running(w) \/ UNCHANGED entries,
         ListKept(r), TreeFilled(runtime, r), Written(entries', r),
         r.pc \in {"load", "loop", "wait", "unload", "remove"} =>
           Running(w) /\ r.dir = proc[w].dir /\ r.crossed = proc[w].crossed
  PROVE  SetupInv'
<1>1. /\ proc \in [Pods -> PodRecords] /\ configMap' \in ConfigMaps
      /\ configMap' = configMap /\ runtime' = runtime
      BY DEF SetupInv, SetupTypes
<1>2. /\ proc' \in [Pods -> PodRecords] /\ proc'[w] = r
      /\ \A v \in Pods \ {w} : proc'[v] = proc[v]
      BY <1>1 DEF Becomes
<1>3. SetupTypes'
      BY <1>1, <1>2 DEF SetupTypes
<1>4. \A v \in Pods : Running(v)' =>
        Running(v) /\ proc'[v].crossed = proc[v].crossed
      BY <1>2 DEF Running
<1>5. Apart'
      BY <1>4 DEF SetupInv, Apart
<1>6. ASSUME NEW v \in Pods
      PROVE  /\ ListKept(proc'[v]) /\ TreeFilled(runtime', proc'[v])
             /\ Written(entries', proc'[v])
  <2>1. CASE v = w
        BY <1>1, <1>2, <2>1
  <2>2. CASE v # w
    <3>1. /\ proc'[v] = proc[v]
          /\ ListKept(proc[v]) /\ TreeFilled(runtime, proc[v]) /\ Written(entries, proc[v])
          BY <1>2, <2>2 DEF SetupInv
    <3>2. Written(entries', proc[v])
      <4>1. CASE UNCHANGED entries
            BY <3>1, <4>1
      <4>2. CASE Running(w)
        <5>1. proc[v].pc = "wait" => proc[v].crossed
              BY <2>2, <4>2 DEF SetupInv, Apart, Running
        <5> QED
            BY <5>1 DEF Written
      <4> QED
          BY <4>1, <4>2
    <3> QED
        BY <1>1, <3>1, <3>2
  <2> QED
      BY <2>1, <2>2
<1>7. (\A v \in Pods :
         ListKept(proc[v]) /\ TreeFilled(runtime, proc[v]) /\ Written(entries, proc[v]))'
      BY <1>6
<1> QED
    BY <1>3, <1>5, <1>7 DEF SetupInv

\* A pod that starts again, or has ended.
LEMMA StartsAgain ==
  ASSUME SetupInv, NEW w \in Pods, NEW p \in {"down", "panicked"},
         Becomes(w, [Fresh EXCEPT !.pc = p]), UNCHANGED <<configMap, runtime>>,
         entries' \in [ClassNames -> Dirs], Running(w) \/ UNCHANGED entries
  PROVE  SetupInv'
<1> DEFINE r == [Fresh EXCEPT !.pc = p]
<1>1. r \in PodRecords /\ r.pc = p /\ r.classes = << >> /\ r.listed = << >>
      BY FreshIs DEF PodRecords, PodStates
<1>2. Becomes(w, r)
      OBVIOUS
<1> HIDE DEF r
<1>3. ListKept(r) /\ TreeFilled(runtime, r) /\ Written(entries', r)
      BY <1>1 DEF ListKept, TreeFilled, Written
<1> QED
    BY <1>1, <1>2, <1>3, PodStep

\* A fresh worker is one that is down.
LEMMA FreshIsDown == Fresh = [Fresh EXCEPT !.pc = "down"]
BY FreshIs DEF PodRecords

\* configure(): the classes it keeps are those of the config map that are valid.
LEMMA ConfigureKeeps ==
  ASSUME SetupInv, NEW w \in Pods, Configure(w)
  PROVE  SetupInv'
<1> DEFINE dir == IF configMap = NoConfig \/ configMap.artifactsDir = Unset THEN DefaultDir
                  ELSE configMap.artifactsDir
           listed == IF configMap = NoConfig THEN << >> ELSE configMap.runtimeClasses
           kept == Sanitize(listed)
           r == [Fresh EXCEPT !.pc = "init", !.dir = dir, !.classes = kept, !.listed = listed]
<1>1. Becomes(w, r) /\ UNCHANGED <<configMap, runtime, entries>>
      BY DEF Configure
<1>2. configMap \in ConfigMaps /\ entries \in [ClassNames -> Dirs]
      BY DEF SetupInv, SetupTypes
<1>3. dir \in Dirs
      BY <1>2 DEF Dirs
<1>4. listed \in Seq(Classes)
      BY <1>2, ConfigMapsTyped
<1> HIDE DEF dir, listed
<1>5. /\ kept \in Seq(Classes)
      /\ \A m \in DOMAIN listed : ValidClass(listed[m]) => \E p \in DOMAIN kept : kept[p] = listed[m]
      /\ \A p \in DOMAIN kept : ValidClass(kept[p])
      BY <1>4, SanitizeKeepsValid
<1>6. \A p \in DOMAIN kept : kept[p].name \in ClassNames
  <2>1. ASSUME NEW p \in DOMAIN kept
        PROVE  kept[p].name \in ClassNames
    <3>1. kept[p] \in Classes /\ ValidClass(kept[p])
          BY <1>5
    <3> QED
        BY <3>1 DEF Classes, ValidClass
  <2> QED
      BY <2>1
<1> HIDE DEF kept
<1>7. r \in PodRecords
      BY <1>3, <1>4, <1>5, FreshIs DEF PodRecords, PodStates
<1>8. r.pc = "init" /\ r.classes = kept /\ r.listed = listed /\ r.i = 1
      BY FreshIs DEF PodRecords
<1> HIDE DEF r
<1>9. ListKept(r)
      BY <1>5, <1>6, <1>8 DEF ListKept
<1>10. TreeFilled(runtime, r) /\ Written(entries', r)
       BY <1>8 DEF TreeFilled, Written
<1> QED
    BY <1>1, <1>2, <1>7, <1>8, <1>9, <1>10, PodStep

\* The pid file is opened.
LEMMA OpenPidFileKeeps ==
  ASSUME SetupInv, NEW w \in Pods, OpenPidFile(w)
  PROVE  SetupInv'
<1> DEFINE q == proc[w]
<1>1. /\ entries \in [ClassNames -> Dirs] /\ q \in PodRecords
      /\ ListKept(q) /\ TreeFilled(runtime, q)
      BY DEF SetupInv, SetupTypes
<1>2. q.pc = "init" /\ UNCHANGED <<configMap, runtime, entries>>
      BY DEF OpenPidFile, At
<1>3. PICK f \in Files : Becomes(w, [q EXCEPT !.pc = "flock", !.file = f])
      BY DEF OpenPidFile
<1> DEFINE r == [q EXCEPT !.pc = "flock", !.file = f]
<1> HIDE DEF q
<1>4. /\ r \in PodRecords /\ r.pc = "flock" /\ r.i = q.i
      /\ r.classes = q.classes /\ r.listed = q.listed
      BY <1>1 DEF PodRecords, PodStates
<1> HIDE DEF r
<1>5. ListKept(r) /\ TreeFilled(runtime, r) /\ Written(entries', r)
      BY <1>1, <1>2, <1>4 DEF ListKept, TreeFilled, Written
<1> QED
    BY <1>1, <1>2, <1>3, <1>4, <1>5, PodStep DEF r

\* It is closed, which no one notices.
LEMMA FinalizedKeeps ==
  ASSUME SetupInv, NEW w \in Pods, Finalized(w)
  PROVE  SetupInv'
<1> DEFINE q == proc[w]
           r == [q EXCEPT !.file = NoFile]
<1>1. /\ entries \in [ClassNames -> Dirs] /\ q \in PodRecords
      /\ ListKept(q) /\ TreeFilled(runtime, q) /\ Written(entries, q)
      BY DEF SetupInv, SetupTypes
<1>2. Running(w) /\ Becomes(w, r) /\ UNCHANGED <<configMap, runtime, entries>>
      BY DEF Finalized
<1> HIDE DEF q
<1>3. /\ r \in PodRecords /\ r.pc = q.pc /\ r.tree = q.tree /\ r.i = q.i
      /\ r.dir = q.dir /\ r.crossed = q.crossed
      /\ r.classes = q.classes /\ r.listed = q.listed
      BY <1>1 DEF PodRecords
<1> HIDE DEF r
<1>4. ListKept(r)
      BY <1>1, <1>3 DEF ListKept
<1>5. TreeFilled(runtime, r)
      BY <1>1, <1>3 DEF TreeFilled
<1>6. Written(entries', r)
      BY <1>1, <1>2, <1>3 DEF Written
<1> QED
    BY <1>1, <1>2, <1>3, <1>4, <1>5, <1>6, PodStep DEF q

\* The ends of a worker, that of CleanUp() with what it saves.
LEMMA EndsKeep ==
  ASSUME SetupInv, NEW w \in Pods, Refused(w) \/ Panic(w) \/ RemoveRuntimes(w) \/ Ended(w)
  PROVE  SetupInv'
<1>1. entries \in [ClassNames -> Dirs] /\ proc[w] \in PodRecords
      BY DEF SetupInv, SetupTypes
<1>2. CASE Refused(w) \/ Ended(w)
  <2>1. Becomes(w, Fresh) /\ UNCHANGED <<configMap, runtime, entries>>
        BY <1>2 DEF Refused, Ended
  <2> QED
      BY <1>1, <2>1, FreshIsDown, StartsAgain
<1>3. CASE Panic(w)
  <2>1. Becomes(w, [Fresh EXCEPT !.pc = "panicked"]) /\ UNCHANGED <<configMap, runtime, entries>>
        BY <1>3 DEF Panic
  <2> QED
      BY <1>1, <2>1, StartsAgain
<1>4. CASE RemoveRuntimes(w)
  <2>1. /\ proc[w].pc = "remove" /\ Becomes(w, Fresh) /\ UNCHANGED <<configMap, runtime>>
        /\ entries' = [n \in ClassNames |->
             IF \E k \in DOMAIN proc[w].classes : proc[w].classes[k].name = n THEN NoDir
             ELSE proc[w].tree[n]]
        BY <1>4 DEF RemoveRuntimes, At
  <2>2. proc[w].tree \in [ClassNames -> Dirs]
        BY <2>1 DEF SetupInv, TreeFilled
  <2>3. entries' \in [ClassNames -> Dirs]
        BY <2>1, <2>2 DEF Dirs
  <2>4. Running(w)
        BY <2>1 DEF Running
  <2> QED
      BY <2>1, <2>3, <2>4, FreshIsDown, StartsAgain
<1> QED
    BY <1>2, <1>3, <1>4

\* getRuntimeConfig(): the tree is that of the file, and no class is added yet.
LEMMA LoadKeeps ==
  ASSUME SetupInv, NEW w \in Pods, Load(w)
  PROVE  SetupInv'
<1> DEFINE q == proc[w]
           r == [q EXCEPT !.pc = IF @ = "load" THEN "loop" ELSE "remove",
                          !.tree = IF runtime \in Supported THEN entries ELSE << >>]
<1>1. /\ entries \in [ClassNames -> Dirs] /\ q \in PodRecords
      /\ ListKept(q) /\ TreeFilled(runtime, q)
      BY DEF SetupInv, SetupTypes
<1>2. q.pc \in {"load", "unload"} /\ Becomes(w, r) /\ UNCHANGED <<configMap, runtime, entries>>
      BY DEF Load
<1> HIDE DEF q
<1>3. /\ r \in PodRecords
      /\ r.pc = (IF q.pc = "load" THEN "loop" ELSE "remove")
      /\ r.tree = (IF runtime \in Supported THEN entries ELSE << >>)
      /\ r.dir = q.dir /\ r.crossed = q.crossed /\ r.i = q.i
      /\ r.classes = q.classes /\ r.listed = q.listed
      BY <1>1 DEF PodRecords, PodStates
<1> HIDE DEF r
<1>4. ListKept(r)
      BY <1>1, <1>3 DEF ListKept
<1>5. TreeFilled(runtime, r)
  <2>1. r.pc = "loop" => r.i = 1
        BY <1>1, <1>2, <1>3 DEF TreeFilled
  <2>2. r.pc = "loop" => ~ \E k \in DOMAIN r.classes : k < r.i
    <3>1. DOMAIN r.classes = 1 .. Len(r.classes)
          BY <1>3 DEF PodRecords
    <3> QED
        BY <2>1, <3>1
  <2>3. r.pc = "remove" => runtime \in Supported
        BY <1>1, <1>2, <1>3 DEF TreeFilled
  <2>4. r.pc \in {"loop", "remove"} /\ (runtime \in Supported => r.tree \in [ClassNames -> Dirs])
        BY <1>1, <1>2, <1>3
  <2> QED
      BY <2>2, <2>3, <2>4 DEF TreeFilled
<1>6. Written(entries', r)
      BY <1>2, <1>3 DEF Written
<1>7. Running(w)
      BY <1>2 DEF Running, q
<1> QED
    BY <1>1, <1>2, <1>3, <1>4, <1>5, <1>6, <1>7, PodStep DEF q

\* AddRuntime(): one more class is added, and none of the earlier ones is lost.
LEMMA AddRuntimeKeeps ==
  ASSUME SetupInv, NEW w \in Pods, AddRuntime(w)
  PROVE  SetupInv'
<1> DEFINE q == proc[w]
           name == q.classes[q.i].name
           r == [q EXCEPT !.i = @ + 1, !.tree[name] = q.dir]
<1>1. /\ entries \in [ClassNames -> Dirs] /\ q \in PodRecords
      /\ ListKept(q) /\ TreeFilled(runtime, q)
      BY DEF SetupInv, SetupTypes
<1>2. /\ q.pc = "loop" /\ runtime \in Supported /\ q.i <= Len(q.classes)
      /\ Becomes(w, r) /\ UNCHANGED <<configMap, runtime, entries>>
      BY DEF AddRuntime, At
<1> HIDE DEF q
<1>3. /\ q.classes \in Seq(Classes) /\ q.i \in Nat \ {0} /\ q.dir \in Dirs
      BY <1>1 DEF PodRecords
<1>4. q.i \in DOMAIN q.classes
      BY <1>2, <1>3
<1>5. name \in ClassNames
      BY <1>1, <1>4 DEF ListKept
<1>6. q.tree \in [ClassNames -> Dirs]
      BY <1>1, <1>2 DEF TreeFilled
<1> HIDE DEF name
<1> DEFINE tree == [q.tree EXCEPT ![name] = q.dir]
<1>7. tree \in [ClassNames -> Dirs]
      BY <1>3, <1>5, <1>6
<1>8. r = [q EXCEPT !.i = q.i + 1, !.tree = tree]
      BY <1>1 DEF PodRecords
<1> HIDE DEF tree, r
<1>9. /\ r \in PodRecords
      /\ r.pc = "loop" /\ r.tree = tree /\ r.i = q.i + 1
      /\ r.dir = q.dir /\ r.crossed = q.crossed
      /\ r.classes = q.classes /\ r.listed = q.listed
  <2>1. q.i + 1 \in Nat \ {0} /\ q \in PodRecords /\ q.pc = "loop"
        BY <1>1, <1>2, <1>3
  <2> QED
      BY <1>7, <1>8, <2>1 DEF PodRecords
<1>10. ListKept(r)
       BY <1>1, <1>9 DEF ListKept
<1>11. ASSUME NEW k \in DOMAIN q.classes, k < q.i + 1
       PROVE  tree[q.classes[k].name] = q.dir
  <2>1. CASE k = q.i
    <3>1. tree[name] = q.dir
          BY <1>5, <1>6 DEF tree
    <3> QED
        BY <2>1, <3>1 DEF name
  <2>2. CASE k # q.i
    <3>1. k < q.i
          BY <1>3, <1>11, <2>2
    <3>2. q.tree[q.classes[k].name] = q.dir /\ q.classes[k].name \in ClassNames
          BY <1>1, <1>2, <3>1 DEF TreeFilled, ListKept
    <3> QED
        BY <1>6, <3>2 DEF tree
  <2> QED
      BY <2>1, <2>2
<1>12. TreeFilled(runtime, r)
       BY <1>7, <1>9, <1>11 DEF TreeFilled
<1>13. Written(entries', r)
       BY <1>9 DEF Written
<1>14. Running(w)
       BY <1>2 DEF Running, q
<1> QED
    BY <1>1, <1>2, <1>9, <1>10, <1>12, <1>13, <1>14, PodStep DEF q

\* Save(): all classes are added, and it is this tree that is written.
LEMMA SaveTreeKeeps ==
  ASSUME SetupInv, NEW w \in Pods, SaveTree(w)
  PROVE  SetupInv'
<1> DEFINE q == proc[w]
           r == [q EXCEPT !.pc = "wait", !.tree = << >>]
<1>1. /\ q \in PodRecords /\ ListKept(q) /\ TreeFilled(runtime, q)
      BY DEF SetupInv, SetupTypes
<1>2. /\ q.pc = "loop" /\ runtime \in Supported /\ q.i > Len(q.classes)
      /\ entries' = q.tree /\ Becomes(w, r) /\ UNCHANGED <<configMap, runtime>>
      BY DEF SaveTree, At
<1> HIDE DEF q
<1>3. entries' \in [ClassNames -> Dirs]
      BY <1>1, <1>2 DEF TreeFilled
<1>4. /\ r \in PodRecords /\ r.pc = "wait"
      /\ r.dir = q.dir /\ r.crossed = q.crossed
      /\ r.classes = q.classes /\ r.listed = q.listed
      BY <1>1 DEF PodRecords, PodStates
<1> HIDE DEF r
<1>5. ListKept(r)
      BY <1>1, <1>4 DEF ListKept
<1>6. TreeFilled(runtime, r)
      BY <1>2, <1>4 DEF TreeFilled
<1>7. \A k \in DOMAIN q.classes : k < q.i
      BY <1>1, <1>2 DEF PodRecords
<1>8. Written(entries', r)
      BY <1>1, <1>2, <1>4, <1>7 DEF Written, TreeFilled
<1>9. Running(w)
      BY <1>2 DEF Running, q
<1> QED
    BY <1>2, <1>3, <1>4, <1>5, <1>6, <1>8, <1>9, PodStep DEF q

\* A signal: the worker waits no longer.
LEMMA SignalKeeps ==
  ASSUME SetupInv, NEW w \in Pods, Signal(w)
  PROVE  SetupInv'
<1> DEFINE q == proc[w]
           r == [q EXCEPT !.pc = "unload"]
<1>1. /\ entries \in [ClassNames -> Dirs] /\ q \in PodRecords
      /\ ListKept(q) /\ TreeFilled(runtime, q)
      BY DEF SetupInv, SetupTypes
<1>2. q.pc = "wait" /\ Becomes(w, r) /\ UNCHANGED <<configMap, runtime, entries>>
      BY DEF Signal, At
<1> HIDE DEF q
<1>3. /\ r \in PodRecords /\ r.pc = "unload"
      /\ r.dir = q.dir /\ r.crossed = q.crossed
      /\ r.classes = q.classes /\ r.listed = q.listed
      BY <1>1 DEF PodRecords, PodStates
<1> HIDE DEF r
<1>4. ListKept(r) /\ TreeFilled(runtime, r) /\ Written(entries', r)
      BY <1>1, <1>2, <1>3 DEF ListKept, TreeFilled, Written
<1>5. Running(w)
      BY <1>2 DEF Running, q
<1> QED
    BY <1>1, <1>2, <1>3, <1>4, <1>5, PodStep DEF q

\* One that starts, and one that another's start crosses.
StartedAs(q, b, r) == r = [q EXCEPT !.pc = "load", !.crossed = b]
CrossedAs(q, b, r) == r = [q EXCEPT !.crossed = b]

\* The rest of q is in r.
SameBut(q, r) ==
  /\ r \in PodRecords /\ r.dir = q.dir /\ r.i = q.i /\ r.tree = q.tree
  /\ r.classes = q.classes /\ r.listed = q.listed

\* What a start changes of itself and of the others.
LEMMA CrossingKeeps ==
  ASSUME NEW q \in PodRecords, NEW b \in BOOLEAN, NEW r
  PROVE  /\ StartedAs(q, b, r) => SameBut(q, r) /\ r.pc = "load" /\ r.crossed = b
         /\ CrossedAs(q, b, r) => SameBut(q, r) /\ r.pc = q.pc /\ r.crossed = b
BY DEF StartedAs, CrossedAs, SameBut, PodRecords, PodStates

\* The only step after which a worker runs that did not: who runs has another file.
LEMMA InitializeKeeps ==
  ASSUME SetupInv, NEW w \in Pods, Initialize(w)
  PROVE  SetupInv'
<1> DEFINE Crosses(v) == Running(v) /\ proc[v].file # proc[w].file
           any == \E u \in Pods : Crosses(u)
           own(v) == proc[v].crossed \/ Crosses(v)
           Started == [proc[w] EXCEPT !.pc = "load", !.crossed = any]
           Crossed(v) == [proc[v] EXCEPT !.crossed = own(v)]
<1>1. /\ proc \in [Pods -> PodRecords] /\ proc[w].pc = "flock"
      /\ \A v \in Pods : Running(v) => proc[v].file # proc[w].file
      /\ UNCHANGED <<configMap, runtime, entries>>
      BY DEF SetupInv, SetupTypes, Initialize, At, PidFileFree
<1>2. proc' = [v \in Pods |-> IF v = w THEN Started ELSE Crossed(v)]
  <2>1. proc' = [v \in Pods |->
           IF v = w THEN [proc[v] EXCEPT !.pc = "load", !.crossed = any]
           ELSE [proc[v] EXCEPT !.crossed = @ \/ Crosses(v)]]
        BY DEF Initialize
  <2>2. \A v \in Pods :
           proc'[v] = IF v = w THEN [proc[v] EXCEPT !.pc = "load", !.crossed = any]
                      ELSE [proc[v] EXCEPT !.crossed = @ \/ Crosses(v)]
        BY <2>1, Zenon
  <2> QED
      BY <2>1, <2>2, Zenon
<1>3. any \in BOOLEAN /\ \A v \in Pods : own(v) \in BOOLEAN
      BY Zenon
<1>4. \A v \in Pods \ {w} : Running(v) => Crosses(v)
      BY <1>1
<1>5. \A v \in Pods : Crosses(v) => any
      BY Zenon
<1>6. \A v \in Pods : proc[v].crossed \/ Crosses(v) => own(v)
      BY Zenon
<1> HIDE DEF any, own, Crosses
<1>7. /\ proc'[w] = Started
      /\ \A v \in Pods \ {w} : proc'[v] = Crossed(v)
  <2> HIDE DEF Started, Crossed
  <2> QED
      BY <1>2
<1>8. SameBut(proc[w], proc'[w]) /\ proc'[w].pc = "load" /\ proc'[w].crossed = any
  <2>1. proc[w] \in PodRecords /\ StartedAs(proc[w], any, proc'[w])
        BY <1>1, <1>7 DEF StartedAs
  <2> QED
      BY <1>3, <2>1, CrossingKeeps, Zenon
<1>9. ASSUME NEW v \in Pods \ {w}
      PROVE  SameBut(proc[v], proc'[v]) /\ proc'[v].pc = proc[v].pc /\ proc'[v].crossed = own(v)
  <2>1. proc[v] \in PodRecords /\ own(v) \in BOOLEAN /\ CrossedAs(proc[v], own(v), proc'[v])
        BY <1>1, <1>3, <1>7 DEF CrossedAs
  <2> QED
      BY <2>1, CrossingKeeps, Zenon
<1> USE DEF SameBut
<1>10. SetupTypes'
  <2>1. \A v \in Pods : proc'[v] \in PodRecords
        BY <1>8, <1>9
  <2>2. proc' = [v \in Pods |-> proc'[v]]
    <3> HIDE DEF Started, Crossed
    <3> QED
        BY <1>2
  <2>3. proc' \in [Pods -> PodRecords]
        BY <2>1, <2>2
  <2>4. configMap' \in ConfigMaps /\ entries' \in [ClassNames -> Dirs]
        BY <1>1 DEF SetupInv, SetupTypes
  <2> QED
      BY <2>3, <2>4 DEF SetupTypes
<1>11. ASSUME NEW v \in Pods, NEW u \in Pods, v # u, Running(v)', Running(u)'
       PROVE  proc'[v].crossed
  <2>1. CASE v = w
    <3>1. Running(u) /\ u \in Pods \ {w}
          BY <1>9, <1>11, <2>1 DEF Running
    <3>2. any
          BY <1>4, <1>5, <3>1
    <3> QED
        BY <1>8, <1>9, <2>1, <3>1, <3>2
  <2>2. CASE u = w
    <3>1. Running(v) /\ v \in Pods \ {w}
          BY <1>9, <1>11, <2>2 DEF Running
    <3>2. own(v)
          BY <1>4, <1>6, <3>1
    <3> QED
        BY <1>8, <1>9, <2>2, <3>1, <3>2
  <2>3. CASE v # w /\ u # w
    <3>1. Running(v) /\ Running(u)
          BY <1>9, <1>11, <2>3 DEF Running
    <3>2. own(v)
          BY <1>6, <1>11, <3>1 DEF SetupInv, Apart
    <3> QED
        BY <1>9, <2>3, <3>2
  <2> QED
      BY <2>1, <2>2, <2>3
<1>12. Apart'
  <2>1. \A v, u \in Pods : v # u /\ Running(v)' /\ Running(u)' =>
          proc'[v].crossed /\ proc'[u].crossed
        BY <1>11
  <2> QED
      BY <2>1 DEF Apart
<1>13. ASSUME NEW v \in Pods
       PROVE  /\ ListKept(proc'[v]) /\ TreeFilled(runtime', proc'[v])
              /\ Written(entries', proc'[v])
  <2>1. ListKept(proc[v]) /\ TreeFilled(runtime, proc[v]) /\ Written(entries, proc[v])
        BY DEF SetupInv
  <2>2. runtime' = runtime /\ entries' = entries
        BY <1>1
  <2>3. CASE v = w
    <3>1. proc[w].i = 1
          BY <1>1, <2>1, <2>3 DEF TreeFilled
    <3>2. ListKept(proc'[w])
          BY <1>8, <2>1, <2>3 DEF ListKept
    <3> QED
        BY <1>8, <2>3, <3>1, <3>2 DEF TreeFilled, Written
  <2>4. CASE v # w
    <3>1. ListKept(proc'[v])
          BY <1>9, <2>1, <2>4 DEF ListKept
    <3>2. TreeFilled(runtime', proc'[v])
          BY <1>9, <2>1, <2>2, <2>4 DEF TreeFilled
    <3>3. proc[v].crossed => proc'[v].crossed
          BY <1>6, <1>9, <2>4
    <3>4. Written(entries', proc'[v])
          BY <1>9, <2>1, <2>2, <2>4, <3>3 DEF Written
    <3> QED
        BY <3>1, <3>2, <3>4
  <2> QED
      BY <2>3, <2>4
<1>14. (\A v \in Pods :
          ListKept(proc[v]) /\ TreeFilled(runtime, proc[v]) /\ Written(entries, proc[v]))'
       BY <1>13
<1> QED
    BY <1>10, <1>12, <1>14 DEF SetupInv

\* Every step keeps the invariant; an edit of the config map is not read by who runs.
LEMMA SetupNextInv == SetupInv /\ [SetupNext]_setupVars => SetupInv'
<1> SUFFICES ASSUME SetupInv, [SetupNext]_setupVars PROVE SetupInv'
    OBVIOUS
<1>1. ASSUME NEW w \in Pods, Worker(w)
      PROVE  SetupInv'
      BY <1>1, ConfigureKeeps, OpenPidFileKeeps, InitializeKeeps, FinalizedKeeps, EndsKeep, LoadKeeps, AddRuntimeKeeps,
         SaveTreeKeeps, SignalKeeps DEF Worker
<1>2. CASE EditConfigMap
  <2>1. configMap' \in ConfigMaps /\ UNCHANGED <<runtime, entries, proc>>
        BY <1>2 DEF EditConfigMap
  <2>2. SetupTypes' /\ Apart'
        BY <2>1 DEF SetupInv, SetupTypes, Apart, Running
  <2> QED
      BY <2>1, <2>2 DEF SetupInv
<1>3. CASE UNCHANGED setupVars
  <2>1. UNCHANGED <<configMap, runtime, entries, proc>>
        BY <1>3 DEF setupVars
  <2>2. SetupTypes' /\ Apart'
        BY <2>1 DEF SetupInv, SetupTypes, Apart, Running
  <2> QED
      BY <2>1, <2>2 DEF SetupInv
<1> QED
    BY <1>1, <1>2, <1>3 DEF SetupNext

\* The invariant holds.
LEMMA SetupInvHolds == SetupSpec => []SetupInv
BY SetupInitInv, SetupNextInv, PTL DEF SetupSpec

\* While a worker waits, the valid classes of the config map it was started with lead to
\* its directory, unless it was crossed by one that had another pid file: of another
\* directory, or where the lock was lost (main.go:239, 396-404, 518; types.go:78-94).
THEOREM AppliedHolds == SetupSpec => []AppliedUnlessCrossed
<1>1. SetupInv => AppliedUnlessCrossed
  <2> SUFFICES ASSUME SetupInv, NEW w \in Pods, ~proc[w].crossed, proc[w].pc = "wait",
                      NEW m \in DOMAIN proc[w].listed, ValidClass(proc[w].listed[m])
               PROVE  entries[proc[w].listed[m].name] = proc[w].dir
      BY DEF AppliedUnlessCrossed, Applied, At
  <2>1. PICK k \in DOMAIN proc[w].classes : proc[w].classes[k] = proc[w].listed[m]
        BY DEF SetupInv, ListKept
  <2>2. entries[proc[w].classes[k].name] = proc[w].dir
        BY DEF SetupInv, Written
  <2> QED
      BY <2>1, <2>2
<1> QED
    BY <1>1, SetupInvHolds, PTL

=============================================================================
