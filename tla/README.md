# k8s-kata-manager in TLA+

k8s-kata-manager runs as a daemon set. On every node it pulls the artifacts of the
kata runtime classes listed in its config map, adds each class to the configuration of
the container runtime (containerd or CRI-O), restarts that runtime, and waits for a
signal; then it takes the classes out again and restarts the runtime once more. It does
this next to an administrator who owns the same file, under a kubelet that sends it
signals and kills it, and beside other instances of itself.

This directory specifies that program, model-checks it with TLC and proves what matters
most about it with TLAPS.

## 1. The system

### Components

| component | source | state | operations |
|---|---|---|---|
| worker daemon | `cmd/k8s-kata-manager/main.go` | the class list, `waitingForSignal`, `signalReceived`, the pid file | `Run`, `CleanUp`, `initialize`, `shutdown`, `waitForSignal`, `transformKataConfig`, `generateCDISpec`, `configure`, `getRuntimeConfig` |
| containerd back end | `internal/runtime/containerd/containerd.go`, `option.go` | a TOML tree; the file it came from | `Setup`, `AddRuntime`, `RemoveRuntime`, `DefaultRuntime`, `Save`, `Restart` |
| containerd restart | `internal/runtime/containerd/restart_linux.go` | the number of attempts, a connection, a pid | `RestartContainerd`, `signalContainerd` |
| CRI-O back end | `internal/runtime/crio` | a TOML tree, read from the running CRI-O; the file | the same interface |
| configuration API | `api/v1alpha1/config` | none | `SanitizeConfig` |
| CDI generator | `internal/cdi` | what one turn of its loop leaves to the next; the specification on disk | `GetSpec`: devices found to a specification |
| artifact pull | `internal/oras`, `internal/utils` | the artifacts directory | `NewArtifact`, `Pull`, `ParseRegistry` |
| kata configuration transform | `internal/kata/transform` | none | `Transform`: paths into the artifacts directory |
| Kubernetes client | `internal/client-go` | none | `GetCredentials` |
| kata-manager command line | `cmd/kata-manager` | none | `containerd <socket>` (one `RestartContainerd`), `pull <reference>` |
| go-toml | `vendor/github.com/pelletier/go-toml` | a tree | `GetPath`, `SetPath`, `DeletePath`, `Keys` |

### How they interact

`Run` calls `Setup` of the back end, which reads the file; `AddRuntime` once per class,
after the pull and the transform of its artifact; `Save`, which truncates and writes the
file (or removes it); and `Restart`, which starts a goroutine that sends containerd SIGHUP
through the pid of its socket's peer. `Restart` returns when the goroutine is done *or* a
signal arrives. `waitForSignal` registers its own channel, starts a goroutine that takes one
signal from it and either wakes the main goroutine or, when that is not waiting yet, calls
`shutdown` and exits the process. `CleanUp` is a second load, edit, save and restart.

Processes share the pid file, the configuration file, the artifacts directory and
containerd. Goroutines of one process share `waitingForSignal`, `signalReceived` and the
signal channels; a channel that was registered stays registered.

### What is hard, and what makes each part correct

* *Signals at every point.* Before the first `Notify` a signal ends the process; in
  `Restart` it is consumed; between `Restart` and `waitForSignal` it is swallowed by a
  channel that is no longer read; between `waitForSignal`'s `Notify` and its send it makes
  the process exit without a clean-up; later it starts one. Correct: a worker that waits
  ends, through `CleanUp`, and whatever it left behind is explained by how it ended.
* *The configuration file.* It is read at one time and written at another, in two steps, by
  whoever runs. Correct: what is the administrator's is never changed but by an explained
  accident; what is kata's is complete while a worker waits and gone after it cleaned up.
* *The pid file.* Truncated before it is locked, unlinked by name, locked through a
  descriptor the garbage collector may close. Correct: a crash never keeps the next instance
  out, and at the root of an overlap is a file that was finalized, or one unlinked before it
  was locked.
* *containerd.* Signalled by a goroutine that may outlive the call that started it, with a
  limited number of attempts, each of which can meet an error, or wait for an answer for ever.
  Correct: it comes up with the classes, or the attempts ran out or got stuck; and it is not
  signalled in the middle of a save but by such a straggler, or where workers have crossed.
* *CRI-O.* Its configuration is asked from the running service and written to a file that is
  never read, in two steps between which the service may start: the two may differ. An entry is a copy of another runtime's, which may be a
  class itself. Correct: what is lost is lost because a client saw something else than the
  file; a second run gives what the first one gave; the default always names a runtime.
* *Editing a tree.* `RemoveRuntime` deletes tables upwards as long as they are empty.
  Correct: in any sequence of calls it is the inverse of `AddRuntime`.
* *Two back ends, one interface.* They keep different files, prune and default differently,
  and get their configuration back from a file or from a service. Correct: with
  either, a call changes the class it names and no other, and what was saved is what comes back.
* *The artifacts directory.* A pull writes over what is there and deletes nothing; the first
  `*.toml` by name is rewritten in place; containerd's configuration leads to it meanwhile.
  Correct: what kata reads while a worker waits is of the artifact of this start, or its name
  explains why not; and a start repairs what an earlier one has torn.
* *The reference of an artifact.* It is cut by the worker, by the lookup of the secret and by
  the library, each at a separator of its own. Correct: a registry gets its own credentials.
* *The CDI specification.* Three kinds of names share one name space, and two variables
  outlive a turn of the loop. Correct: a name leads to the GPU it is a name of.
* *The config map.* It can be edited between two starts, and decides where the pid file is.
  Correct: the classes of a waiting worker are in force, unless another ran with another pid
  file, or none.

`PROJECT.json` lists the hazards one by one, each at its line with the properties that look
at it.

## 2. Modules

```
TomlTree            trees of go-toml: a function from paths to values
  ContainerdConfig  AddRuntime, RemoveRuntime, ... as operators on trees
    ContainerdSession   any sequence of the calls, on one file         MCContainerdSession
    KataManager         workers, goroutines, signals, node             MCKataManager
  CrioConfig        the same operations for CRI-O
    CrioSession         any sequence of the calls, on the file and     MCCrioSession
                        the running CRI-O
  KataTransform     Transform as an operator on trees
    Artifacts           the artifacts directory of a class             MCArtifacts
RuntimeInterface    what runtime.Runtime promises, whatever is behind it
  (both sessions instantiate it: client, saved and source are views of their trees)
PidFile             the pid file: operations, and the protocol         MCPidFile
  (KataManager instantiates PidFile with pc <- pidPc)
RestartPromise      what RestartContainerd promises its callers
ContainerdRestart   the steps of its attempts, and containerd          (run as it is)
  (instantiates RestartPromise: alive, status and gone are read off its state)
ArtifactRef         from a reference to the request a registry gets    MCArtifactRef
CdiSpec             generateCDISpec() over many starts                 MCCdiSpec
Startup             what the configuration of a worker decides         MCStartup

TomlTreeProofs          lemmas about paths, SetPath, DeletePath, CopyTable
  ContainerdConfigProofs    lemmas about the operators of ContainerdConfig
    ContainerdSessionProofs theorems about ContainerdSession
    KataManagerProofs       KataManager: its types, goroutines and signals, its
                            refinement of PidFile, and the configuration it leaves
  CrioSessionProofs         theorems about CrioSession
WorkerProofs            theorems about PidFile, CdiSpec, ArtifactRef and Startup
  (in one module, so the last three have GenSpec, RefSpec and SetupSpec for Spec, and so on)
RestartProofs           ContainerdRestart implements RestartPromise
ArtifactsProofs         theorems about Artifacts
```

**TomlTree.** A tree is a function from the paths present in it to a value or the marker
`Table`. Text, comments, positions and arrays of tables are abstracted. That an empty table
survives writing and parsing, and only the tree without a key is written as zero bytes, is
what the writer of the library does.

**ContainerdConfig.** `AddRuntime`, `RemoveRuntime`, `DefaultRuntime` as operators.
`RemoveRuntime` is written as the set of paths that go; that the loop of the source deletes
exactly those is `RemovalIsTheLoop`, checked on every tree `ContainerdSession` reaches. The
plugin's name is shortened to `"cri"`; the options are those `getRuntimeConfig` passes.
`Managed` says which values are kata-manager's, `UserConfig` is the rest.

**ContainerdSession.** A client of the interface: `Setup`, `AddRuntime` (also with
`setAsDefault`, which the worker never passes), `RemoveRuntime`, `Save`, in any order. The
history `replaced` says whether the tree and whether the file has got a default from
`setAsDefault`: where neither has, the administrator's has to be there.

**CrioConfig, CrioSession.** The second implementation of the interface. `AddRuntime` replaces
an entry by a copy of that of `crun` or of the default runtime (`Sources`, `CopyTable`);
`RemoveRuntime` deletes the default first and then walks upwards. `CrioSession` has three
copies of the configuration: `file`, `live` (what CRI-O runs with, which is all `Setup`
sees) and `tree` (what a client edits). `Effective` is external: CRI-O runs with what its
file says and with what is built in (`BuiltIn`) where that says nothing; drop-in files are
left out. A file has tables where CRI-O knows tables (`Fits`), as it takes no other; the
runtime that is built in is no class (`BuiltInSound`). `Save` is `TruncateFile` and
`WriteFile`, and `saving` is what is between them: CRI-O may start there and find nothing
(the client goes on, and the next one is given that), the administrator may write the file
(`raced`), the client may end (`SaveCut`). `Restart` is the blocking `systemctl
restart`. The history variables are as in KataManager: `blame` holds `unapplied` (a client
read a `live` that differs from the administrator's `file`), `raced` (the file was edited
while a client had a tree), `torn` (a save cut short) and `default` (a client replaced the
default, or the administrator made it a class, which kata takes for its own).

**RuntimeInterface.** The abstract specification of both back ends. A configuration is a
`View`: the classes that are there with their paths, and a default. `client` is what a client
edits, `saved` what the file says, `source` what the next `Setup` is given: with containerd the
file itself, with CRI-O what the service runs with, so that `source` follows `saved` only when
it starts (`Apply`). A call changes the class it is given (`With`, `Without`). `Save` may come
after an `Empty`, from which on the file says nothing, as a runtime that starts then will find
out; `Clash` is the end of a save during which the administrator wrote the file, and `Tear` a
save cut short; `Edit` gives the administrator's own views (`Written`) and nothing else. Tables, the
version, the rest of the administrator's configuration and the removal of the file are not
seen; they are what the other properties of the sessions are about.

**PidFile.** Paths, inodes, descriptors, locks. `OpenPid` is `os.Create`, `LockPid` the
`flock`, `RemovePid` the `os.Remove` of `shutdown()`, `ClosePid` what the end of a process
or the finalizer of `f` does.

**KataManager.** `proc[w]` is the process of worker `w`: the program counter of its main
goroutine (`pc`), that of the goroutine of `waitForSignal` (`waiter`), those of the
goroutines of the two `Restart` calls (`helper`), their channels (`restartChan`,
`waitChan`, `armed` for `waitingForSignal`, `received` for `signalReceived`), and its
locals (`classes`, `next`, `tree`). A process that ends becomes `Fresh`. The actions follow
the code from one shared access to the next: `Load`, one step per class (`Pull`,
`OpenKataConfig`, `AddClass`; or `RemoveClass`), `TruncateFile` and `WriteFile` (two steps,
as they are two calls), `Restart` and its three outcomes, `Listen`, `Arm`, and the branches
of the waiter. A helper's attempt is one step: it ends containerd (`SignalContainerd`), finds
nobody (`AttemptFails`), meets an error though containerd is there (`AttemptErrs`), or sends
the signal to the worker itself and takes that for a success (`Misfire`). With a `"frozen"`
containerd (`ContainerdHangs`) only an error ends it: the read has no deadline.
`live` is what containerd read when it last started. `user` and `blame` are
history: the administrator's part of the file as he left it, and which accidents may have
damaged it (`torn`: a save cut short; `raced`: an edit by the administrator between a load
and its save; `overlap`: two workers between a load and a save; `crossed`: a load while
another worker edits, or has saved and not yet cleaned up; `meddled`: the administrator
changed the entry of a class; `abandoned`: a worker that ended between the save of `Run` and
that of `CleanUp`). A file that has entries of classes at the start counts as `abandoned`,
and one whose entries are not of kata's type as `meddled`. Each property names the accidents
it excepts, and no others.

**RestartPromise, ContainerdRestart.** The promise knows of a node only whether a containerd
process runs, and of a call whether containerd has been gone since it began (`gone`) and how
many errors it has met with containerd there (`errors`): a call succeeds only if it ends
containerd (`Restart`), it had ended meanwhile (`Succeed`), or it signalled itself
(`Misfire`); it fails only if containerd was gone, nobody was at its socket (`Excused`), or
there was an error in every attempt it was willing to make (`Err`, `Patience`).
`ContainerdRestart` has the steps of `signalContainerd`: `Dial`, `SetOption`, `Write`, `Read`,
`Kill` and the ways each fails for what containerd did; `Errs`, any other error of any of
them, from the dial to credentials that do not parse and a `kill` that is not permitted;
and `FailedAttempt` with its limit. The callers are the helpers of
`Restart()` and the `containerd` subcommand with the socket it is given (`SocketOf`). containerd
is external: it sends its first message when it likes (`Answer`), stops, hangs (`Freeze`) and
is started again. A message sent before `SO_PASSCRED` was set is received with pid 0
(`OwnGroup`), which `kill` takes for the caller's own process group. Pids are not reused.

**KataTransform, Artifacts.** A file path in a kata configuration is a sequence of names;
`Transform` replaces it by the artifacts directory and its last element (`Base`, `Join`; an
empty path gives the directory itself). `Artifacts` is the loop of `Run` on one class: `Pull`
resolves the tag, the files are truncated and written in any order (`OpenFile`, `WriteFile`;
oras-go pulls them concurrently), `OpenKataConfig` reads the first `*.toml`, transforms it and
truncates it, `Rewrite` writes it, `AddEntry` is the entry of the containerd configuration.
`Die` ends a worker anywhere, `Publish` moves the tag. Nothing deletes a file.

**ArtifactRef.** A reference is a sequence of the separators and of `"n"`, any other character.
`GetCredentials`, `PullCommand`, `NewArtifact` and `Pull` follow one another; which references
the library connects with, and to which host, is external (`CanConnect`, `Host`).

**CdiSpec.** One action per turn of the loop of `GetAllDeviceSpecs` (`AddDevice`,
`SkipDevice`), with `path` as the variable that outlives it; `Save` and `RefuseSpec` are the
library's answer (`Valid` is external: some device, no two of one name); `Rebind` changes a
GPU at any time, also in the loop.

**Startup.** `Configure` reads the config map (or takes the defaults), `Sanitize` folds
`SanitizeTurn` over the list as the loop does, `OpenPidFile`, `Initialize` and `Refused` are
`initialize()`, and `Load`, `AddRuntime`, `SaveTree`, `RemoveRuntimes` are the edits of one file
as a map from names to directories. Each directory has a pid file (`pidFile`), and each worker
the one it has open (`file`): the lock is that of an open file past its flock, so it goes when
the collector closes the file (`Finalized`), and does not keep out one that opens the path
after a `shutdown()` has removed it (`Unlinked`). `Panic` is the call of the nil that
`getRuntimeConfig` returns for a `--runtime` it does not know. `listed` and `crossed` are history.

Operators whose comment begins with *Mutant* are plausible mistakes in the definition that
follows them. Nothing uses them; `PROJECT.json` says which property finds each of them when
it takes that definition's place.

## 3. What the runs check

| run | configuration | shows |
|---|---|---|
| `pidfile` | 3 processes, 5 inodes | lock ownership, what an overlap goes back to (`OverlapExplained`), the holder's pid is not replaced (`HolderNotRenamed`), a refusal is by a living instance (`RefusedByTheLiving`) |
| `session` | 2 class names, 2 kata configurations, 5 files | every call sequence keeps the administrator's values, his default too unless a client replaced it (`UserKept`), reverts (`Reverted`, `RemovalIsTheLoop`), and leaves trees that can be edited again and that containerd can start with (`StaysStartable`); `ImplementsInterface` (the refinement) |
| `crio` | 2 class names, 2 files (one with a class made by hand, one with such a class as the default) and none, 4 edits of a tree or of the file (at most 1 of the file), any number of clients, restarts and deaths; CRI-O may start between the halves of a save | `KeepsUserConfig` beside an administrator whose edits may not be in force; with the classes as each other's default CRI-O's default is always there, a removal never fails (`RemovalNeverFails`), a second run gives what the first gave (`Rerun`); `ImplementsInterface` |
| `worker` | 1 worker, 2 classes (and one without a name), 2 files (one left by a worker that died), 2 signals of 2 kinds, 1 fault, errors and misfired signals in any attempt, fairness | `TypeOK`, `CleanedUp`, `NothingLeftBehind`, `GracefulOnceArmed`, `IgnoredOnlyWhileRestarting`; `StopsWhenAsked`, `AppliedOrGaveUp` |
| `edits` | 1 worker, 2 classes, 3 class lists, 4 files, 1 signal, 1 fault, 1 edit (of a value of the administrator's, or of the entry of a class) | `KeepsUserConfig`, `Configured` |
| `two` | 2 workers, 1 class, 1 signal | `KeepsUserConfig` with two instances on a node, `SignalledMidWriteByStrays` over all pairs of them, `PidFileProtocol` |
| `restarted` | 1 worker, 1 signal | **violated**: `RestartedWhenReported` |
| `restart` | 2 callers, 3 attempts, 3 containerd processes, an error at any call, fairness | `KeepsPromise` (the refinement), `StaleExplained`, `ReportsTheRestart`; `Returns` |
| `artifacts` | 5 artifacts, 2 moves of the tag, 2 deaths, fairness | `ConfigExplained`, `AssetsWhole`, `EntryUsable`; `Recovers` |
| `reference` | every reference of up to 7 characters, 3 kinds of secret, both callers | `Parsed`, `OwnCredentials` |
| `cdi` | up to 3 GPUs of 10 kinds, 1 change of a driver, any number of starts and deaths | `EntriesExplained`, `OnDiskComplete`, `RefusalExplained` |
| `startup` | 2 workers, 5 config maps, 2 edits, 3 values of `--runtime`, 3 pid files | `AppliedUnlessCrossed` |

`RestartedWhenReported` is what a message and a comment of the source say; the finding in
`PROJECT.json` quotes them and says how it fails.

*Where the code does otherwise than it says.* Other places were met while modelling; a
property that is checked says exactly how far the promise does hold:

* `main.go:404`, the lock keeps a second instance out: it does unless the collector closed
  the holder's file, or the path was unlinked. `shutdown()` unlinks whatever file is there: one
  that another has opened and not yet locked, or, of one whose own file was closed or unlinked
  before, one that another holds (`OverlapExplained` has it as two parts: of two that run with
  their files open one's has lost its name, and when a file that is open can lose it).
* `main.go:364`, `CleanUp` reverts the configuration: a class listed twice makes the second
  `RemoveRuntime` fail on a file that had no runtimes, and nothing is saved
  (`RemoveFails` is that step; `CleanedUp` speaks of what was saved).
* `types.go:34`, classes are optional: without one and without a file, `Save` removes a file
  that is not there, and the worker ends (`NothingToRemove`).
* `lib-vfio.go:94`, the group key leads to `/dev/vfio/65`: not for a GPU without IOMMUFD that
  comes after one with it (`Mixed` in `EntriesExplained`).
* `main.go:467`, a specification for all GPUs: none, if two share a group or a group has the
  number of an index (`RefusalExplained`).
* `types.go:58`, an artifact contains the configuration of its class: one that an earlier
  artifact left is used if its name sorts first (`Stale` in `ConfigExplained`), and if it
  is torn or cannot be transformed no start gets any further (`Hopeless` in `Recovers`: the
  configuration that comes first after a pull, whoever it is from).
* `artifacts-root.go:42`, paths get a new root: an asset set to `""` becomes the directory
  (`Faithful` in `ConfigExplained`).
* `oras/pull.go:59`, a reference without tag or digest is an error: the test is for 1 instead
  of -1, and such a reference panics (`NewArtifact`; `Parsed` speaks of well-formed ones).
* `types.go:62`, the secret is used: of an entry with only `auth` nothing is (`Entry` in
  `OwnCredentials`).
* `restart_linux.go:35`, SIGHUP goes to containerd: to the caller's own group if containerd's
  message came before `SO_PASSCRED` (`Misfire` in `KeepsPromise` and in `AppliedOrGaveUp`).
* `src/README.md:10`, a class is added: a new artifacts directory moves the pid file, and the
  old worker takes away what the new one added, as does one whose lock did not keep the new one
  out (`crossed` in `AppliedUnlessCrossed`); and a
  `--runtime` that is neither name panics (`Panic`).

*Bounds.* Workers restart without bound; only what goes wrong is counted: `MaxSignals`,
`MaxFaults` (kills, I/O errors, crashes of containerd), `MaxEdits` (of the file or of the
config map). Two signals are enough for the second to arrive in any state the first leads
to, of which every one is interesting: the early exit, the swallowed and the interrupting
signal. `MaxReloadAttempts` is 2 (1 with two workers) instead of 6, which keeps the first,
the last and the exhausted attempt. Two classes exercise the order of the list and the
pruning that only the last one does. One more inode than workers and the path can hold at a
time is enough for `os.Create` never to be stuck; `PidFile` assumes it (`EnoughInodes`).
With two workers `worker`'s liveness would be out of TLC's reach, and `two` has a single class,
attempt and signal: what it is about is who edits, saves and signals between whose steps.
`CrioSession` counts the edits of a tree and of the file together (`MaxCalls`), and those of
the file (`MaxEdits`): four are enough to add and remove two classes in any order, with or
without a client that ends in between, and three with an edit of the file before, between or
after them. `edits` has no second signal, and `worker` no edit: which of the two is in the
middle of a save or of a restart makes no difference to the other. The class lists and files
that `worker` leaves out, `edits` has.
`ContainerdRestart`: three attempts are a first, a middle and a last one, and each can meet a
process of its own; errors are bounded by the attempts; two callers, as more can only end containerd
for one another. `Artifacts`: two moves of the tag bring an artifact back after another, and
two deaths tear a file and then interrupt its repair; of the five artifacts two share names,
one renames its configuration, one has none, and one cannot be transformed. `ArtifactRef`:
seven characters hold a host with a port, a path and a tag, and a host, a path and a digest.
`CdiSpec`: three GPUs let one come before and one after the one in question; groups 1 and 7
can and cannot be indexes, and with 8 differ or not. `Startup`: two workers cross, and a third
would cross one of them; two edits move the directory and back; a pid file for each worker and
one at the path of a directory that nobody is in is enough for one to be made (`EnoughFiles`).
`CHECK_DEADLOCK FALSE` is given where the system may stop: no signal left, and every worker
down for good in a model in which a corrupt file keeps containerd down. SIGINT and SIGTERM
stand for the two kinds of signals: those only `waitForSignal` registers, and those
`Restart` does too. SIGPIPE is left out (the Go runtime ignores it on sockets).

*Fairness.* `worker`: weak fairness of the main goroutine's steps in `Restart`,
`waitForSignal`, `CleanUp` and at the end, of the waiter and of the helpers, because the Go
scheduler runs a goroutine that can; and of `StartContainerd`, because the service manager
restarts containerd. None for `Run` before its restart: a pull waits for a registry without
a timeout. None for signals, edits, faults or the start of a worker, and none for a frozen containerd to
come round, or for an attempt to meet an error or misfire. So a `CleanUp` whose helper is stuck in
the read of a frozen containerd waits for ever, and `StopsWhenAsked` excepts it; `AppliedOrGaveUp`
excepts such a helper and one whose signal went to the worker. `restart`: weak fairness
of each caller's attempt, which is a loop without a wait for anybody but the answer, and of
that answer: a containerd that is up accepts and sends its settings. None for errors (`Errs`),
which no call relies on to return. A frozen one does not,
there is no deadline, and `Returns` excepts it. `artifacts`: weak fairness of a worker's work
as a whole, which takes a registry that answers and a service manager that starts the pod
again; deaths are bounded, as nothing gets anywhere under endless ones. `Recovers` is about
what is on disk: which torn file no start ever repairs.

## 4. What is proved

For any number of workers, callers, inodes, GPUs and names, any class lists, any artifacts
and references, any bounds, and any file the operations are meant for. The assumptions, each where the constant
it is about is declared:

| assumption | module | says |
|---|---|---|
| `MarkersDiffer`, `KeysAreStrings`, `ValuesAreNoMarkers`, `PathsAreValues`, `EditsAreValues` | TomlTree, both back ends, both sessions, KataManager | keys are strings, and what is written to a tree is none of the two markers |
| `FilesEditable`, `ClassesNamed`, `NotTrees`, `SignalSets`, `Bounds` | KataManager | the first file is `Editable`: what is on the way to an entry are tables; `Restart` registers no signal that `waitForSignal` does not |
| `FilesAreSound` | ContainerdSession | the first file is one containerd starts with: a default that names a class names one that is there, an entry has a type, and one that leads to a kata configuration has kata's annotations |
| `BuiltInSound`, `FilesAreSound` | CrioSession | what CRI-O has built in is a default runtime that is there, and no class; the administrator's files have tables where CRI-O knows tables, and a default that is there (CRI-O starts with no other) |
| `NobodyWorks`, `NoInodeIsNone`, `EnoughInodes` | PidFile | two model values are no workers and no inodes; `os.Create` finds an inode |
| `TomlsListed`, `ClassDirIsPath`, `NoContents` | Artifacts | the order of `Glob` is a sequence, the directory of the class a path; the markers of a torn and of a missing file are no content of a configuration, be it as published or transformed once or twice |
| `GpusTyped`, `GpuBounds` | CdiSpec | groups are numbers, and IOMMUFD devices are not negative ones |
| `ConfigMapsTyped`, `NoFileIsNone`, `EnoughFiles`, `StartupBounds` | Startup | the classes of a config map are a list of names and URLs, each of which can be empty; a model value is no pid file, and a new one can always be made |
| `CredsDiffer`, `RefBounds` | ArtifactRef | no credentials at all are none of those that can be had |
| `RestartBounds` | ContainerdRestart | the bounds are positive numbers |

* **WorkerProofs.** *The pid file.* The safety invariants follow from `PidInv`, whose
  essential conjunct is `LockKept`: past its flock, a process that has its file open holds
  that file's lock. `LockHeldByLiving` is read off it, and so is `OverlapHasTwoCauses`: two with
  one file open would both hold its lock, and one whose file is still at the path when it shuts
  down holds the lock of whatever it unlinks, so that whoever else has that open is before its
  flock. `RefusalsAreJustified` is the action property: at a refusal the holder of the lock is a
  living process other than the refused one.
  *The CDI specification.* What is on disk is what the library accepted at the end of the
  loop, so `GenInv` says what the loop has made so far: entries of the GPUs that had their turn
  (`AllOf`), all of their keys (`AllThere`), a name twice for every two GPUs that share it
  (`SharedTwice`), and no name twice without a reason (`TwiceShared`). The third makes
  `OneGPUPerKey` true, as `Save` refuses such a name, the fourth `RefusedForAReason`.
  `PathExplained` is about the variable that outlives a turn: it is the directory of IOMMUFD
  only after a GPU that has one.
  *The reference of an artifact.* The cuts are about where its separators are, whatever its
  length: those of a reference of the documented form are at the ends of its parts
  (`PartsOf`), and the host the library reads off the repository is the registry the
  credentials were looked up for (`HostIsRegistry`).
  *The classes of the configuration.* `SanitizeConfig` writes to the list it reads.
  `SanitizeKeepsValid` says what is left of a list of any length: the valid classes, each at its
  `Place` (the number of valid ones up to it), and nothing else. The loop is a fold of the
  community modules; `SanitizeIsTurns` gets at the recursive function behind it, which exists
  because it can be extended turn by turn (`TurnsExtend`), and `TurnsCompact` is the induction:
  there is no least number of turns after which the list is not as `Compacted` says, so `i` never
  runs ahead of what has been read. `AppliedHolds` follows the list to the file: `TreeFilled` is
  about the loop of `Run`, `Written` about the file from `Save` on, and `Apart` that whoever writes
  it meanwhile runs with another pid file, or with none, and so has crossed the worker that waits:
  of two with one file the second would have been refused.
* **TomlTreeProofs.** Which paths are above and below which, and what `SetPath`,
  `DeletePath` and `CopyTable` leave alone. `CopyTableAnew`: what was at the target makes
  no difference to a copy.
* **ContainerdConfigProofs.** `AddRuntimeKeeps` and `RemoveRuntimeKeeps`: for every
  editable tree the result is editable and `UserConfig` is the same. No default paths are
  special but by their length and the keys that tell them apart.
* **ContainerdSessionProofs.** All the properties of the run, for any sequence of calls, also
  with `setAsDefault`. `IInv` says `Good` of the tree and of the file:
  editable, with the user's values, and with a default that is there. The three need one
  another: a default can be judged only in a tree that is editable, and the value of the
  user's that a call may touch is the default. `DInv` adds where that default is still his
  (`Defaults`): in a tree and in a file that `replaced` does not name, whether or not another
  client has replaced it elsewhere; `UserKept` is the two together (`DefaultsAndKept`).
  `SessionStaysStartable` also says that every
  entry has its type and, if it leads to a kata configuration, its annotations. `SessionRemovalIsTheLoop`
  justifies the way `RemoveRuntime` is written: the paths that go are those the loop deletes.
  `SessionReverted` compares with the first tree, so its invariant has to say of every tree
  how far it is from that one, also while runtimes are there. `Kin`: outside of the entries and
  of the tables above them only the default and the version may differ, and the version is gone
  only if nothing else keeps it (`Bare`). `Cleared`: a tree without runtimes is the first one, or
  `RemoveRuntime` has taken the tables that lead to nothing (`Pruned`). A tree that is both is
  the first one stripped (`PrunedIsStripped`). `SessionImplements` is the refinement of
  `RuntimeInterface`: `AddRuntimeSeen` and `RemoveRuntimeSeen` say what is seen of a call (the
  paths of the other classes are untouched, a default is not part of an entry), `NothingSeen`
  that no file, an empty one and a tree written as zero bytes are the same to a client.
* **KataManagerProofs.** `TypeCorrect`, one lemma per group of actions. A second invariant,
  `GInv`, is about the goroutines of a process: the waiter decides only while the main
  goroutine is in `waitForSignal`, a helper lives no longer than its channels, and what was
  saved fits the phase. Three action properties are read off it: `Graceful`, `SignalsHeeded`
  and `ImplementsPidFile`, that every step is a step of PidFile or changes
  nothing of it. The invariants of the configuration:
  - `UserConfigKept`: `KeepsUserConfig` is inductive with `TreesTrue` (the tree a worker edits
    has the administrator's part as it is in the file) and `EditorsAlone` (two workers between
    a load and a save are in the history). Most steps are `Quiet`; only the load and the four
    steps that write the file need an argument.
  - `ClassesConfigured` (`Configured`), `ClassesCleanedUp` (`CleanedUp`) and
    `LeftOnlyByTheDead` (`NothingLeftBehind`) need `EInv`, as they speak of a file long after
    the loop that made it. `EditOK` says of how many classes the loop is done, in the tree and
    in the directories; `SettledOK` that this is in the file from the save on; `HolderAlone`
    that nobody else comes in between unrecorded; `FileTyped` that an entry one finds has the
    type `AddRuntime` would give it (it writes that only to an entry that was not there); and
    `EntriesOwned` that each entry in the file belongs to a worker that will take it out.
    The last one is false once two workers cross, which is why the mark `crossed` is there.
    `StraysOnly` takes `HolderAlone` too: a worker whose live `Restart()` signals while another
    writes still holds its configuration, so one of the two came in unrecorded, which it denies.
* **CrioSessionProofs.** All the properties of the run. `Sound`: a client's tree, what CRI-O
  runs with and what it will make of its file are `TreeOK`: editable, with tables where they
  belong, with all that is built in (`Covers`) and with a default that is there. `Covers`
  carries two theorems. The table of the runtimes is never empty, so the loop upwards of
  `RemoveRuntime` never deletes anything and the next removal finds its parent
  (`CrioRemovalNeverFails`); and CRI-O fills nothing of a saved file in with something new but
  a missing default, and a CRI-O that starts on the emptied file of a save under way has what is
  built in and nothing else. `CrioKeepsUserConfig` is inductive with `UserKept`, which also says that
  the administrator's default is in the file or stands in for itself. `CrioRerun` is
  `CopyTableAnew` and that the entry removed is not the one that is copied. `CrioImplements` is
  the refinement of `RuntimeInterface`; it takes `Sound` as well, and `EffectiveSeen`: whatever
  CRI-O fills in, it is no class and no default that is one, so a start of CRI-O (`Apply`) gives
  the next client what the file says; `Empty` is the first half of a save, with `saving` to say
  which of `Save`, `Clash` and `Tear` its second half is.
* **RestartProofs.** `StaleExplained` is inductive with the types: what an attempt knows is
  of the containerd that runs, or containerd has ended since the call began; and an attempt
  that failed did so for that, at another socket, or for one of the errors that are counted
  (`i > errs` only if `gone`). So a call that gives up without that excuse has met as many
  errors as it made attempts. From it,
  `PromiseKept`: every step is one of `RestartPromise` or a stutter (`FailRefines` has the
  failures, `ErrRefines` the errors, `WayRefines` the steps on the way, `KillRefines` the three kinds of success), and
  `RestartReported`: the call whose signal ends containerd is the one that succeeds.
* **ArtifactsProofs.** The three safety invariants. For `ConfigIsOfThisStart` and
  `AssetsAreWhole`, `PulledSoFar` says which files of the artifact are already as published,
  `OnlyPicked` that from the pick on the configuration is the only one that differs, and in
  what; `TransformIsFaithful` is about the operator, for every tree. `EntryIsUsable` adds
  `EntryIsPicked` (the entry is that of the worker that waits, or abandoned) and
  `TomlsAreTrees`: each `*.toml` is missing, torn, or a configuration as published or
  transformed at most twice. That set is closed because of `TransformSettles`: a transform of
  what was transformed twice changes nothing.

Only model-checked: the liveness properties (`StopsWhenAsked`, `AppliedOrGaveUp`, `Returns`,
`Recovers`), which need fairness. Every safety property of the passing runs is a theorem. The
induction theorems of the library take an operator and cannot be used here; where a proof
needs an induction it is on the least counterexample (`LeastIsOne`), a set of numbers.

## 5. Not modelled

* *Worker.* The same run with CRI-O instead of containerd under signals (`CrioSession` has its
  calls and its restarts, which block; `Startup` its name). A configuration file that does
  not parse ends the process before it has any state. `loadKernelModules` is two commands,
  whose failure is `Fail` of KataManager, as those of the CDI specification and of a pull are.
  The flags of the command line other than `--runtime` (among them `c.Int("loglevel")` at
  `main.go:177`, where the flag is called `log-level`, so that the level is always 0).
* *Kubernetes client.* `NewClient`, `NodeName` and `GetKubernetesNamespace` read the
  environment or a file and keep nothing.
* *Version, restart on other systems, generated code and mocks.* A constant, an error, and
  code nobody wrote.
* *External.* containerd (SIGHUP ends it, and the service manager starts it again if the file
  parses), CRI-O (what it makes of its file), oras-go, the CDI library, the kernel and the Go
  runtime, each as the code uses it. SIGHUP that containerd might handle otherwise, reused
  pids, and a file system that loses what was written are left out.

## 6. Order of the work, and what could follow

Done: the trees, both back ends and the interface they implement; the pid file; the worker, its goroutines and signals; the
restart and its promise; the transform, the artifacts directory, references and credentials,
the CDI specification, and what the configuration decides.

What could follow: KataManager over CRI-O, where a restart blocks; an abstract specification
of what a worker promises a node as a whole (the configuration is the administrator's with
all of the classes or with none), which KataManager without faults implements.
