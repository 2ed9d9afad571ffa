---------------------------- MODULE KataManager -----------------------------
(***************************************************************************)
(* k8s-kata-manager with containerd as the runtime: Run(), CleanUp(),      *)
(* waitForSignal() and transformKataConfig() of cmd/k8s-kata-manager/      *)
(* main.go, Save() and Restart() of internal/runtime/containerd, and what  *)
(* surrounds them on the node: the signals a pod is sent, its death, the   *)
(* administrator who edits the same file, and the containerd service.      *)
(*                                                                         *)
(* A worker is one process at a time.  Its goroutines interleave: the main *)
(* one (pc), the one waitForSignal() starts (waiter) and the ones the two  *)
(* calls of Restart() start (helper).  A process that ends loses proc[w]   *)
(* and leaves the files as they are.                                       *)
(***************************************************************************)
EXTENDS ContainerdConfig, FiniteSets

CONSTANTS
  Workers, Inodes, NoInode, Nobody,   \* see PidFile
  Corrupt,    \* a file that does not parse at the path of the containerd configuration
  NoTree,     \* the worker has no configuration loaded
  InitFiles,  \* what the file can be at first: trees, or NoFile
  ConfigMaps, \* the runtimeClasses the config map can list: <<[name, url], ..>>
  UserEdits,  \* what the administrator may set in the file: [path, value]
  MaxReloadAttempts,
  WaitSignals,              \* registered by waitForSignal()
  RestartSignals,           \* registered by Restart(), a subset of the former
  MaxSignals, MaxFaults, MaxEdits     \* bounds of the model

ASSUME SignalSets == RestartSignals \subseteq WaitSignals
ASSUME Bounds     == MaxReloadAttempts \in Nat \ {0} /\ {MaxSignals, MaxFaults, MaxEdits} \subseteq Nat
ASSUME NotTrees   == {Corrupt, NoTree} \intersect (InitFiles \union {NoFile}) = {}
ASSUME EditsAreValues == \A e \in UserEdits : e.value \notin {Table, Absent}
\* The first file is one the operations are meant for.
ASSUME FilesEditable == \A f \in InitFiles \ {NoFile} : Editable(f)

VARIABLES
  proc,        \* the state of each worker process
  pidPath, pidFd, pidLock, pidText,    \* see PidFile
  file,        \* the containerd configuration on disk
  containerd,  \* "up", "down", or "frozen": it takes connections and answers none
  live,        \* the configuration containerd read when it last started
  kataConfig,  \* the kata configuration in the artifacts directory of a class
  configMap,   \* the configuration file of the worker
  budget,      \* what may still go wrong
  user,        \* history: the administrator's part of the file, as he left it
  blame        \* history: what can have damaged the file

fileVars  == <<pidPath, pidFd, pidLock, pidText>>
nodeVars  == <<containerd, live, kataConfig, configMap>>
ghostVars == <<user, blame>>
vars      == <<proc, fileVars, file, nodeVars, budget, ghostVars>>

-----------------------------------------------------------------------------
(* The worker process.                                                     *)

Phases == {"Run", "CleanUp"}

Fresh ==
  [pc          |-> "down",
   phase       |-> "Run",
   classes     |-> << >>,     \* the names in w.Config.RuntimeClasses
   next        |-> 1,         \* the turn of the loop over them
   tree        |-> NoTree,    \* runtimeConfig
   saved       |-> "none",    \* history: the phase that saved last
   restartChan |-> "none",    \* sigs of the last Restart(); "dead" once it returned
   waitChan    |-> "none",    \* sigs of waitForSignal()
   armed       |-> FALSE,     \* a value is in waitingForSignal
   received    |-> FALSE,     \* a value is in signalReceived
   waiter      |-> "none",
   helper      |-> [p \in Phases |-> "none"],
   tries       |-> [p \in Phases |-> 0]]

At(w, label) == proc[w].pc = label

\* The pid file protocol, of which the worker's run is one implementation.
PidState(r) ==
  CASE r.pc = "down" -> "down"
    [] r.pc = "create" -> "create"
    [] r.pc = "flock" -> "flock"
    [] r.pc = "pid" -> "write"
    [] r.pc = "exit" \/ r.waiter = "leaving" -> "exiting"
    [] OTHER -> "running"

pidPc == [w \in Workers |-> PidState(proc[w])]

Pid == INSTANCE PidFile WITH pc <- pidPc

\* SanitizeConfig drops the entries without a name or without a url.
ClassNames(cm) ==
  LET valid == SelectSeq(cm, LAMBDA rc : rc.name # "" /\ rc.url # "")
  IN  [i \in DOMAIN valid |-> valid[i].name]

ASSUME ClassesNamed == \A cm \in ConfigMaps : ClassNames(cm) \in Seq(Names)

Class(w) == proc[w].classes[proc[w].next]

\* Mutant: the last class is left out.
AllButOne(w) == proc[w].next < Len(proc[w].classes)

MoreClasses(w) == proc[w].next <= Len(proc[w].classes)

\* Between the load of the configuration and the end of its save.
Editing == {"loop", "transform", "rewrite", "flush"}

\* What is in the file is, or is about to be, what such a worker saved.
Holding == Editing \union {"restart", "select", "listen", "arm", "await"}

\* The end of a process, whatever the cause.
Die(w) ==
  /\ proc' = [proc EXCEPT ![w] = Fresh]
  /\ Pid!ClosePid(w)
  /\ blame' = blame \union (IF At(w, "flush") THEN {"torn"} ELSE {})
                    \union (IF proc[w].saved = "Run" THEN {"abandoned"} ELSE {})
  /\ UNCHANGED <<file, nodeVars, user>>

Spend(kind) == budget[kind] > 0 /\ budget' = [budget EXCEPT ![kind] = @ - 1]

Init ==
  /\ proc = [w \in Workers |-> Fresh]
  /\ Pid!FileInit
  /\ file \in InitFiles
  /\ containerd = "up"
  /\ live = file
  /\ kataConfig = [n \in Names |-> "missing"]
  /\ configMap \in ConfigMaps
  /\ budget = [signals |-> MaxSignals, faults |-> MaxFaults, edits |-> MaxEdits]
  /\ user = UserConfig(Content(file))
  /\ blame = (IF RuntimesOf(Content(file)) = {} THEN {} ELSE {"abandoned"})
              \union (IF EntriesTyped(Content(file)) THEN {} ELSE {"meddled"})

-----------------------------------------------------------------------------
(* Run(): the configuration, and initialize().                             *)

Configure(w) ==
  /\ At(w, "down")
  /\ proc' = [proc EXCEPT ![w].pc = "create", ![w].classes = ClassNames(configMap)]
  /\ UNCHANGED <<fileVars, file, nodeVars, budget, ghostVars>>

CreatePidFile(w) ==
  /\ At(w, "create")
  /\ proc' = [proc EXCEPT ![w].pc = "flock"]
  /\ Pid!OpenPid(w)
  /\ UNCHANGED <<file, nodeVars, budget, ghostVars>>

LockPidFile(w) ==
  /\ At(w, "flock")
  /\ proc' = [proc EXCEPT ![w].pc = "pid"]
  /\ Pid!LockPid(w)
  /\ UNCHANGED <<file, nodeVars, budget, ghostVars>>

\* Mutant: shutdown() is deferred before the lock is had.
PidFileRefusedLate(w) ==
  /\ At(w, "flock")
  /\ ~Pid!CanLock(w)
  /\ proc' = [proc EXCEPT ![w].pc = "return"]
  /\ UNCHANGED <<fileVars, file, nodeVars, budget, ghostVars>>

PidFileRefused(w) == At(w, "flock") /\ ~Pid!CanLock(w) /\ Die(w) /\ UNCHANGED budget

WritePidFile(w) ==
  /\ At(w, "pid")
  /\ proc' = [proc EXCEPT ![w].pc = "load"]
  /\ Pid!WritePid(w)
  /\ UNCHANGED <<file, nodeVars, budget, ghostVars>>

-----------------------------------------------------------------------------
(* Run() and CleanUp(): load, edit, save.                                  *)

\* getRuntimeConfig(): a missing file is read as an empty one.
Load(w) ==
  /\ At(w, "load")
  /\ file # Corrupt
  /\ proc' = [proc EXCEPT ![w].pc = "loop", ![w].next = 1, ![w].tree = Content(file)]
  /\ blame' = blame \union
       (IF \E v \in Workers \ {w} : proc[v].pc \in Editing THEN {"overlap"} ELSE {})
       \union (IF \E v \in Workers \ {w} : proc[v].pc \in Holding THEN {"crossed"} ELSE {})
  /\ UNCHANGED <<fileVars, file, nodeVars, budget, user>>

\* An error is returned through the deferred shutdown().
GiveUp(w) ==
  /\ proc' = [proc EXCEPT ![w].pc = "return"]
  /\ UNCHANGED <<fileVars, nodeVars, user>>

LoadFails(w) ==
  At(w, "load") /\ file = Corrupt /\ GiveUp(w) /\ UNCHANGED <<file, budget, blame>>

\* The artifact is pulled into the directory of the class, over what is there.
Pull(w) ==
  /\ At(w, "loop")
  /\ proc[w].phase = "Run"
  /\ MoreClasses(w)
  /\ proc' = [proc EXCEPT ![w].pc = "transform"]
  /\ kataConfig' = [kataConfig EXCEPT ![Class(w)] = "pulled"]
  /\ UNCHANGED <<fileVars, file, containerd, live, configMap, budget, ghostVars>>

\* transformKataConfig() reads the file, refuses an empty one, truncates it ...
OpenKataConfig(w) ==
  /\ At(w, "transform")
  /\ kataConfig[Class(w)] # "truncated"
  /\ proc' = [proc EXCEPT ![w].pc = "rewrite"]
  /\ kataConfig' = [kataConfig EXCEPT ![Class(w)] = "truncated"]
  /\ UNCHANGED <<fileVars, file, containerd, live, configMap, budget, ghostVars>>

KataConfigEmpty(w) ==
  /\ At(w, "transform")
  /\ kataConfig[Class(w)] = "truncated"
  /\ GiveUp(w)
  /\ UNCHANGED <<file, budget, blame>>

\* ... and writes the new one; then AddRuntime.  (The class stands for the path
\* of its kata configuration.)
AddClass(w) ==
  /\ At(w, "rewrite")
  /\ proc' = [proc EXCEPT ![w].pc = "loop", ![w].next = @ + 1,
                          ![w].tree = AddRuntime(@, Class(w), Class(w), FALSE)]
  /\ kataConfig' = [kataConfig EXCEPT ![Class(w)] = "transformed"]
  /\ UNCHANGED <<fileVars, file, containerd, live, configMap, budget, ghostVars>>

\* Mutant: the entry is looked at and left.
SkipClass(w) ==
  /\ At(w, "loop")
  /\ proc[w].phase = "CleanUp"
  /\ MoreClasses(w)
  /\ CanRemove(proc[w].tree, Class(w))
  /\ proc' = [proc EXCEPT ![w].next = @ + 1]
  /\ UNCHANGED <<fileVars, file, nodeVars, budget, ghostVars>>

RemoveClass(w) ==
  /\ At(w, "loop")
  /\ proc[w].phase = "CleanUp"
  /\ MoreClasses(w)
  /\ CanRemove(proc[w].tree, Class(w))
  /\ proc' = [proc EXCEPT ![w].next = @ + 1, ![w].tree = RemoveRuntime(@, Class(w))]
  /\ UNCHANGED <<fileVars, file, nodeVars, budget, ghostVars>>

\* CleanUp() returns the error of RemoveRuntime and saves nothing.
RemoveFails(w) ==
  /\ At(w, "loop")
  /\ proc[w].phase = "CleanUp"
  /\ MoreClasses(w)
  /\ ~CanRemove(proc[w].tree, Class(w))
  /\ GiveUp(w)
  /\ UNCHANGED <<file, budget, blame>>

\* What Run() saved is there to be reverted until CleanUp() has saved.
Saved(w) ==
  proc' = [proc EXCEPT ![w].pc = "restart", ![w].tree = NoTree,
                       ![w].saved = proc[w].phase]

\* Save() of a tree without a key removes the file.
RemoveFile(w) ==
  /\ At(w, "loop")
  /\ ~MoreClasses(w)
  /\ RendersEmpty(proc[w].tree)
  /\ file # NoFile
  /\ file' = NoFile
  /\ Saved(w)
  /\ UNCHANGED <<fileVars, nodeVars, budget, ghostVars>>

NothingToRemove(w) ==
  /\ At(w, "loop")
  /\ ~MoreClasses(w)
  /\ RendersEmpty(proc[w].tree)
  /\ file = NoFile
  /\ GiveUp(w)
  /\ UNCHANGED <<file, budget, blame>>

\* Mutant: containerd is signalled while the file is being saved.
TruncateAndRestart(w) ==
  /\ At(w, "loop")
  /\ ~MoreClasses(w)
  /\ ~RendersEmpty(proc[w].tree)
  /\ file' = EmptyTree
  /\ proc' = [proc EXCEPT ![w].pc = "flush", ![w].helper[proc[w].phase] = "signal"]
  /\ UNCHANGED <<fileVars, nodeVars, budget, ghostVars>>

\* Save() of any other tree: os.Create leaves zero bytes ...
TruncateFile(w) ==
  /\ At(w, "loop")
  /\ ~MoreClasses(w)
  /\ ~RendersEmpty(proc[w].tree)
  /\ file' = EmptyTree
  /\ proc' = [proc EXCEPT ![w].pc = "flush"]
  /\ UNCHANGED <<fileVars, nodeVars, budget, ghostVars>>

\* ... until WriteString returns.
WriteFile(w) ==
  /\ At(w, "flush")
  /\ file' = proc[w].tree
  /\ Saved(w)
  /\ UNCHANGED <<fileVars, nodeVars, budget, ghostVars>>

\* A full disk: nothing, or a part of the text, is written.
WriteFails(w) ==
  /\ At(w, "flush")
  /\ Spend("faults")
  /\ file' \in {EmptyTree, Corrupt}
  /\ GiveUp(w)
  /\ blame' = blame \union {"torn"}

\* Any other error on the way: kernel modules, CDI, credentials, pull, transform.
Fail(w) ==
  /\ proc[w].pc \in {"load", "loop", "transform", "rewrite"}
  /\ Spend("faults")
  /\ GiveUp(w)
  /\ UNCHANGED <<file, blame>>

-----------------------------------------------------------------------------
(* Restart().                                                              *)

\* The channel is registered and the helper goroutine started.
Restart(w) ==
  /\ At(w, "restart")
  /\ proc' = [proc EXCEPT ![w].pc = "select", ![w].restartChan = "empty",
                          ![w].helper[proc[w].phase] = "signal"]
  /\ UNCHANGED <<fileVars, file, nodeVars, budget, ghostVars>>

AfterRestart(w) == IF proc[w].phase = "Run" THEN "listen" ELSE "return"

\* The helper hands over nil once a signal was sent and the timer fired.  (One that
\* was sent to the wrong process is remembered.)
RestartDone(w) ==
  /\ At(w, "select")
  /\ proc[w].helper[proc[w].phase] \in {"signalled", "misfired"}
  /\ proc' = [proc EXCEPT
       ![w].pc = AfterRestart(w), ![w].restartChan = "dead",
       ![w].helper[proc[w].phase] = IF @ = "signalled" THEN "ended" ELSE @]
  /\ UNCHANGED <<fileVars, file, nodeVars, budget, ghostVars>>

\* The helper hands over the error of RestartContainerd.
RestartFails(w) ==
  /\ At(w, "select")
  /\ proc[w].helper[proc[w].phase] = "failed"
  /\ proc' = [proc EXCEPT ![w].pc = "return", ![w].restartChan = "dead"]
  /\ UNCHANGED <<fileVars, file, nodeVars, budget, ghostVars>>

\* Mutant: the helper is cancelled.
RestartCancelled(w) ==
  /\ At(w, "select")
  /\ proc[w].restartChan = "full"
  /\ proc' = [proc EXCEPT ![w].pc = AfterRestart(w), ![w].restartChan = "dead",
                          ![w].helper[proc[w].phase] = "ended"]
  /\ UNCHANGED <<fileVars, file, nodeVars, budget, ghostVars>>

\* A signal makes Restart() return nil at once; the helper goes on alone.
RestartInterrupted(w) ==
  /\ At(w, "select")
  /\ proc[w].restartChan = "full"
  /\ proc' = [proc EXCEPT ![w].pc = AfterRestart(w), ![w].restartChan = "dead"]
  /\ UNCHANGED <<fileVars, file, nodeVars, budget, ghostVars>>

\* The helper: an attempt of signalContainerd() (ContainerdRestart has its calls one
\* by one) that reaches containerd, whose process SIGHUP ends.  One that a frozen
\* containerd does not answer hangs in its read, which has no deadline: no step of the
\* helper's is enabled then but that it may fail.
SignalContainerd(w, p) ==
  /\ proc[w].helper[p] = "signal"
  /\ containerd = "up"
  /\ containerd' = "down"
  /\ proc' = [proc EXCEPT ![w].helper[p] = "signalled"]
  /\ UNCHANGED <<fileVars, file, live, kataConfig, configMap, budget, ghostVars>>

\* Mutant: the attempts are counted from one.
AttemptFailsLate(w, p) ==
  /\ proc[w].helper[p] = "signal"
  /\ containerd = "down"
  /\ proc' = [proc EXCEPT
       ![w].tries[p]  = @ + 1,
       ![w].helper[p] = IF proc[w].tries[p] = MaxReloadAttempts THEN "failed" ELSE @]
  /\ UNCHANGED <<fileVars, file, nodeVars, budget, ghostVars>>

TriedAgain(w, p) ==
  /\ proc[w].helper[p] = "signal"
  /\ proc' = [proc EXCEPT
       ![w].tries[p]  = @ + 1,
       ![w].helper[p] = IF proc[w].tries[p] + 1 = MaxReloadAttempts THEN "failed" ELSE @]
  /\ UNCHANGED <<fileVars, file, nodeVars, budget, ghostVars>>

\* One that finds no one at the socket ...
AttemptFails(w, p) == containerd = "down" /\ TriedAgain(w, p)

\* ... or loses its peer, or in which any of its calls fails though containerd is there.
AttemptErrs(w, p) == containerd # "down" /\ TriedAgain(w, p)

\* A kill whose pid is 0, since containerd's has no number here, is a success: SIGHUP
\* goes to the worker itself, which catches it.
Misfire(w, p) ==
  /\ proc[w].helper[p] = "signal"
  /\ containerd = "up"
  /\ proc' = [proc EXCEPT
       ![w].helper[p]   = "misfired",
       ![w].restartChan = IF @ = "empty" THEN "full" ELSE @,
       ![w].waitChan    = IF @ = "empty" THEN "full" ELSE @]
  /\ UNCHANGED <<fileVars, file, nodeVars, budget, ghostVars>>

-----------------------------------------------------------------------------
(* waitForSignal(), and the end of the process.                            *)

\* Mutant: the channel is not registered.
ListenUnregistered(w) ==
  /\ At(w, "listen")
  /\ proc' = [proc EXCEPT ![w].pc = "arm", ![w].waiter = "receiving"]
  /\ UNCHANGED <<fileVars, file, nodeVars, budget, ghostVars>>

Listen(w) ==
  /\ At(w, "listen")
  /\ proc' = [proc EXCEPT ![w].pc = "arm", ![w].waitChan = "empty",
                          ![w].waiter = "receiving"]
  /\ UNCHANGED <<fileVars, file, nodeVars, budget, ghostVars>>

\* waitingForSignal <- true
Arm(w) ==
  /\ At(w, "arm")
  /\ proc' = [proc EXCEPT ![w].pc = "await", ![w].armed = TRUE]
  /\ UNCHANGED <<fileVars, file, nodeVars, budget, ghostVars>>

\* <-sigs
WaiterReceives(w) ==
  /\ proc[w].waiter = "receiving"
  /\ proc[w].waitChan = "full"
  /\ proc' = [proc EXCEPT ![w].waiter = "selecting", ![w].waitChan = "empty"]
  /\ UNCHANGED <<fileVars, file, nodeVars, budget, ghostVars>>

\* Mutant: the goroutine takes the token and ends.
WaiterDrops(w) ==
  /\ proc[w].waiter = "selecting"
  /\ proc[w].armed
  /\ proc' = [proc EXCEPT ![w].waiter = "done", ![w].armed = FALSE]
  /\ UNCHANGED <<fileVars, file, nodeVars, budget, ghostVars>>

\* The main goroutine is waiting: it is told.
WaiterHandsOver(w) ==
  /\ proc[w].waiter = "selecting"
  /\ proc[w].armed
  /\ proc' = [proc EXCEPT ![w].waiter = "done", ![w].armed = FALSE, ![w].received = TRUE]
  /\ UNCHANGED <<fileVars, file, nodeVars, budget, ghostVars>>

\* It is not yet: shutdown() and os.Exit(0), without CleanUp().
WaiterShutsDown(w) ==
  /\ proc[w].waiter = "selecting"
  /\ ~proc[w].armed
  /\ proc' = [proc EXCEPT ![w].waiter = "leaving"]
  /\ Pid!RemovePid
  /\ UNCHANGED <<file, nodeVars, budget, ghostVars>>

WaiterExits(w) == proc[w].waiter = "leaving" /\ Die(w) /\ UNCHANGED budget

\* <-signalReceived, and CleanUp() begins.
Resume(w) ==
  /\ At(w, "await")
  /\ proc[w].received
  /\ proc' = [proc EXCEPT ![w].pc = "load", ![w].phase = "CleanUp", ![w].received = FALSE]
  /\ UNCHANGED <<fileVars, file, nodeVars, budget, ghostVars>>

\* The deferred shutdown() of Run().
Return(w) ==
  /\ At(w, "return")
  /\ proc' = [proc EXCEPT ![w].pc = "exit"]
  /\ Pid!RemovePid
  /\ UNCHANGED <<file, nodeVars, budget, ghostVars>>

Exit(w) == At(w, "exit") /\ Die(w) /\ UNCHANGED budget

-----------------------------------------------------------------------------
(* The surroundings.                                                       *)

\* Mutant: waitForSignal() registers what Restart() does, and no more.
CatchesTerm(w, s) ==
  s \in RestartSignals /\ (proc[w].waitChan # "none" \/ proc[w].restartChan # "none")

Catches(w, s) ==
  \/ s \in WaitSignals /\ proc[w].waitChan # "none"
  \/ s \in RestartSignals /\ proc[w].restartChan # "none"

\* A caught signal goes to every channel registered for it that has room.
DeliverSignal(w, s) ==
  /\ Spend("signals")
  /\ Catches(w, s)
  /\ proc' = [proc EXCEPT
       ![w].restartChan = IF s \in RestartSignals /\ @ = "empty" THEN "full" ELSE @,
       ![w].waitChan    = IF s \in WaitSignals /\ @ = "empty" THEN "full" ELSE @]
  /\ UNCHANGED <<fileVars, file, nodeVars, ghostVars>>

\* Any other ends the process, without shutdown().
DieOfSignal(w, s) == ~At(w, "down") /\ ~Catches(w, s) /\ Spend("signals") /\ Die(w)

\* SIGKILL, the OOM killer, a panic, a node that goes down.
Kill(w) == ~At(w, "down") /\ Spend("faults") /\ Die(w)

\* The garbage collector closes the pid file, which nothing refers to any more.
Finalize(w) ==
  /\ pidPc[w] \in {"running", "exiting"}
  /\ pidFd[w] # NoInode
  /\ Pid!ClosePid(w)
  /\ UNCHANGED <<proc, file, nodeVars, budget, ghostVars>>

\* The service manager starts containerd again, unless it rejects the file.
StartContainerd ==
  /\ containerd = "down"
  /\ file # Corrupt
  /\ containerd' = "up"
  /\ live' = file
  /\ UNCHANGED <<proc, fileVars, file, kataConfig, configMap, budget, ghostVars>>

ContainerdStops ==
  /\ containerd # "down"
  /\ Spend("faults")
  /\ containerd' = "down"
  /\ UNCHANGED <<proc, fileVars, file, live, kataConfig, configMap, ghostVars>>

\* Its socket stays, and so does its process; it may come round.
ContainerdHangs ==
  /\ containerd = "up"
  /\ Spend("faults")
  /\ containerd' = "frozen"
  /\ UNCHANGED <<proc, fileVars, file, live, kataConfig, configMap, ghostVars>>

ContainerdRecovers ==
  /\ containerd = "frozen"
  /\ containerd' = "up"
  /\ UNCHANGED <<proc, fileVars, file, live, kataConfig, configMap, budget, ghostVars>>

\* The administrator edits the file on disk.
EditFile ==
  \E e \in UserEdits :
    /\ file # Corrupt
    /\ Spend("edits")
    /\ file' = SetPath(Content(file), e.path, e.value)
    /\ Editable(file')
    /\ user' = UserConfig(file')
    /\ blame' = blame \union
         (IF \E w \in Workers : proc[w].pc \in Editing THEN {"raced"} ELSE {})
         \union (IF e.path # VersionPath /\ Managed(file', e.path) THEN {"meddled"} ELSE {})
    /\ UNCHANGED <<proc, fileVars, nodeVars>>

EditConfigMap ==
  /\ Spend("edits")
  /\ configMap' \in ConfigMaps \ {configMap}
  /\ UNCHANGED <<proc, fileVars, file, containerd, live, kataConfig, ghostVars>>

-----------------------------------------------------------------------------

\* The steps of the main goroutine up to the restart of containerd.
Edit(w) ==
  \/ Load(w) \/ LoadFails(w)
  \/ Pull(w) \/ OpenKataConfig(w) \/ KataConfigEmpty(w) \/ AddClass(w)
  \/ RemoveClass(w) \/ RemoveFails(w)
  \/ RemoveFile(w) \/ NothingToRemove(w) \/ TruncateFile(w) \/ WriteFile(w)

Restarting(w) ==
  Restart(w) \/ RestartDone(w) \/ RestartFails(w) \/ RestartInterrupted(w)

Waiting(w) == Listen(w) \/ Arm(w) \/ Resume(w)

Waiter(w) == WaiterReceives(w) \/ WaiterHandsOver(w) \/ WaiterShutsDown(w) \/ WaiterExits(w)

Helper(w, p) == SignalContainerd(w, p) \/ AttemptFails(w, p)

Worker(w) ==
  \/ Configure(w) \/ CreatePidFile(w) \/ LockPidFile(w) \/ PidFileRefused(w) \/ WritePidFile(w)
  \/ Edit(w) \/ Restarting(w) \/ Waiting(w) \/ Waiter(w) \/ Return(w) \/ Exit(w)
  \/ \E p \in Phases : Helper(w, p)

Trouble(w) ==
  \/ WriteFails(w) \/ Fail(w) \/ Kill(w) \/ Finalize(w)
  \/ \E s \in WaitSignals : DeliverSignal(w, s) \/ DieOfSignal(w, s)
  \/ \E p \in Phases : AttemptErrs(w, p) \/ Misfire(w, p)

Next ==
  \/ \E w \in Workers : Worker(w) \/ Trouble(w)
  \/ StartContainerd \/ ContainerdStops \/ ContainerdHangs \/ ContainerdRecovers
  \/ EditFile \/ EditConfigMap

Spec == Init /\ [][Next]_vars

\* What runs without being waited for: the goroutines of a process are
\* scheduled (once it has configured its classes: a pull waits for a registry
\* without a timeout), and the service manager restarts containerd.
Fairness ==
  /\ \A w \in Workers :
       /\ WF_vars(proc[w].phase = "CleanUp" /\ Edit(w))
       /\ WF_vars(Restarting(w)) /\ WF_vars(Waiting(w)) /\ WF_vars(Waiter(w))
       /\ WF_vars(Return(w)) /\ WF_vars(Exit(w))
       /\ \A p \in Phases : WF_vars(Helper(w, p))
  /\ WF_vars(StartContainerd)

FairSpec == Spec /\ Fairness

-----------------------------------------------------------------------------
(* Properties.                                                             *)

Labels == {"down", "create", "flock", "pid", "load", "return", "exit", "restart",
           "select", "listen", "arm", "await"} \union Editing

\* Types of the variables; what a worker edits is a tree it may edit.
ProcOK(r) ==
  /\ DOMAIN r = DOMAIN Fresh
  /\ r.pc \in Labels
  /\ r.phase \in Phases
  /\ r.classes \in Seq(Names)
  /\ r.next \in Nat
  /\ r.pc \in Editing => r.next \in 1 .. Len(r.classes) + 1 /\ Editable(r.tree)
  /\ r.pc \in {"transform", "rewrite"} => r.next <= Len(r.classes) /\ r.phase = "Run"
  /\ r.saved \in Phases \union {"none"}
  /\ r.armed \in BOOLEAN /\ r.received \in BOOLEAN
  /\ r.restartChan \in {"none", "empty", "full", "dead"}
  /\ r.waitChan \in {"none", "empty", "full"}
  /\ r.waiter \in {"none", "receiving", "selecting", "leaving", "done"}
  /\ r.helper \in [Phases -> {"none", "signal", "signalled", "misfired", "failed", "ended"}]
  /\ r.tries \in [Phases -> 0 .. MaxReloadAttempts]
  /\ \A p \in Phases : r.helper[p] = "signal" => r.tries[p] < MaxReloadAttempts

FileOK(f) == f \in {NoFile, Corrupt} \/ Editable(f)

TypeOK ==
  /\ DOMAIN proc = Workers /\ \A w \in Workers : ProcOK(proc[w])
  /\ Pid!TypeOK
  /\ FileOK(file) /\ FileOK(live)
  /\ containerd \in {"up", "frozen", "down"}
  /\ kataConfig \in [Names -> {"missing", "pulled", "truncated", "transformed"}]
  /\ configMap \in ConfigMaps
  /\ budget \in [{"signals", "faults", "edits"} -> Nat]
  /\ blame \subseteq {"torn", "raced", "overlap", "crossed", "meddled", "abandoned"}

\* The administrator's part of the containerd configuration survives every
\* sequence of starts, signals, kills and restarts (AddRuntime, RemoveRuntime,
\* Save), unless a save was cut short, or the file was edited between a load and
\* a save by the administrator or by another worker.
KeepsUserConfig ==
  (blame \subseteq {"crossed", "meddled", "abandoned"} /\ \A w \in Workers : ~At(w, "flush")) =>
    UserConfig(Content(file)) = user

\* While a worker waits (main.go:330-338), every class it was given is in the file,
\* points to a transformed kata configuration, and nothing half-written is left;
\* whatever happened to earlier incarnations, unless another worker came in
\* between or the administrator made or changed an entry of a class himself.
Configured ==
  {"crossed", "meddled"} \intersect blame = {} => \A w \in Workers :
    (proc[w].phase = "Run" /\ proc[w].pc \in {"restart", "select", "listen", "arm", "await"}) =>
      \A i \in DOMAIN proc[w].classes :
        LET n == proc[w].classes[i]
        IN  /\ GetPath(Content(file), ConfigPath(n)) = n
            /\ GetPath(Content(file), TypePath(n)) = RuntimeType
            /\ kataConfig[n] = "transformed"

\* Once CleanUp has saved, none of the worker's classes is left in the file, and
\* the default runtime is not one of them (main.go:364), with the same exceptions.
CleanedUp ==
  {"crossed", "meddled"} \intersect blame = {} => \A w \in Workers :
    (proc[w].phase = "CleanUp" /\ proc[w].pc \in {"restart", "select"}) =>
      \A i \in DOMAIN proc[w].classes :
        /\ proc[w].classes[i] \notin RuntimesOf(Content(file))
        /\ DefaultRuntime(Content(file)) # proc[w].classes[i]

\* When no worker runs, a managed runtime is in the file only if some worker ended
\* after Run had saved and before CleanUp had, or by one of these exceptions.
NothingLeftBehind ==
  (file # Corrupt /\ \A w \in Workers : At(w, "down")) =>
    \/ RuntimesOf(Content(file)) = {}
    \/ {"abandoned", "crossed", "meddled"} \intersect blame # {}

\* A worker waiting in waitForSignal() whose early-exit decision has not been
\* taken never ends but by a kill: every signal it registered for leads through
\* CleanUp (main.go:498-511).
GracefulOnceArmed ==
  [][\A w \in Workers :
       (At(w, "await") /\ proc[w].waiter # "leaving" /\ proc'[w].pc = "down") =>
         budget'.faults < budget.faults]_vars

\* Has the call of Restart() that started the helper returned?
Returned(w, p) ==
  p # proc[w].phase \/ proc[w].pc \in {"listen", "arm", "await", "return", "exit"}

\* containerd is signalled while a worker is writing its file only by a helper that
\* outlived the Restart() that started it, its own or another worker's, or by another
\* worker that came to edit while the first held its configuration, or the other way
\* round (containerd.go:157-166, 192-215).
SignalledMidWriteByStrays ==
  [][\A v, w \in Workers, p \in Phases :
       (SignalContainerd(w, p) /\ At(v, "flush")) =>
         Returned(w, p) \/ (v # w /\ "crossed" \in blame)]_vars

\* Is the worker on its way to its end?
Heeds(r) ==
  \/ r.phase = "CleanUp" \/ r.pc \in {"return", "exit"} \/ r.received
  \/ r.waiter = "receiving" /\ r.waitChan = "full"
  \/ r.waiter \in {"selecting", "leaving"}

\* A signal the worker catches is ignored only while containerd is restarted, which
\* is meant, or between the return of Restart() and the Notify of waitForSignal():
\* the channel of the former is still registered, and nobody reads it
\* (containerd.go:182, main.go:334-338 and 497).
IgnoredOnlyWhileRestarting ==
  [][\A w \in Workers, s \in WaitSignals :
       DeliverSignal(w, s) => Heeds(proc'[w]) \/ proc[w].pc \in {"select", "listen"}]_vars

\* The worker takes the pid file as the protocol of PidFile says.
PidFileProtocol == Pid!Spec

\* Does a Restart() wait for the answer of a containerd that gives none?
Unanswered(w, p) == proc[w].helper[p] = "signal" /\ containerd = "frozen"

\* A signal that reaches a waiting worker ends it: CleanUp and the restart of
\* containerd do not hang, whether containerd is up, down or does not start, unless
\* CleanUp waits for ever in the read of a containerd that accepts the connection and
\* never answers (restart_linux.go:78).
StopsWhenAsked ==
  \A w \in Workers :
    \/ (At(w, "await") /\ proc[w].waitChan = "full") ~> At(w, "down")
    \/ <>[](At(w, "select") /\ Unanswered(w, proc[w].phase))

\* Does containerd run with the classes of the worker?
Applied(w) ==
  /\ containerd # "down"
  /\ \A i \in DOMAIN proc[w].classes :
       live # NoFile /\ proc[w].classes[i] \in RuntimesOf(live)

\* A worker that waits has its classes put into effect, even when Restart() was
\* interrupted: its helper goes on until containerd was signalled or the attempts
\* are used up; unless the signal went to the worker itself (restart_linux.go:94), or
\* the helper waits for an answer for ever.
AppliedOrGaveUp ==
  \A w \in Workers :
    \/ At(w, "await") ~>
         (Applied(w) \/ ~At(w, "await") \/ proc[w].helper["Run"] \in {"failed", "misfired"})
    \/ <>[]Unanswered(w, "Run")

\* main.go:334 reports "runtime successfully restarted", and containerd.go:198
\* says that the signal is only ignored: containerd was signalled by then.
RestartedWhenReported ==
  \A w \in Workers : At(w, "listen") => proc[w].helper["Run"] \notin {"signal", "failed"}

=============================================================================
