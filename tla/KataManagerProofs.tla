-------------------------- MODULE KataManagerProofs --------------------------
(***************************************************************************)
(* KataManager, for any number of workers, any lists of classes, any file  *)
(* the operations are meant for, any number of signals and any bound.      *)
(*                                                                         *)
(* First type correctness.  A step changes one worker at most (Only), so   *)
(* that the types of the workers are kept if those of that one are.        *)
(*                                                                         *)
(* Then how the goroutines of a worker stand to one another: the one of    *)
(* waitForSignal(), the helpers of the two calls of Restart(), and the     *)
(* main one (GInv).  Two things follow: what a signal can and cannot do to *)
(* a worker, and that the worker implements the pid file protocol of       *)
(* PidFile (shutdown() is not called twice).                               *)
(*                                                                         *)
(* Then what the workers make of the containerd configuration.  The        *)
(* administrator's part survives.  KeepsUserConfig speaks of the file,     *)
(* which is written at the end of a long sequence of steps from what was   *)
(* read at its start.  It is inductive with two facts on that sequence:    *)
(* the tree a worker edits has the administrator's part as it is in the    *)
(* file (TreesTrue), since neither he nor another worker has changed it    *)
(* meanwhile (EditorsAlone).                                               *)
(*                                                                         *)
(* The entries of the classes are there while a worker waits, and gone     *)
(* when it has cleaned up.  The invariant (EInv) says how far the loop     *)
(* over the classes has come, in the tree and in the directories of the    *)
(* classes (EditOK), that what it came to is in the file from the save on  *)
(* (SettledOK), since no other worker comes in between unrecorded          *)
(* (HolderAlone), and who has still to take an entry out of the file       *)
(* (EntriesOwned).  HolderAlone also says whose helper can signal          *)
(* containerd in the middle of a save.                                     *)
(***************************************************************************)
EXTENDS KataManager, ContainerdConfigProofs

Fields == {"pc", "phase", "classes", "next", "tree", "saved", "restartChan", "waitChan",
           "armed", "received", "waiter", "helper", "tries"}

\* What a step of worker w leaves alone of the other workers.
Only(w) == DOMAIN proc' = Workers /\ \A v \in Workers \ {w} : proc'[v] = proc[v]

ProcTypes == DOMAIN proc = Workers /\ \A w \in Workers : ProcOK(proc[w])

NodeTypes ==
  /\ FileOK(file) /\ FileOK(live)
  /\ containerd \in {"up", "frozen", "down"}
  /\ kataConfig \in [Names -> {"missing", "pulled", "truncated", "transformed"}]
  /\ configMap \in ConfigMaps
  /\ budget \in [{"signals", "faults", "edits"} -> Nat]
  /\ blame \subseteq {"torn", "raced", "overlap", "crossed", "meddled", "abandoned"}

\* The steps of the helpers of worker w.
Helpers(w) == \E p \in Phases : Helper(w, p) \/ AttemptErrs(w, p) \/ Misfire(w, p)

\* What containerd does of itself.
ContainerdStep == StartContainerd \/ ContainerdStops \/ ContainerdHangs \/ ContainerdRecovers

\* The fields of a worker's record.
LEMMA FreshFields == DOMAIN Fresh = Fields
BY DEF Fresh, Fields

\* A worker that is down is well typed.
LEMMA FreshOK == ProcOK(Fresh)
BY Bounds DEF ProcOK, Fresh, Labels, Phases, Editing

\* The three parts of the type invariant.
LEMMA TypeParts == TypeOK <=> ProcTypes /\ Pid!TypeOK /\ NodeTypes
BY DEF TypeOK, ProcTypes, NodeTypes

-----------------------------------------------------------------------------
(* Files and trees.                                                        *)

\* A file that can be edited is not the absence of one.
LEMMA TreesAreFiles == ASSUME NEW t, Editable(t) PROVE t # NoFile
BY DEF Editable, WellFormed, NoFile, Root

\* What the worker loads from a file that parses.
LEMMA ContentEditable ==
  ASSUME NEW f, FileOK(f), f # Corrupt
  PROVE  Editable(Content(f))
BY EmptyTreeIsFree DEF FileOK, Content

\* The class whose turn it is.
LEMMA ClassNamed ==
  ASSUME NEW w \in Workers, ProcOK(proc[w]), proc[w].pc \in Editing, MoreClasses(w)
  PROVE  Class(w) \in Names /\ Class(w) \notin {Table, Absent}
BY ValuesAreNoMarkers DEF ProcOK, MoreClasses, Class

-----------------------------------------------------------------------------
(* The workers.                                                            *)

\* The steps a worker takes before it loads the configuration keep its types.
LEMMA StartTypes ==
  ASSUME TypeOK, NEW w \in Workers,
         \/ Configure(w) \/ CreatePidFile(w) \/ LockPidFile(w) \/ PidFileRefused(w)
         \/ WritePidFile(w) \/ Return(w) \/ Exit(w)
  PROVE  ProcTypes'
<1>1. ProcOK(proc[w]) /\ DOMAIN proc = Workers /\ configMap \in ConfigMaps
      BY DEF TypeOK
<1>2. DOMAIN proc[w] = Fields
      BY <1>1, FreshFields DEF ProcOK
<1>3. Only(w) /\ ProcOK(proc'[w]) => ProcTypes'
      BY DEF Only, ProcTypes, TypeOK
<1>4. Die(w) => ProcTypes'
      BY <1>1, <1>3, FreshOK DEF Die, Only
<1> USE <1>1, <1>2, <1>3, FreshFields DEF Fields, Only, ProcOK, Phases, Labels, Editing, At
<1>5. CASE Configure(w)
      BY <1>5, ClassesNamed DEF Configure
<1>6. CASE CreatePidFile(w)
      BY <1>6 DEF CreatePidFile
<1>7. CASE LockPidFile(w)
      BY <1>7 DEF LockPidFile
<1>8. CASE PidFileRefused(w) \/ Exit(w)
      BY <1>4, <1>8 DEF PidFileRefused, Exit
<1>9. CASE WritePidFile(w)
      BY <1>9 DEF WritePidFile
<1>10. CASE Return(w)
      BY <1>10 DEF Return
<1> QED
      BY <1>5, <1>6, <1>7, <1>8, <1>9, <1>10

\* So do the steps between the load of the configuration and the end of its save.
LEMMA EditTypes ==
  ASSUME TypeOK, NEW w \in Workers, Edit(w)
  PROVE  ProcTypes'
<1>1. ProcOK(proc[w]) /\ DOMAIN proc = Workers /\ FileOK(file)
      BY DEF TypeOK
<1>2. DOMAIN proc[w] = Fields
      BY <1>1, FreshFields DEF ProcOK
<1>3. Only(w) /\ ProcOK(proc'[w]) => ProcTypes'
      BY DEF Only, ProcTypes, TypeOK
<1>4. GiveUp(w) => ProcTypes'
      BY <1>1, <1>2, <1>3, FreshFields
      DEF GiveUp, Fields, Only, ProcOK, Phases, Labels, Editing, At
<1> USE <1>1, <1>2, <1>3, FreshFields DEF Fields, Only, ProcOK, Phases, Labels, Editing, At
<1>5. CASE Load(w)
  <2>1. Editable(Content(file))
        BY <1>5, ContentEditable DEF Load
  <2> QED
        BY <1>5, <2>1 DEF Load
<1>6. CASE LoadFails(w) \/ KataConfigEmpty(w) \/ RemoveFails(w) \/ NothingToRemove(w)
      BY <1>4, <1>6 DEF LoadFails, KataConfigEmpty, RemoveFails, NothingToRemove
<1>7. CASE Pull(w)
      BY <1>7 DEF Pull, MoreClasses
<1>8. CASE OpenKataConfig(w)
      BY <1>8 DEF OpenKataConfig
<1>9. CASE AddClass(w)
  <2>1. Class(w) \in Names /\ Class(w) \notin {Table, Absent}
        BY <1>9, ClassNamed DEF AddClass, MoreClasses
  <2>2. Editable(AddRuntime(proc[w].tree, Class(w), Class(w), FALSE))
        BY <1>9, <2>1, AddRuntimeEffect DEF AddClass, AddsOnly
  <2> QED
        BY <1>9, <2>2 DEF AddClass
<1>10. CASE RemoveClass(w)
  <2>1. Class(w) \in Names
        BY <1>10, ClassNamed DEF RemoveClass
  <2>2. Editable(RemoveRuntime(proc[w].tree, Class(w)))
        BY <1>10, <2>1, RemoveRuntimeKeeps DEF RemoveClass
  <2> QED
        BY <1>10, <2>2 DEF RemoveClass, MoreClasses
<1>11. CASE RemoveFile(w)
      BY <1>11 DEF RemoveFile, Saved
<1>12. CASE TruncateFile(w)
      BY <1>12 DEF TruncateFile
<1>13. CASE WriteFile(w)
      BY <1>13 DEF WriteFile, Saved
<1> QED
      BY <1>5, <1>6, <1>7, <1>8, <1>9, <1>10, <1>11, <1>12, <1>13 DEF Edit

\* So do the steps of Restart(), of its helpers and of waitForSignal().
LEMMA SignalTypes ==
  ASSUME TypeOK, NEW w \in Workers,
         \/ Restarting(w) \/ Waiting(w) \/ Waiter(w) \/ Helpers(w)
  PROVE  ProcTypes'
<1>1. ProcOK(proc[w]) /\ DOMAIN proc = Workers
      BY DEF TypeOK
<1>2. DOMAIN proc[w] = Fields
      BY <1>1, FreshFields DEF ProcOK
<1>3. Only(w) /\ ProcOK(proc'[w]) => ProcTypes'
      BY DEF Only, ProcTypes, TypeOK
<1>4. Die(w) => ProcTypes'
      BY <1>1, <1>3, FreshOK DEF Die, Only
<1> USE <1>1, <1>2, <1>3, FreshFields DEF Fields, Only, ProcOK, Phases, Labels, Editing, At
<1>5. CASE Restart(w)
      BY <1>5 DEF Restart
<1>6. CASE RestartDone(w)
      BY <1>6 DEF RestartDone, AfterRestart
<1>7. CASE RestartFails(w)
      BY <1>7 DEF RestartFails
<1>8. CASE RestartInterrupted(w)
      BY <1>8 DEF RestartInterrupted, AfterRestart
<1>9. ASSUME NEW p \in Phases, SignalContainerd(w, p) PROVE ProcTypes'
      BY <1>9 DEF SignalContainerd
<1>10. ASSUME NEW p \in Phases, AttemptFails(w, p) \/ AttemptErrs(w, p) PROVE ProcTypes'
  <2>1. TriedAgain(w, p)
        BY <1>10 DEF AttemptFails, AttemptErrs
  <2>2. proc[w].tries[p] + 1 \in 0 .. MaxReloadAttempts
        BY <2>1, Bounds DEF TriedAgain
  <2> QED
        BY <2>1, <2>2, Bounds DEF TriedAgain
<1>11. CASE Listen(w)
      BY <1>11 DEF Listen
<1>12. CASE Arm(w)
      BY <1>12 DEF Arm
<1>13. CASE Resume(w)
      BY <1>13 DEF Resume
<1>14. CASE WaiterReceives(w)
      BY <1>14 DEF WaiterReceives
<1>15. CASE WaiterHandsOver(w)
      BY <1>15 DEF WaiterHandsOver
<1>16. CASE WaiterShutsDown(w)
      BY <1>16 DEF WaiterShutsDown
<1>17. CASE WaiterExits(w)
      BY <1>4, <1>17 DEF WaiterExits
<1>18. ASSUME NEW p \in Phases, Misfire(w, p) PROVE ProcTypes'
      BY <1>18 DEF Misfire
<1> QED
      BY <1>5, <1>6, <1>7, <1>8, <1>9, <1>10, <1>11, <1>12, <1>13, <1>14, <1>15, <1>16, <1>17,
         <1>18
      DEF Restarting, Waiting, Waiter, Helpers, Helper

\* And so does what goes wrong.
LEMMA TroubleTypes ==
  ASSUME TypeOK, NEW w \in Workers, Trouble(w)
  PROVE  ProcTypes'
<1>1. ProcOK(proc[w]) /\ DOMAIN proc = Workers
      BY DEF TypeOK
<1>2. DOMAIN proc[w] = Fields
      BY <1>1, FreshFields DEF ProcOK
<1>3. Only(w) /\ ProcOK(proc'[w]) => ProcTypes'
      BY DEF Only, ProcTypes, TypeOK
<1>4. Die(w) => ProcTypes'
      BY <1>1, <1>3, FreshOK DEF Die, Only
<1>5. GiveUp(w) => ProcTypes'
      BY <1>1, <1>2, <1>3, FreshFields
      DEF GiveUp, Fields, Only, ProcOK, Phases, Labels, Editing, At
<1>6. ASSUME NEW s, DeliverSignal(w, s) PROVE ProcTypes'
      BY <1>1, <1>2, <1>3, <1>6, FreshFields
      DEF DeliverSignal, Fields, Only, ProcOK, Phases, Labels, Editing, At
<1>7. CASE WriteFails(w) \/ Fail(w)
      BY <1>5, <1>7 DEF WriteFails, Fail
<1>8. CASE Kill(w) \/ \E s \in WaitSignals : DieOfSignal(w, s)
      BY <1>4, <1>8 DEF Kill, DieOfSignal
<1>9. CASE Finalize(w)
      BY <1>9 DEF Finalize, ProcTypes, TypeOK
<1> QED
      BY <1>6, <1>7, <1>8, <1>9, SignalTypes DEF Trouble, Helpers

-----------------------------------------------------------------------------
(* The pid file and the node.                                              *)

\* The types of the pid file; those of pidPc hold by its definition.
FileTypes ==
  /\ pidPath \in Inodes \union {NoInode}
  /\ pidFd \in [Workers -> Inodes \union {NoInode}]
  /\ pidLock \in [Inodes -> Workers \union {Nobody}]
  /\ pidText \in [Inodes -> Workers \union {Nobody}]

\* The operations on the pid file that a step can make.
FileStep(w) ==
  \/ UNCHANGED fileVars
  \/ Pid!OpenPid(w) \/ Pid!LockPid(w) \/ Pid!WritePid(w) \/ Pid!RemovePid \/ Pid!ClosePid(w)

\* The states of the protocol a worker can be in.
LEMMA ProtocolStates == pidPc \in [Workers -> Pid!PidStates]
BY DEF pidPc, PidState, Pid!PidStates

\* The operations keep the types of the pid file.
LEMMA FileStepTypes ==
  ASSUME FileTypes, NEW w \in Workers, FileStep(w)
  PROVE  FileTypes'
<1> USE DEF FileTypes
<1>1. CASE UNCHANGED fileVars
      BY <1>1 DEF fileVars
<1>2. CASE Pid!OpenPid(w)
      BY <1>2 DEF Pid!OpenPid
<1>3. CASE Pid!LockPid(w)
      BY <1>3 DEF Pid!LockPid
<1>4. CASE Pid!WritePid(w)
      BY <1>4 DEF Pid!WritePid
<1>5. CASE Pid!RemovePid
      BY <1>5 DEF Pid!RemovePid, Pid!Contents
<1>6. CASE Pid!ClosePid(w)
      BY <1>6 DEF Pid!ClosePid, Pid!Contents
<1> QED
      BY <1>1, <1>2, <1>3, <1>4, <1>5, <1>6 DEF FileStep

\* What a worker does to the pid file is one of the operations.
LEMMA WorkerFileStep ==
  ASSUME NEW w \in Workers, Worker(w) \/ Trouble(w)
  PROVE  FileStep(w)
<1> USE DEF FileStep
<1>1. Die(w) => FileStep(w)
      BY DEF Die
<1>2. GiveUp(w) => FileStep(w)
      BY DEF GiveUp
<1>3. CASE Configure(w) \/ CreatePidFile(w) \/ LockPidFile(w) \/ PidFileRefused(w)
           \/ WritePidFile(w) \/ Return(w) \/ Exit(w)
      BY <1>1, <1>3 DEF Configure, CreatePidFile, LockPidFile, PidFileRefused, WritePidFile,
         Return, Exit
<1>4. CASE Edit(w)
      BY <1>2, <1>4 DEF Edit, Load, LoadFails, Pull, OpenKataConfig, KataConfigEmpty, AddClass,
         RemoveClass, RemoveFails, RemoveFile, NothingToRemove, TruncateFile, WriteFile
<1>5. CASE Restarting(w) \/ Waiting(w) \/ Waiter(w) \/ Helpers(w)
      BY <1>1, <1>5 DEF Restarting, Restart, RestartDone, RestartFails, RestartInterrupted,
         Waiting, Listen, Arm, Resume, Waiter, WaiterReceives, WaiterHandsOver,
         WaiterShutsDown, WaiterExits, Helpers, Helper, SignalContainerd, AttemptFails,
         AttemptErrs, TriedAgain, Misfire
<1>6. CASE Trouble(w)
      BY <1>1, <1>2, <1>5, <1>6
      DEF Trouble, WriteFails, Fail, Kill, Finalize, DeliverSignal, DieOfSignal, Helpers
<1> QED
      BY <1>3, <1>4, <1>5, <1>6 DEF Worker, Helpers

\* What a worker does keeps the types of what it shares with the node.
LEMMA WorkerNodeTypes ==
  ASSUME TypeOK, NEW w \in Workers, Worker(w) \/ Trouble(w)
  PROVE  NodeTypes'
<1> USE DEF NodeTypes, nodeVars, ghostVars
<1>1. NodeTypes /\ ProcOK(proc[w])
      BY DEF TypeOK
<1>2. \A k \in {"signals", "faults", "edits"} :
        Spend(k) => budget' \in [{"signals", "faults", "edits"} -> Nat]
      BY <1>1 DEF Spend
<1>3. Die(w) /\ budget' \in [{"signals", "faults", "edits"} -> Nat] => NodeTypes'
      BY <1>1 DEF Die
<1>4. GiveUp(w) /\ file' = file /\ blame' = blame
        /\ budget' \in [{"signals", "faults", "edits"} -> Nat] => NodeTypes'
      BY <1>1 DEF GiveUp
<1>5. CASE Configure(w) \/ CreatePidFile(w) \/ LockPidFile(w) \/ PidFileRefused(w)
           \/ WritePidFile(w) \/ Return(w) \/ Exit(w)
      BY <1>1, <1>3, <1>5 DEF Configure, CreatePidFile, LockPidFile, PidFileRefused, WritePidFile,
         Return, Exit
<1>6. CASE Edit(w)
  <2>1. CASE LoadFails(w) \/ KataConfigEmpty(w) \/ RemoveFails(w) \/ NothingToRemove(w)
        BY <1>1, <1>4, <2>1 DEF LoadFails, KataConfigEmpty, RemoveFails, NothingToRemove
  <2>2. CASE Pull(w) \/ OpenKataConfig(w) \/ AddClass(w)
        BY <1>1, <2>2 DEF Pull, OpenKataConfig, AddClass
  <2>3. CASE RemoveFile(w)
        BY <1>1, <2>3 DEF RemoveFile, FileOK
  <2>4. CASE TruncateFile(w)
        BY <1>1, <2>4, EmptyTreeIsFree DEF TruncateFile, FileOK
  <2>5. CASE WriteFile(w)
        BY <1>1, <2>5 DEF WriteFile, FileOK, ProcOK, At, Editing
  <2>6. CASE Load(w) \/ RemoveClass(w)
        BY <1>1, <2>6 DEF Load, RemoveClass
  <2> QED
        BY <1>6, <2>1, <2>2, <2>3, <2>4, <2>5, <2>6 DEF Edit
<1>7. CASE Restarting(w) \/ Waiting(w) \/ Waiter(w) \/ Helpers(w)
      BY <1>1, <1>3, <1>7 DEF Restarting, Restart, RestartDone, RestartFails, RestartInterrupted,
         Waiting, Listen, Arm, Resume, Waiter, WaiterReceives, WaiterHandsOver,
         WaiterShutsDown, WaiterExits, Helpers, Helper, SignalContainerd, AttemptFails,
         AttemptErrs, TriedAgain, Misfire
<1>8. CASE Trouble(w)
  <2>1. CASE WriteFails(w)
        BY <1>1, <1>2, <2>1, EmptyTreeIsFree DEF WriteFails, GiveUp, FileOK
  <2>2. CASE Fail(w)
        BY <1>2, <1>4, <2>2 DEF Fail
  <2>3. CASE Kill(w) \/ \E s \in WaitSignals : DieOfSignal(w, s)
        BY <1>2, <1>3, <2>3 DEF Kill, DieOfSignal
  <2>4. CASE Finalize(w) \/ \E s \in WaitSignals : DeliverSignal(w, s)
        BY <1>1, <1>2, <2>4 DEF Finalize, DeliverSignal
  <2> QED
        BY <1>7, <1>8, <2>1, <2>2, <2>3, <2>4 DEF Trouble, Helpers
<1> QED
      BY <1>5, <1>6, <1>7, <1>8 DEF Worker, Helpers

\* So do the service manager and the administrator, who change nothing else.
LEMMA SurroundingTypes ==
  ASSUME TypeOK, ContainerdStep \/ EditFile \/ EditConfigMap
  PROVE  NodeTypes' /\ UNCHANGED <<proc, fileVars>>
<1> USE DEF NodeTypes, nodeVars, ghostVars
<1>1. NodeTypes
      BY DEF TypeOK
<1>2. \A k \in {"signals", "faults", "edits"} :
        Spend(k) => budget' \in [{"signals", "faults", "edits"} -> Nat]
      BY <1>1 DEF Spend
<1>3. CASE StartContainerd
      BY <1>1, <1>3 DEF StartContainerd
<1>4. CASE ContainerdStops \/ ContainerdHangs \/ ContainerdRecovers
      BY <1>1, <1>2, <1>4 DEF ContainerdStops, ContainerdHangs, ContainerdRecovers
<1>5. CASE EditFile
      BY <1>1, <1>2, <1>5 DEF EditFile, FileOK
<1>6. CASE EditConfigMap
      BY <1>1, <1>2, <1>6 DEF EditConfigMap
<1> QED
      BY <1>3, <1>4, <1>5, <1>6 DEF ContainerdStep

-----------------------------------------------------------------------------
(* The types are correct.                                                  *)

\* The types hold when no worker has started.
LEMMA InitTypes == Init => TypeOK
<1> SUFFICES ASSUME Init PROVE TypeOK
    OBVIOUS
<1>1. ProcTypes
      BY FreshOK DEF Init, ProcTypes
<1>2. FileTypes
      BY DEF Init, Pid!FileInit, FileTypes
<1>3. NodeTypes
      BY Bounds, FilesEditable DEF Init, NodeTypes, FileOK
<1> QED
      BY <1>1, <1>2, <1>3, ProtocolStates, TypeParts DEF FileTypes, Pid!TypeOK

\* Every step keeps them.
LEMMA StepTypes == TypeOK /\ [Next]_vars => TypeOK'
<1> SUFFICES ASSUME TypeOK, [Next]_vars PROVE TypeOK'
    OBVIOUS
<1>1. ProcTypes /\ FileTypes /\ NodeTypes
      BY TypeParts DEF Pid!TypeOK, FileTypes
<1>2. ProcTypes' /\ FileTypes' /\ NodeTypes'
  <2>1. CASE UNCHANGED vars
        BY <1>1, <2>1 DEF vars, fileVars, nodeVars, ghostVars, ProcTypes, FileTypes, NodeTypes
  <2>2. ASSUME NEW w \in Workers, Worker(w) \/ Trouble(w)
        PROVE  ProcTypes' /\ FileTypes' /\ NodeTypes'
    <3>1. ProcTypes'
          BY <2>2, StartTypes, EditTypes, SignalTypes, TroubleTypes DEF Worker, Helpers
    <3>2. FileTypes'
          BY <1>1, <2>2, WorkerFileStep, FileStepTypes
    <3>3. NodeTypes'
          BY <2>2, WorkerNodeTypes
    <3> QED
          BY <3>1, <3>2, <3>3
  <2>3. CASE ContainerdStep \/ EditFile \/ EditConfigMap
        BY <1>1, <2>3, SurroundingTypes DEF ProcTypes, FileTypes, fileVars
  <2> QED
        BY <2>1, <2>2, <2>3 DEF Next, ContainerdStep
<1>3. pidPc' \in [Workers -> Pid!PidStates]
      BY DEF pidPc, PidState, Pid!PidStates
<1>4. Pid!TypeOK'
      BY <1>2, <1>3 DEF Pid!TypeOK, FileTypes
<1> QED
      BY <1>2, <1>4 DEF TypeOK, ProcTypes, NodeTypes

\* The types of the variables hold in every behaviour, and what a worker edits is
\* always a tree that can be edited: for every number of workers and every bound.
THEOREM TypeCorrect == Spec => []TypeOK
BY InitTypes, StepTypes, PTL DEF Spec

-----------------------------------------------------------------------------
(* The goroutines of a worker.                                             *)

\* The waiter decides while the main goroutine is in waitForSignal(); it is there
\* as long as its channel is; and what it has handed over leads to CleanUp().
WaiterOK(r) ==
  /\ r.waiter \in {"receiving", "selecting", "leaving"} => r.pc \in {"arm", "await"}
  /\ r.received => r.waiter = "done"
  /\ r.waiter = "done" => r.received \/ r.phase = "CleanUp"
  /\ r.waitChan = "none" <=> r.waiter = "none"
  /\ r.pc \in {"arm", "await"} => r.waitChan # "none"
  /\ r.waitChan # "none" => r.phase = "CleanUp" \/ r.pc \in {"arm", "await"}
  /\ r.pc \in {"listen", "arm", "await"} => r.phase = "Run"

\* Until Restart() is called in a phase there is no helper of it; a helper that is
\* there after Restart() has returned has a channel nobody reads.
HelperOK(r) ==
  /\ r.pc \in {"down", "create", "flock", "pid", "load", "restart"} \union Editing =>
       r.helper[r.phase] = "none"
  /\ r.phase = "Run" => r.helper["CleanUp"] = "none"
  /\ r.helper["Run"] # "none" /\ r.pc # "select" => r.restartChan = "dead"
  /\ r.restartChan # "none" /\ r.waitChan = "none" =>
       r.pc \in {"select", "listen", "return", "exit"}

\* What was saved last: what the restart is for, and what CleanUp() reverts.
SavedOK(r) ==
  /\ r.pc \in {"restart", "select", "listen", "arm", "await"} => r.saved = r.phase
  /\ r.phase = "CleanUp" /\ r.pc \in Editing \union {"load"} => r.saved = "Run"
  /\ r.pc \in {"down", "create", "flock", "pid"} => r.phase = "Run"
  /\ r.pc = "down" => r.saved = "none"

GoroutinesOK(r) == WaiterOK(r) /\ HelperOK(r) /\ SavedOK(r)

Goroutines == \A w \in Workers : GoroutinesOK(proc[w])

\* The inductive invariant.
GInv == TypeOK /\ Goroutines


\* A worker that is down has no goroutines.
LEMMA FreshGoroutines == GoroutinesOK(Fresh)
BY DEF GoroutinesOK, WaiterOK, HelperOK, SavedOK, Fresh, Phases, Editing

\* No worker has, at first.
LEMMA InitGoroutines == Init => Goroutines
BY FreshGoroutines DEF Init, Goroutines

\* The steps of the main goroutine in Run() and CleanUp(), before the restart.
LEMMA MainGoroutine ==
  ASSUME GInv, NEW w \in Workers,
         \/ Configure(w) \/ CreatePidFile(w) \/ LockPidFile(w) \/ WritePidFile(w) \/ Return(w)
         \/ Edit(w) \/ WriteFails(w) \/ Fail(w)
  PROVE  Goroutines'
<1>1. /\ DOMAIN proc = Workers /\ DOMAIN proc[w] = Fields
      /\ ProcOK(proc[w]) /\ GoroutinesOK(proc[w])
      BY FreshFields DEF GInv, TypeOK, ProcOK, Goroutines
<1>2. Only(w) /\ GoroutinesOK(proc'[w]) => Goroutines'
      BY DEF GInv, Goroutines, Only
<1> USE <1>1, <1>2
        DEF Only, At, Fields, ProcOK, Phases, GoroutinesOK, WaiterOK, HelperOK, SavedOK, Editing
<1>3. GiveUp(w) /\ proc[w].pc \in {"load", "loop", "transform", "rewrite", "flush"} => Goroutines'
      BY DEF GiveUp
<1>4. CASE Configure(w) \/ CreatePidFile(w) \/ LockPidFile(w) \/ WritePidFile(w) \/ Return(w)
  <2>1. CASE Configure(w)
        BY <2>1 DEF Configure
  <2>2. CASE CreatePidFile(w) \/ LockPidFile(w)
        BY <2>2 DEF CreatePidFile, LockPidFile
  <2>3. CASE WritePidFile(w)
        BY <2>3 DEF WritePidFile
  <2>4. CASE Return(w)
        BY <2>4 DEF Return
  <2> QED
        BY <1>4, <2>1, <2>2, <2>3, <2>4
<1>5. CASE LoadFails(w) \/ KataConfigEmpty(w) \/ RemoveFails(w) \/ NothingToRemove(w)
           \/ WriteFails(w) \/ Fail(w)
      BY <1>3, <1>5 DEF LoadFails, KataConfigEmpty, RemoveFails, NothingToRemove, WriteFails, Fail
<1>6. CASE Load(w) \/ Pull(w) \/ OpenKataConfig(w)
      BY <1>6 DEF Load, Pull, OpenKataConfig
<1>7. CASE AddClass(w)
      BY <1>7 DEF AddClass
<1>8. CASE RemoveClass(w)
      BY <1>8 DEF RemoveClass
<1>9. CASE RemoveFile(w) \/ TruncateFile(w) \/ WriteFile(w)
      BY <1>9 DEF RemoveFile, TruncateFile, WriteFile, Saved
<1> QED
      BY <1>4, <1>5, <1>6, <1>7, <1>8, <1>9 DEF Edit

\* A signal that is delivered fills channels, and changes nothing else.
LEMMA Delivered ==
  ASSUME NEW w \in Workers, DOMAIN proc = Workers, DOMAIN proc[w] = Fields,
         NEW s, DeliverSignal(w, s)
  PROVE  \E c, d :
           /\ proc' = [proc EXCEPT ![w] = [proc[w] EXCEPT !.restartChan = c, !.waitChan = d]]
           /\ c = proc[w].restartChan \/ (proc[w].restartChan = "empty" /\ c = "full")
           /\ d = proc[w].waitChan \/ (proc[w].waitChan = "empty" /\ d = "full")
<1> DEFINE fill(chan, S) == IF s \in S /\ chan = "empty" THEN "full" ELSE chan
<1>1. proc' = [proc EXCEPT
                 ![w] = [proc[w] EXCEPT !.restartChan = fill(@, RestartSignals),
                                        !.waitChan = fill(@, WaitSignals)]]
      BY DEF DeliverSignal, Fields
<1>2. \A chan, S : fill(chan, S) = chan \/ (chan = "empty" /\ fill(chan, S) = "full")
      OBVIOUS
<1> HIDE DEF fill
<1> QED
      BY <1>1, <1>2

\* The restart, the helpers and the waiter.
LEMMA OtherGoroutines ==
  ASSUME GInv, NEW w \in Workers,
         \/ Restarting(w) \/ Waiting(w) \/ Helpers(w)
         \/ WaiterReceives(w) \/ WaiterHandsOver(w) \/ WaiterShutsDown(w)
         \/ \E s \in WaitSignals : DeliverSignal(w, s)
  PROVE  Goroutines'
<1>1. /\ DOMAIN proc = Workers /\ DOMAIN proc[w] = Fields
      /\ ProcOK(proc[w]) /\ GoroutinesOK(proc[w])
      BY FreshFields DEF GInv, TypeOK, ProcOK, Goroutines
<1>2. Only(w) /\ GoroutinesOK(proc'[w]) => Goroutines'
      BY DEF GInv, Goroutines, Only
<1> USE <1>1, <1>2
        DEF Only, At, Fields, ProcOK, Phases, GoroutinesOK, WaiterOK, HelperOK, SavedOK, Editing
<1>3. CASE Restart(w)
      BY <1>3 DEF Restart
<1>4. CASE RestartDone(w)
      BY <1>4 DEF RestartDone, AfterRestart
<1>5. CASE RestartFails(w)
      BY <1>5 DEF RestartFails
<1>6. CASE RestartInterrupted(w)
      BY <1>6 DEF RestartInterrupted, AfterRestart
<1>7. CASE Listen(w)
      BY <1>7 DEF Listen
<1>8. CASE Arm(w)
      BY <1>8 DEF Arm
<1>9. CASE Resume(w)
      BY <1>9 DEF Resume
<1>10. ASSUME NEW p \in Phases, SignalContainerd(w, p) PROVE Goroutines'
      BY <1>10 DEF SignalContainerd
<1>11. ASSUME NEW p \in Phases, AttemptFails(w, p) \/ AttemptErrs(w, p) PROVE Goroutines'
      BY <1>11 DEF AttemptFails, AttemptErrs, TriedAgain
<1>12. CASE WaiterReceives(w) \/ WaiterHandsOver(w) \/ WaiterShutsDown(w)
  <2>1. CASE WaiterReceives(w)
        BY <2>1 DEF WaiterReceives
  <2>2. CASE WaiterHandsOver(w)
        BY <2>2 DEF WaiterHandsOver
  <2>3. CASE WaiterShutsDown(w)
        BY <2>3 DEF WaiterShutsDown
  <2> QED
        BY <1>12, <2>1, <2>2, <2>3
<1>13. ASSUME NEW s, DeliverSignal(w, s) PROVE Goroutines'
  <2>1. PICK c, d :
          /\ proc' = [proc EXCEPT ![w] = [proc[w] EXCEPT !.restartChan = c, !.waitChan = d]]
          /\ c = proc[w].restartChan \/ (proc[w].restartChan = "empty" /\ c = "full")
          /\ d = proc[w].waitChan \/ (proc[w].waitChan = "empty" /\ d = "full")
        BY <1>1, <1>13, Delivered
  <2>2. WaiterOK(proc'[w]) /\ SavedOK(proc'[w])
        BY <2>1
  <2>3. HelperOK(proc'[w])
        BY <2>1
  <2> QED
        BY <2>1, <2>2, <2>3
<1>14. ASSUME NEW p \in Phases, Misfire(w, p) PROVE Goroutines'
  <2>1. Only(w)
        BY <1>14 DEF Misfire
  <2>2. WaiterOK(proc'[w]) /\ SavedOK(proc'[w])
        BY <1>14 DEF Misfire
  <2>3. HelperOK(proc'[w])
        BY <1>14 DEF Misfire
  <2> QED
        BY <2>1, <2>2, <2>3
<1> QED
      BY <1>3, <1>4, <1>5, <1>6, <1>7, <1>8, <1>9, <1>10, <1>11, <1>12, <1>13, <1>14
      DEF Restarting, Waiting, Helpers, Helper

\* The end of a worker, and what changes none.
LEMMA EndOfGoroutines ==
  ASSUME GInv, NEW w \in Workers, Die(w) \/ Finalize(w)
  PROVE  Goroutines'
BY FreshGoroutines DEF GInv, TypeOK, Goroutines, Die, Finalize

\* Every step keeps the invariant.
LEMMA StepGoroutines == GInv /\ [Next]_vars => GInv'
<1> SUFFICES ASSUME GInv, [Next]_vars PROVE Goroutines'
    BY StepTypes DEF GInv
<1>1. CASE UNCHANGED vars
      BY <1>1 DEF vars, GInv, Goroutines
<1>2. CASE ContainerdStep \/ EditFile \/ EditConfigMap
      BY <1>2, SurroundingTypes DEF GInv, Goroutines
<1>3. ASSUME NEW w \in Workers, Worker(w) \/ Trouble(w) PROVE Goroutines'
  <2>1. CASE PidFileRefused(w) \/ Exit(w) \/ WaiterExits(w) \/ Kill(w) \/ Finalize(w)
             \/ \E s \in WaitSignals : DieOfSignal(w, s)
        BY <2>1, EndOfGoroutines DEF PidFileRefused, Exit, WaiterExits, Kill, DieOfSignal
  <2> QED
        BY <1>3, <2>1, MainGoroutine, OtherGoroutines DEF Worker, Trouble, Waiter, Helpers
<1> QED
      BY <1>1, <1>2, <1>3 DEF Next, ContainerdStep

\* The goroutines stand as they should in every behaviour.
LEMMA GoroutinesCorrect == Spec => []GInv
BY InitTypes, InitGoroutines, StepGoroutines, PTL DEF Spec, GInv

-----------------------------------------------------------------------------
(* Signals.                                                                *)

\* A step of a worker leaves the other workers alone.
LEMMA StepsAreLocal ==
  ASSUME TypeOK, NEW w \in Workers, Worker(w) \/ Trouble(w)
  PROVE  Only(w)
<1>1. DOMAIN proc = Workers
      BY DEF TypeOK
<1>2. Die(w) \/ GiveUp(w) => Only(w)
      BY <1>1 DEF Die, GiveUp, Only
<1> USE <1>1, <1>2 DEF Only
<1>3. CASE Configure(w) \/ CreatePidFile(w) \/ LockPidFile(w) \/ PidFileRefused(w)
           \/ WritePidFile(w) \/ Return(w) \/ Exit(w)
      BY <1>3 DEF Configure, CreatePidFile, LockPidFile, PidFileRefused, WritePidFile,
         Return, Exit
<1>4. CASE Edit(w)
      BY <1>4 DEF Edit, Load, LoadFails, Pull, OpenKataConfig, KataConfigEmpty, AddClass,
         RemoveClass, RemoveFails, RemoveFile, NothingToRemove, TruncateFile, WriteFile, Saved
<1>5. CASE Restarting(w) \/ Waiting(w) \/ Waiter(w) \/ Helpers(w)
      BY <1>5 DEF Restarting, Restart, RestartDone, RestartFails, RestartInterrupted,
         Waiting, Listen, Arm, Resume, Waiter, WaiterReceives, WaiterHandsOver,
         WaiterShutsDown, WaiterExits, Helpers, Helper, SignalContainerd, AttemptFails,
         AttemptErrs, TriedAgain, Misfire
<1>6. CASE Trouble(w)
      BY <1>5, <1>6
      DEF Trouble, WriteFails, Fail, Kill, Finalize, DeliverSignal, DieOfSignal, Helpers
<1> QED
      BY <1>3, <1>4, <1>5, <1>6 DEF Worker, Helpers

\* The helpers count, signal and fail, and may fill channels; what a worker does with
\* the file and with the pid file is not theirs.
SameBut(q, r) ==
  /\ q.pc = r.pc /\ q.phase = r.phase /\ q.classes = r.classes /\ q.next = r.next
  /\ q.tree = r.tree /\ q.saved = r.saved /\ q.waiter = r.waiter /\ q.received = r.received

LEMMA HelpersEffect ==
  ASSUME NEW w \in Workers, DOMAIN proc = Workers, DOMAIN proc[w] = Fields, Helpers(w)
  PROVE  /\ Only(w) /\ SameBut(proc'[w], proc[w])
         /\ UNCHANGED <<fileVars, file, kataConfig, configMap, budget, user, blame>>
<1>1. PICK p \in Phases : SignalContainerd(w, p) \/ TriedAgain(w, p) \/ Misfire(w, p)
      BY DEF Helpers, Helper, AttemptFails, AttemptErrs
<1> USE DEF Only, SameBut, Fields, nodeVars, ghostVars
<1>2. CASE SignalContainerd(w, p)
      BY <1>2 DEF SignalContainerd
<1>3. CASE TriedAgain(w, p)
      BY <1>3 DEF TriedAgain
<1>4. CASE Misfire(w, p)
      BY <1>4 DEF Misfire
<1> QED
      BY <1>1, <1>2, <1>3, <1>4

\* A worker that waits for a signal stops for its waiter, or for a signal it does
\* not catch, or is killed.
LEMMA WaitingEnds ==
  ASSUME GInv, NEW w \in Workers, Worker(w) \/ Trouble(w), At(w, "await"), proc'[w].pc = "down"
  PROVE  WaiterExits(w) \/ Kill(w) \/ \E s \in WaitSignals : DieOfSignal(w, s)
<1>1. DOMAIN proc = Workers /\ DOMAIN proc[w] = Fields /\ proc[w].pc = "await"
      BY FreshFields DEF GInv, TypeOK, ProcOK, At
<1> USE <1>1 DEF At, Fields
<1>2. ~(Configure(w) \/ CreatePidFile(w) \/ LockPidFile(w) \/ PidFileRefused(w)
        \/ WritePidFile(w) \/ Return(w) \/ Exit(w) \/ Edit(w) \/ WriteFails(w) \/ Fail(w))
      BY DEF Configure, CreatePidFile, LockPidFile, PidFileRefused, WritePidFile, Return, Exit,
         Edit, Load, LoadFails, Pull, OpenKataConfig, KataConfigEmpty, AddClass, RemoveClass,
         RemoveFails, RemoveFile, NothingToRemove, TruncateFile, WriteFile, WriteFails, Fail
<1>3. ~Restarting(w) /\ ~Waiting(w)
      BY DEF Restarting, Restart, RestartDone, RestartFails, RestartInterrupted,
         Waiting, Listen, Arm, Resume
<1>4. ~Helpers(w)
  <2>1. SUFFICES ASSUME NEW p \in Phases
                 PROVE  ~(Helper(w, p) \/ AttemptErrs(w, p) \/ Misfire(w, p))
        BY DEF Helpers
  <2>2. ~SignalContainerd(w, p)
        BY DEF SignalContainerd
  <2>3. ~TriedAgain(w, p)
        BY DEF TriedAgain
  <2>4. ~Misfire(w, p)
        BY DEF Misfire
  <2> QED
        BY <2>2, <2>3, <2>4 DEF Helper, AttemptFails, AttemptErrs
<1>5. ~(WaiterReceives(w) \/ WaiterHandsOver(w) \/ WaiterShutsDown(w) \/ Finalize(w))
      BY DEF WaiterReceives, WaiterHandsOver, WaiterShutsDown, Finalize
<1>6. ~ \E s \in WaitSignals : DeliverSignal(w, s)
      BY DEF DeliverSignal
<1> QED
      BY <1>2, <1>3, <1>4, <1>5, <1>6 DEF Worker, Waiter, Trouble, Helpers

\* A worker in waitForSignal() whose early exit has not been decided ends only by
\* a kill: every signal it registered for is caught, and leads to CleanUp.
THEOREM Graceful == Spec => GracefulOnceArmed
<1> DEFINE Step == \A w \in Workers :
             (At(w, "await") /\ proc[w].waiter # "leaving" /\ proc'[w].pc = "down") =>
               budget'.faults < budget.faults
<1>1. ASSUME GInv, [Next]_vars PROVE Step \/ UNCHANGED vars
  <2> SUFFICES ASSUME Next, NEW w \in Workers,
                      At(w, "await"), proc[w].waiter # "leaving", proc'[w].pc = "down"
               PROVE  budget'.faults < budget.faults
      BY <1>1
  <2>1. CASE ContainerdStep \/ EditFile \/ EditConfigMap
        BY <1>1, <2>1, SurroundingTypes DEF GInv, At
  <2>2. ASSUME NEW v \in Workers, Worker(v) \/ Trouble(v)
        PROVE  budget'.faults < budget.faults
    <3>1. v = w
          BY <1>1, <2>2, StepsAreLocal DEF GInv, Only, At
    <3>2. proc[w].waitChan # "none"
          BY <1>1 DEF GInv, Goroutines, GoroutinesOK, WaiterOK, At
    <3>3. Kill(w)
          BY <1>1, <2>2, <3>1, <3>2, WaitingEnds DEF WaiterExits, DieOfSignal, Catches
    <3>4. budget \in [{"signals", "faults", "edits"} -> Nat]
          BY <1>1 DEF GInv, TypeOK
    <3> QED
          BY <3>3, <3>4 DEF Kill, Spend
  <2> QED
        BY <2>1, <2>2 DEF Next, ContainerdStep
<1>2. Spec => []GInv
      BY GoroutinesCorrect
<1> QED
      BY <1>1, <1>2, PTL DEF Spec, GracefulOnceArmed, Step

\* A caught signal is ignored only while containerd is restarted, or between the
\* return of Restart() and the Notify of waitForSignal().
THEOREM SignalsHeeded == Spec => IgnoredOnlyWhileRestarting
<1> DEFINE Step == \A w \in Workers, s \in WaitSignals :
             DeliverSignal(w, s) => Heeds(proc'[w]) \/ proc[w].pc \in {"select", "listen"}
<1>1. ASSUME GInv PROVE Step
  <2> SUFFICES ASSUME NEW w \in Workers, NEW s \in WaitSignals, DeliverSignal(w, s)
               PROVE  Heeds(proc'[w]) \/ proc[w].pc \in {"select", "listen"}
      OBVIOUS
  <2>1. /\ DOMAIN proc = Workers /\ DOMAIN proc[w] = Fields
        /\ proc[w].phase \in Phases
        /\ proc[w].waitChan \in {"none", "empty", "full"}
        /\ proc[w].waiter \in {"none", "receiving", "selecting", "leaving", "done"}
        BY <1>1, FreshFields DEF GInv, TypeOK, ProcOK
  <2>2. WaiterOK(proc[w]) /\ HelperOK(proc[w])
        BY <1>1 DEF GInv, Goroutines, GoroutinesOK
  <2>3. /\ proc'[w].pc = proc[w].pc /\ proc'[w].phase = proc[w].phase
        /\ proc'[w].waiter = proc[w].waiter /\ proc'[w].received = proc[w].received
        /\ proc[w].waitChan # "none" => proc'[w].waitChan = "full"
        BY <2>1 DEF DeliverSignal, Fields
  <2>4. CASE proc[w].waitChan # "none"
        BY <2>1, <2>2, <2>3, <2>4 DEF WaiterOK, Heeds, Phases
  <2>5. CASE proc[w].waitChan = "none"
        BY <2>2, <2>3, <2>5 DEF HelperOK, Heeds, DeliverSignal, Catches
  <2> QED
        BY <2>4, <2>5
<1>2. Spec => []GInv
      BY GoroutinesCorrect
<1> QED
      BY <1>1, <1>2, PTL DEF IgnoredOnlyWhileRestarting, Step

-----------------------------------------------------------------------------
(* The pid file protocol.                                                  *)

\* A step of worker w that keeps the state of the protocol it is in.
Stays(w) == Only(w) /\ PidState(proc'[w]) = PidState(proc[w])

\* A step of worker w from one state of the protocol to another.
Moves(w, from, to) ==
  /\ Only(w)
  /\ PidState(proc[w]) = from
  /\ PidState(proc'[w]) = to

\* What a step of one worker is for the protocol.
LEMMA ProtocolStep ==
  ASSUME NEW w \in Workers
  PROVE  /\ Stays(w) => pidPc' = pidPc
         /\ \A from, to : Moves(w, from, to) =>
              pidPc[w] = from /\ pidPc' = [pidPc EXCEPT ![w] = to]
BY DEF Stays, Moves, Only, pidPc

\* The end of a process is the end of it in the protocol.
LEMMA DeathEnds ==
  ASSUME GInv, NEW w \in Workers, Die(w), ~At(w, "down")
  PROVE  Pid!PidStep(w)
<1>1. DOMAIN proc = Workers /\ ProcOK(proc[w])
      BY DEF GInv, TypeOK
<1>2. PidState(proc[w]) # "down" /\ PidState(Fresh) = "down"
      BY DEF PidState, At, Fresh
<1>3. Only(w) /\ proc'[w] = Fresh
      BY <1>1 DEF Die, Only
<1>4. pidPc[w] # "down" /\ pidPc' = [pidPc EXCEPT ![w] = "down"]
      BY <1>2, <1>3, ProtocolStep DEF Moves, pidPc
<1>5. Pid!End(w)
      BY <1>4 DEF Pid!End, Die
<1> QED
      BY <1>5 DEF Pid!PidStep

\* The steps up to the load of the configuration, and the last ones, are those of
\* initialize() and shutdown().
LEMMA StartRefines ==
  ASSUME GInv, NEW w \in Workers,
         \/ Configure(w) \/ CreatePidFile(w) \/ LockPidFile(w) \/ PidFileRefused(w)
         \/ WritePidFile(w) \/ Return(w) \/ Exit(w)
  PROVE  Pid!PidStep(w)
<1>1. DOMAIN proc = Workers /\ DOMAIN proc[w] = Fields
      BY FreshFields DEF GInv, TypeOK, ProcOK
<1>2. proc[w].waiter = "leaving" => proc[w].pc \in {"arm", "await"}
      BY DEF GInv, Goroutines, GoroutinesOK, WaiterOK
<1> USE <1>1, <1>2 DEF Moves, Only, PidState, At, Fields, Pid!PidStep, Pid!Goto
<1>3. CASE Configure(w)
  <2>1. Moves(w, "down", "create")
        BY <1>3 DEF Configure
  <2> QED
        BY <1>3, <2>1, ProtocolStep DEF Configure, Pid!Start, fileVars, Pid!fileVars
<1>4. CASE CreatePidFile(w)
  <2>1. Moves(w, "create", "flock")
        BY <1>4 DEF CreatePidFile
  <2> QED
        BY <1>4, <2>1, ProtocolStep DEF CreatePidFile, Pid!Create
<1>5. CASE LockPidFile(w)
  <2>1. Moves(w, "flock", "write")
        BY <1>5 DEF LockPidFile
  <2> QED
        BY <1>5, <2>1, ProtocolStep DEF LockPidFile, Pid!Flock
<1>6. CASE PidFileRefused(w)
      BY <1>6, DeathEnds DEF PidFileRefused
<1>7. CASE WritePidFile(w)
  <2>1. Moves(w, "write", "running")
        BY <1>7 DEF WritePidFile
  <2> QED
        BY <1>7, <2>1, ProtocolStep DEF WritePidFile, Pid!Write
<1>8. CASE Return(w)
  <2>1. Moves(w, "running", "exiting")
        BY <1>8 DEF Return
  <2> QED
        BY <1>8, <2>1, ProtocolStep DEF Return, Pid!Shutdown
<1>9. CASE Exit(w)
      BY <1>9, DeathEnds DEF Exit
<1> QED
      BY <1>3, <1>4, <1>5, <1>6, <1>7, <1>8, <1>9

\* The protocol sees nothing of the steps in between ...
LEMMA RunRefines ==
  ASSUME GInv, NEW w \in Workers,
         \/ Edit(w) \/ Restarting(w) \/ Waiting(w) \/ Helpers(w)
         \/ WaiterReceives(w) \/ WaiterHandsOver(w) \/ WriteFails(w) \/ Fail(w)
         \/ \E s \in WaitSignals : DeliverSignal(w, s)
  PROVE  UNCHANGED Pid!pidVars
<1>1. DOMAIN proc = Workers /\ DOMAIN proc[w] = Fields
      BY FreshFields DEF GInv, TypeOK, ProcOK
<1>2. /\ proc[w].waiter = "leaving" => proc[w].pc \in {"arm", "await"}
      /\ proc[w].received => proc[w].waiter = "done"
      BY DEF GInv, Goroutines, GoroutinesOK, WaiterOK
<1>3. Stays(w) /\ UNCHANGED fileVars => UNCHANGED Pid!pidVars
      BY ProtocolStep DEF fileVars, Pid!pidVars
<1> USE <1>1, <1>2, <1>3 DEF Stays, Only, PidState, At, Fields
<1>4. GiveUp(w) /\ proc[w].pc \in {"load", "loop", "transform", "rewrite", "flush"}
        => UNCHANGED Pid!pidVars
      BY DEF GiveUp
<1>5. CASE Edit(w)
  <2>1. CASE LoadFails(w) \/ KataConfigEmpty(w) \/ RemoveFails(w) \/ NothingToRemove(w)
        BY <1>4, <2>1 DEF LoadFails, KataConfigEmpty, RemoveFails, NothingToRemove
  <2>2. CASE Load(w)
        BY <2>2 DEF Load
  <2>3. CASE Pull(w) \/ OpenKataConfig(w)
        BY <2>3 DEF Pull, OpenKataConfig
  <2>4. CASE AddClass(w)
        BY <2>4 DEF AddClass
  <2>5. CASE RemoveClass(w)
        BY <2>5 DEF RemoveClass, nodeVars
  <2>6. CASE RemoveFile(w) \/ TruncateFile(w) \/ WriteFile(w)
        BY <2>6 DEF RemoveFile, TruncateFile, WriteFile, Saved
  <2> QED
        BY <1>5, <2>1, <2>2, <2>3, <2>4, <2>5, <2>6 DEF Edit
<1>6. CASE Restarting(w)
      BY <1>6 DEF Restarting, Restart, RestartDone, RestartFails, RestartInterrupted, AfterRestart
<1>7. CASE Waiting(w)
  <2>1. CASE Listen(w)
        BY <2>1 DEF Listen
  <2>2. CASE Arm(w)
        BY <2>2 DEF Arm
  <2>3. CASE Resume(w)
    <3>1. proc[w].waiter = "done" /\ proc[w].pc = "await"
          BY <2>3 DEF Resume
    <3> QED
          BY <2>3, <3>1 DEF Resume
  <2> QED
        BY <1>7, <2>1, <2>2, <2>3 DEF Waiting
<1>8. CASE Helpers(w)
      BY <1>1, <1>8, HelpersEffect DEF SameBut
<1>9. CASE WaiterReceives(w) \/ WaiterHandsOver(w)
      BY <1>9 DEF WaiterReceives, WaiterHandsOver
<1>10. CASE WriteFails(w) \/ Fail(w)
      BY <1>4, <1>10 DEF WriteFails, Fail
<1>11. ASSUME NEW s, DeliverSignal(w, s) PROVE UNCHANGED Pid!pidVars
      BY <1>11 DEF DeliverSignal
<1> QED
      BY <1>5, <1>6, <1>7, <1>8, <1>9, <1>10, <1>11

\* ... but for the early exit of waitForSignal(), a death and the collector.
LEMMA EndRefines ==
  ASSUME GInv, NEW w \in Workers,
         \/ WaiterShutsDown(w) \/ WaiterExits(w) \/ Kill(w) \/ Finalize(w)
         \/ \E s \in WaitSignals : DieOfSignal(w, s)
  PROVE  Pid!PidStep(w)
<1>1. DOMAIN proc = Workers /\ DOMAIN proc[w] = Fields
      BY FreshFields DEF GInv, TypeOK, ProcOK
<1>2. proc[w].waiter \in {"selecting", "leaving"} => proc[w].pc \in {"arm", "await"}
      BY DEF GInv, Goroutines, GoroutinesOK, WaiterOK
<1>3. CASE WaiterShutsDown(w)
  <2>1. Moves(w, "running", "exiting")
        BY <1>1, <1>2, <1>3 DEF WaiterShutsDown, Moves, Only, PidState, Fields
  <2> QED
        BY <1>3, <2>1, ProtocolStep DEF WaiterShutsDown, Pid!Shutdown, Pid!Goto, Pid!PidStep
<1>4. CASE WaiterExits(w)
      BY <1>2, <1>4, DeathEnds DEF WaiterExits, At
<1>5. CASE Kill(w) \/ \E s \in WaitSignals : DieOfSignal(w, s)
      BY <1>5, DeathEnds DEF Kill, DieOfSignal
<1>6. CASE Finalize(w)
      BY <1>6 DEF Finalize, pidPc, Pid!Finalize, Pid!PidStep
<1> QED
      BY <1>3, <1>4, <1>5, <1>6

\* Every step of the node is a step of the protocol or none.
LEMMA StepRefines == GInv /\ [Next]_vars => [Pid!Next]_(Pid!pidVars)
<1> SUFFICES ASSUME GInv, [Next]_vars PROVE Pid!Next \/ UNCHANGED Pid!pidVars
    OBVIOUS
<1>1. UNCHANGED <<proc, fileVars>> => UNCHANGED Pid!pidVars
      BY DEF Pid!pidVars, fileVars, pidPc
<1>2. CASE UNCHANGED vars
      BY <1>1, <1>2 DEF vars
<1>3. CASE ContainerdStep \/ EditFile \/ EditConfigMap
      BY <1>1, <1>3, SurroundingTypes DEF GInv
<1>4. ASSUME NEW w \in Workers, Worker(w) \/ Trouble(w)
      PROVE  Pid!PidStep(w) \/ UNCHANGED Pid!pidVars
      BY <1>4, StartRefines, RunRefines, EndRefines DEF Worker, Trouble, Waiter, Helpers
<1> QED
      BY <1>2, <1>3, <1>4 DEF Next, ContainerdStep, Pid!Next

\* The worker, whatever else it does, takes and leaves the pid file as the protocol
\* says: what WorkerProofs proves of the protocol is true of the worker.
THEOREM ImplementsPidFile == Spec => PidFileProtocol
<1>1. Init => Pid!Init
      BY DEF Init, Pid!Init, pidPc, PidState, Fresh
<1>2. Spec => []GInv
      BY GoroutinesCorrect
<1> QED
      BY <1>1, <1>2, StepRefines, PTL DEF Spec, PidFileProtocol, Pid!Spec

-----------------------------------------------------------------------------
(* The administrator's part.                                               *)

\* Two workers between a load and a save are recorded in the history.
EditorsAlone ==
  "overlap" \notin blame =>
    \A v, w \in Workers : proc[v].pc \in Editing /\ proc[w].pc \in Editing => v = w

\* Unless the history has something to blame, what is edited is what is on disk.
TreesTrue ==
  blame \subseteq {"crossed", "meddled", "abandoned"} =>
    \A w \in Workers : proc[w].pc \in Editing => UserConfig(proc[w].tree) = user

\* The inductive invariant.
UserInv == TypeOK /\ KeepsUserConfig /\ EditorsAlone /\ TreesTrue

\* A step of worker w that leaves the file, and the administrator's part of the
\* tree it edits, alone.
Quiet(w) ==
  /\ Only(w)
  /\ UNCHANGED <<file, user>>
  /\ blame \subseteq blame'
  /\ proc'[w].pc \in Editing =>
       proc[w].pc \in Editing /\ UserConfig(proc'[w].tree) = UserConfig(proc[w].tree)
  /\ At(w, "flush") /\ blame' \subseteq {"crossed", "meddled", "abandoned"} => proc'[w].pc = "flush"

-----------------------------------------------------------------------------

\* A quiet step keeps the invariant.
LEMMA QuietKeeps ==
  ASSUME UserInv, NEW w \in Workers, Quiet(w)
  PROVE  KeepsUserConfig' /\ EditorsAlone' /\ TreesTrue'
<1> USE DEF Quiet, Only
<1>1. blame' \subseteq {"crossed", "meddled", "abandoned"} => blame \subseteq {"crossed", "meddled", "abandoned"}
      OBVIOUS
<1>2. \A v \in Workers : proc'[v].pc \in Editing =>
        proc[v].pc \in Editing /\ UserConfig(proc'[v].tree) = UserConfig(proc[v].tree)
      OBVIOUS
<1>3. KeepsUserConfig'
      BY <1>1 DEF UserInv, KeepsUserConfig, At
<1>4. EditorsAlone'
      BY <1>2 DEF UserInv, EditorsAlone
<1>5. TreesTrue'
      BY <1>1, <1>2 DEF UserInv, TreesTrue
<1> QED
      BY <1>3, <1>4, <1>5

\* A worker that ends in the middle of its save is blamed for it, and one that
\* ends elsewhere leaves the file alone.
LEMMA DeathIsQuiet ==
  ASSUME TypeOK, NEW w \in Workers, Die(w)
  PROVE  Quiet(w)
<1>1. DOMAIN proc = Workers
      BY DEF TypeOK
<1>2. UNCHANGED <<file, user>> /\ blame \subseteq blame' /\ (At(w, "flush") => "torn" \in blame')
      BY DEF Die
<1>3. Only(w) /\ proc'[w].pc = "down"
      BY <1>1 DEF Die, Fresh, Only
<1> QED
      BY <1>2, <1>3 DEF Quiet, Editing

\* The steps of a worker outside of the loop over the classes are quiet.
LEMMA OutsideIsQuiet ==
  ASSUME TypeOK, NEW w \in Workers,
         \/ Configure(w) \/ CreatePidFile(w) \/ LockPidFile(w) \/ PidFileRefused(w)
         \/ WritePidFile(w) \/ Return(w) \/ Exit(w)
         \/ Restarting(w) \/ Waiting(w) \/ Waiter(w) \/ Helpers(w)
  PROVE  Quiet(w)
<1>1. DOMAIN proc = Workers /\ DOMAIN proc[w] = Fields
      BY FreshFields DEF TypeOK, ProcOK
<1> USE DEF Quiet, Only, Editing, ghostVars, At
<1>2. Die(w) => Quiet(w)
      BY DeathIsQuiet
<1> USE DEF Fields
<1>3. CASE PidFileRefused(w) \/ Exit(w) \/ WaiterExits(w)
      BY <1>2, <1>3 DEF PidFileRefused, Exit, WaiterExits
<1>4. CASE Configure(w) \/ CreatePidFile(w) \/ LockPidFile(w) \/ WritePidFile(w) \/ Return(w)
      BY <1>1, <1>4 DEF Configure, CreatePidFile, LockPidFile, WritePidFile, Return
<1>5. CASE Restarting(w)
      BY <1>1, <1>5 DEF Restarting, Restart, RestartDone, RestartFails, RestartInterrupted,
         AfterRestart
<1>6. CASE Waiting(w)
      BY <1>1, <1>6 DEF Waiting, Listen, Arm, Resume
<1>7. CASE WaiterReceives(w) \/ WaiterHandsOver(w) \/ WaiterShutsDown(w)
      BY <1>1, <1>7 DEF WaiterReceives, WaiterHandsOver, WaiterShutsDown
<1>8. CASE Helpers(w)
      BY <1>1, <1>8, HelpersEffect DEF SameBut
<1> QED
      BY <1>3, <1>4, <1>5, <1>6, <1>7, <1>8 DEF Waiter

\* So are those in the loop, which change the entry of one class at a time.
LEMMA LoopIsQuiet ==
  ASSUME TypeOK, NEW w \in Workers,
         \/ LoadFails(w) \/ Pull(w) \/ OpenKataConfig(w) \/ KataConfigEmpty(w) \/ AddClass(w)
         \/ RemoveClass(w) \/ RemoveFails(w) \/ NothingToRemove(w)
  PROVE  Quiet(w)
<1>1. DOMAIN proc = Workers /\ DOMAIN proc[w] = Fields /\ ProcOK(proc[w])
      BY FreshFields DEF TypeOK, ProcOK
<1> USE DEF Quiet, Only, Editing, ghostVars, At, Fields
<1>2. GiveUp(w) /\ UNCHANGED <<file, blame>> /\ ~At(w, "flush") => Quiet(w)
      BY <1>1 DEF GiveUp
<1>3. CASE LoadFails(w) \/ KataConfigEmpty(w) \/ RemoveFails(w) \/ NothingToRemove(w)
      BY <1>2, <1>3 DEF LoadFails, KataConfigEmpty, RemoveFails, NothingToRemove
<1>4. CASE Pull(w) \/ OpenKataConfig(w)
      BY <1>1, <1>4 DEF Pull, OpenKataConfig
<1>5. CASE AddClass(w)
  <2>1. Class(w) \in Names /\ Class(w) \notin {Table, Absent} /\ Editable(proc[w].tree)
        BY <1>1, <1>5, ClassNamed DEF AddClass, MoreClasses, ProcOK
  <2>2. UserConfig(AddRuntime(proc[w].tree, Class(w), Class(w), FALSE)) = UserConfig(proc[w].tree)
        BY <2>1, AddRuntimeEffect DEF AddsOnly
  <2> QED
        BY <1>1, <1>5, <2>2 DEF AddClass
<1>6. CASE RemoveClass(w)
  <2>1. Class(w) \in Names /\ Editable(proc[w].tree)
        BY <1>1, <1>6, ClassNamed DEF RemoveClass, ProcOK
  <2>2. UserConfig(RemoveRuntime(proc[w].tree, Class(w))) = UserConfig(proc[w].tree)
        BY <2>1, RemoveRuntimeKeeps
  <2> QED
        BY <1>1, <1>6, <2>2 DEF RemoveClass
<1> QED
      BY <1>3, <1>4, <1>5, <1>6

\* Failures, signals and deaths are quiet, but for a write that fails.
LEMMA TroubleIsQuiet ==
  ASSUME TypeOK, NEW w \in Workers, Trouble(w), ~WriteFails(w)
  PROVE  Quiet(w)
<1>1. DOMAIN proc = Workers /\ DOMAIN proc[w] = Fields
      BY FreshFields DEF TypeOK, ProcOK
<1> USE DEF Quiet, Only, Editing, ghostVars, At
<1>2. CASE Kill(w) \/ \E s \in WaitSignals : DieOfSignal(w, s)
      BY <1>2, DeathIsQuiet DEF Kill, DieOfSignal
<1>3. CASE Fail(w)
      BY <1>1, <1>3 DEF Fail, GiveUp, Fields
<1>4. ASSUME NEW s, DeliverSignal(w, s) PROVE Quiet(w)
      BY <1>1, <1>4 DEF DeliverSignal, Fields
<1>5. CASE Finalize(w)
      BY <1>1, <1>5 DEF Finalize
<1> QED
      BY <1>2, <1>3, <1>4, <1>5, OutsideIsQuiet DEF Trouble, Helpers

-----------------------------------------------------------------------------

\* The load of the file, and the steps that write it, keep the invariant.
LEMMA FileStepsKeep ==
  ASSUME UserInv, NEW w \in Workers,
         \/ Load(w) \/ RemoveFile(w) \/ TruncateFile(w) \/ WriteFile(w) \/ WriteFails(w)
  PROVE  KeepsUserConfig' /\ EditorsAlone' /\ TreesTrue'
<1>1. DOMAIN proc = Workers /\ DOMAIN proc[w] = Fields /\ ProcOK(proc[w])
      BY FreshFields DEF UserInv, TypeOK, ProcOK
<1>2. KeepsUserConfig /\ EditorsAlone /\ TreesTrue
      BY DEF UserInv
<1>3. proc[w].pc \in Editing => Editable(proc[w].tree)
      BY <1>1 DEF ProcOK
<1> USE DEF ghostVars, At, Fields, Editing
<1>4. CASE Load(w)
  <2>1. /\ Only(w) /\ proc'[w].pc = "loop" /\ proc'[w].tree = Content(file)
        /\ UNCHANGED <<file, user>> /\ blame \subseteq blame'
        BY <1>1, <1>4 DEF Load, Only
  <2>2. "overlap" \notin blame' => \A v \in Workers \ {w} : proc[v].pc \notin Editing
        BY <1>4 DEF Load
  <2>3. blame' \subseteq {"crossed", "meddled", "abandoned"} => UserConfig(Content(file)) = user
        BY <1>2, <1>4, <2>1, <2>2 DEF KeepsUserConfig, Load
  <2>4. KeepsUserConfig'
        BY <2>1, <2>3 DEF KeepsUserConfig
  <2>5. EditorsAlone'
        BY <2>1, <2>2 DEF EditorsAlone, Only
  <2>6. TreesTrue'
        BY <1>2, <2>1, <2>3 DEF TreesTrue, Only
  <2> QED
        BY <2>4, <2>5, <2>6
<1>5. CASE RemoveFile(w)
  <2>1. /\ Only(w) /\ proc'[w].pc = "restart" /\ proc[w].pc = "loop"
        /\ file' = NoFile /\ UNCHANGED <<user, blame>>
        BY <1>1, <1>5 DEF RemoveFile, Saved, Only
  <2>2. UserConfig(proc[w].tree) = UserConfig(EmptyTree)
        BY <1>3, <1>5, RendersEmptyIsEmpty DEF RemoveFile, Editable
  <2>3. KeepsUserConfig'
        BY <1>2, <2>1, <2>2 DEF KeepsUserConfig, TreesTrue, Content
  <2>4. EditorsAlone' /\ TreesTrue'
        BY <1>2, <2>1 DEF EditorsAlone, TreesTrue, Only
  <2> QED
        BY <2>3, <2>4
<1>6. CASE TruncateFile(w)
  <2>1. /\ Only(w) /\ proc'[w].pc = "flush" /\ proc'[w].tree = proc[w].tree
        /\ proc[w].pc = "loop" /\ UNCHANGED <<user, blame>>
        BY <1>1, <1>6 DEF TruncateFile, Only
  <2>2. KeepsUserConfig'
        BY <2>1 DEF KeepsUserConfig
  <2>3. EditorsAlone' /\ TreesTrue'
        BY <1>2, <2>1 DEF EditorsAlone, TreesTrue, Only
  <2> QED
        BY <2>2, <2>3
<1>7. CASE WriteFile(w)
  <2>1. /\ Only(w) /\ proc'[w].pc = "restart" /\ proc[w].pc = "flush"
        /\ file' = proc[w].tree /\ UNCHANGED <<user, blame>>
        BY <1>1, <1>7 DEF WriteFile, Saved, Only
  <2>2. Content(proc[w].tree) = proc[w].tree
        BY <1>3, <2>1, TreesAreFiles DEF Content
  <2>3. KeepsUserConfig'
        BY <1>2, <2>1, <2>2 DEF KeepsUserConfig, TreesTrue
  <2>4. EditorsAlone' /\ TreesTrue'
        BY <1>2, <2>1 DEF EditorsAlone, TreesTrue, Only
  <2> QED
        BY <2>3, <2>4
<1>8. CASE WriteFails(w)
  <2>1. /\ Only(w) /\ proc'[w].pc = "return" /\ "torn" \in blame'
        /\ "overlap" \in blame => "overlap" \in blame'
        BY <1>1, <1>8 DEF WriteFails, GiveUp, Only
  <2>2. KeepsUserConfig' /\ TreesTrue'
        BY <2>1 DEF KeepsUserConfig, TreesTrue
  <2>3. EditorsAlone'
        BY <1>2, <2>1 DEF EditorsAlone, Only
  <2> QED
        BY <2>2, <2>3
<1> QED
      BY <1>4, <1>5, <1>6, <1>7, <1>8

\* The administrator's own edit makes the file his again.
LEMMA EditKeeps ==
  ASSUME UserInv, EditFile
  PROVE  KeepsUserConfig' /\ EditorsAlone' /\ TreesTrue'
<1>1. /\ user' = UserConfig(file') /\ Editable(file') /\ proc' = proc
      /\ blame \subseteq blame'
      /\ (\E w \in Workers : proc[w].pc \in Editing) => "raced" \in blame'
      BY DEF EditFile
<1>2. KeepsUserConfig'
      BY <1>1, TreesAreFiles DEF KeepsUserConfig, Content
<1>3. EditorsAlone' /\ TreesTrue'
      BY <1>1 DEF EditorsAlone, TreesTrue, UserInv
<1> QED
      BY <1>2, <1>3

-----------------------------------------------------------------------------
\* The invariant holds when no worker has started.
LEMMA InitUser == Init => UserInv
<1> SUFFICES ASSUME Init PROVE UserInv
    OBVIOUS
<1>1. \A w \in Workers : proc[w].pc = "down"
      BY DEF Init, Fresh
<1> QED
      BY <1>1, InitTypes
      DEF Init, UserInv, KeepsUserConfig, EditorsAlone, TreesTrue, Editing

\* Every step keeps it.
LEMMA StepUser == UserInv /\ [Next]_vars => UserInv'
<1> SUFFICES ASSUME UserInv, [Next]_vars PROVE UserInv'
    OBVIOUS
<1>1. TypeOK'
      BY StepTypes DEF UserInv
<1>2. KeepsUserConfig' /\ EditorsAlone' /\ TreesTrue'
  <2>1. CASE UNCHANGED vars
        BY <2>1 DEF vars, ghostVars, UserInv, KeepsUserConfig, EditorsAlone, TreesTrue, At
  <2>2. ASSUME NEW w \in Workers, Worker(w) \/ Trouble(w)
        PROVE  KeepsUserConfig' /\ EditorsAlone' /\ TreesTrue'
    <3>1. CASE Load(w) \/ RemoveFile(w) \/ TruncateFile(w) \/ WriteFile(w) \/ WriteFails(w)
          BY <3>1, FileStepsKeep
    <3>2. CASE ~(Load(w) \/ RemoveFile(w) \/ TruncateFile(w) \/ WriteFile(w) \/ WriteFails(w))
      <4>1. Quiet(w)
            BY <2>2, <3>2, OutsideIsQuiet, LoopIsQuiet, TroubleIsQuiet
            DEF UserInv, Worker, Edit, Helpers
      <4> QED
            BY <4>1, QuietKeeps
    <3> QED
          BY <3>1, <3>2
  <2>3. CASE EditFile
        BY <2>3, EditKeeps
  <2>4. CASE ContainerdStep \/ EditConfigMap
        BY <2>4 DEF ContainerdStep, StartContainerd, ContainerdStops, ContainerdHangs,
           ContainerdRecovers, EditConfigMap, ghostVars,
           UserInv, KeepsUserConfig, EditorsAlone, TreesTrue, At
  <2> QED
        BY <2>1, <2>2, <2>3, <2>4 DEF Next, ContainerdStep
<1> QED
      BY <1>1, <1>2 DEF UserInv

\* Whatever the workers are told, whenever they die and however often they are
\* started again, what is the administrator's in the containerd configuration stays
\* as he left it, unless a save was cut short or overlapped another edit.
THEOREM UserConfigKept == Spec => []KeepsUserConfig
<1>1. Spec => []UserInv
      BY InitUser, StepUser, PTL DEF Spec
<1>2. UserInv => KeepsUserConfig
      BY DEF UserInv
<1> QED
      BY <1>1, <1>2, PTL

-----------------------------------------------------------------------------
(* The entries of the classes.                                             *)

ClassesOf(r) == {r.classes[i] : i \in DOMAIN r.classes}

\* The classes the loop is through with.
Done(r) == {r.classes[i] : i \in 1 .. r.next - 1}

\* Nothing of this kind has happened.
Unblamed(kinds) == kinds \intersect blame = {}

\* After a save, until the process ends or CleanUp() begins.
Settled == {"restart", "select", "listen", "arm", "await"}

\* What AddRuntime and RemoveRuntime are called for.
Has(t, n)     == GetPath(t, ConfigPath(n)) = n /\ GetPath(t, TypePath(n)) = RuntimeType
Without(t, n) == n \notin RuntimesOf(t) /\ DefaultRuntime(t) # n

\* The history records that a worker loads what another one is about to change.
HolderAlone ==
  Unblamed({"crossed"}) =>
    \A v, w \in Workers : proc[v].pc \in Holding /\ proc[w].pc \in Holding => v = w

\* The entries in the file are those AddRuntime makes.
FileTyped == Unblamed({"meddled"}) /\ file # Corrupt => EntriesTyped(Content(file))

\* How far the loop is: in the tree, and in the directories of the classes.
EditOK(r) ==
  r.pc \in Editing =>
    /\ r.pc = "flush" => r.next > Len(r.classes)
    /\ Unblamed({"meddled"}) => EntriesTyped(r.tree)
    /\ Unblamed({"meddled"}) /\ r.phase = "Run" => \A n \in Done(r) : Has(r.tree, n)
    /\ r.phase = "CleanUp" => \A n \in Done(r) : Without(r.tree, n)
    /\ Unblamed({"crossed"}) /\ r.phase = "Run" =>
         \A n \in Done(r) :
           \/ kataConfig[n] = "transformed"
           \/ r.pc \in {"transform", "rewrite"} /\ n = r.classes[r.next]

\* What the loop has come to is in the file.
SettledOK(r) ==
  r.pc \in Settled /\ Unblamed({"crossed", "meddled"}) =>
    \A n \in ClassesOf(r) :
      IF r.phase = "Run"
      THEN Has(Content(file), n) /\ kataConfig[n] = "transformed"
      ELSE Without(Content(file), n)

\* A class some worker has still to take out of the file.
Owned(n) == \E w \in Workers : proc[w].saved = "Run" /\ n \in ClassesOf(proc[w])

\* Every entry there is has an owner, or is being made.
EntriesOwned ==
  Unblamed({"abandoned", "crossed", "meddled"}) =>
    /\ file # Corrupt => \A n \in RuntimesOf(Content(file)) : Owned(n)
    /\ \A w \in Workers : proc[w].pc \in Editing =>
         \A n \in RuntimesOf(proc[w].tree) :
           Owned(n) \/ (proc[w].phase = "Run" /\ n \in Done(proc[w]))

Edits    == \A w \in Workers : EditOK(proc[w])
Settling == \A w \in Workers : SettledOK(proc[w])

Entries == HolderAlone /\ FileTyped /\ Edits /\ Settling /\ EntriesOwned

\* The inductive invariant.
EInv == GInv /\ Entries

-----------------------------------------------------------------------------

\* What a worker is called with are names.
LEMMA ClassesAreNames ==
  ASSUME NEW r, ProcOK(r)
  PROVE  /\ ClassesOf(r) \subseteq Names
         /\ r.pc \in Editing => Done(r) \subseteq ClassesOf(r)
         /\ r.pc \in Editing /\ r.next > Len(r.classes) => Done(r) = ClassesOf(r)
<1>1. r.classes \in Seq(Names) /\ r.next \in Nat
      BY DEF ProcOK
<1>2. DOMAIN r.classes = 1 .. Len(r.classes) /\ Len(r.classes) \in Nat
      BY <1>1
<1>3. ClassesOf(r) \subseteq Names
      BY <1>1 DEF ClassesOf
<1>4. ASSUME r.pc \in Editing
      PROVE  /\ Done(r) \subseteq ClassesOf(r)
             /\ r.next > Len(r.classes) => Done(r) = ClassesOf(r)
  <2>1. r.next \in 1 .. Len(r.classes) + 1
        BY <1>4 DEF ProcOK
  <2>2. 1 .. r.next - 1 \subseteq 1 .. Len(r.classes)
        BY <1>2, <2>1
  <2>3. r.next > Len(r.classes) => 1 .. r.next - 1 = 1 .. Len(r.classes)
        BY <1>2, <2>1
  <2> QED
        BY <1>2, <2>2, <2>3 DEF Done, ClassesOf
<1> QED
      BY <1>3, <1>4

\* A class that is configured is there.
LEMMA HasIsThere ==
  ASSUME NEW t, Editable(t), NEW n \in Names, Has(t, n)
  PROVE  n \in RuntimesOf(t)
BY EntryIsThere, ValuesAreNoMarkers DEF Has

\* Entries that are the same are there, and typed, in the same way.
LEMMA SameEntry ==
  ASSUME NEW s, NEW t, NEW n \in Names,
         \A q \in Path : IsPrefix(RuntimePath(n), q) => GetPath(s, q) = GetPath(t, q)
  PROVE  /\ n \in RuntimesOf(s) <=> n \in RuntimesOf(t)
         /\ GetPath(s, TypePath(n)) = GetPath(t, TypePath(n))
         /\ Has(s, n) <=> Has(t, n)
<1>1. \A q \in {RuntimePath(n), TypePath(n), ConfigPath(n)} : GetPath(s, q) = GetPath(t, q)
      BY EntryPaths
<1> QED
      BY <1>1 DEF RuntimesOf, Has

\* AddRuntime, as Run() calls it.
LEMMA AddedClass ==
  ASSUME NEW t, Editable(t), NEW n \in Names, NEW a, a = AddRuntime(t, n, n, FALSE)
  PROVE  /\ RuntimesOf(a) = RuntimesOf(t) \union {n}
         /\ EntriesTyped(t) => EntriesTyped(a) /\ Has(a, n)
         /\ \A m \in Names \ {n} : Has(t, m) => Has(a, m)
<1>1. n \notin {Table, Absent}
      BY ValuesAreNoMarkers
<1>2. AddsOnly(t, a, n) /\ MakesEntry(t, a, n, n)
      BY <1>1, AddRuntimeEffect
<1>3. \A m \in Names \ {n} : /\ GetPath(a, TypePath(m)) = GetPath(t, TypePath(m))
                             /\ Has(t, m) => Has(a, m)
      BY <1>2, SameEntry DEF AddsOnly
<1>4. EntriesTyped(t) => EntriesTyped(a) /\ Has(a, n)
  <2>1. SUFFICES ASSUME EntriesTyped(t) PROVE EntriesTyped(a) /\ Has(a, n)
        OBVIOUS
  <2>2. GetPath(a, TypePath(n)) = RuntimeType
        BY <1>2, <2>1 DEF EntriesTyped, MakesEntry
  <2>3. \A m \in RuntimesOf(t) \ {n} : GetPath(a, TypePath(m)) = RuntimeType
        BY <1>3, <2>1 DEF EntriesTyped, RuntimesOf
  <2> QED
        BY <1>2, <2>2, <2>3 DEF EntriesTyped, Has, AddsOnly, MakesEntry
<1> QED
      BY <1>2, <1>3, <1>4 DEF AddsOnly

\* RemoveRuntime, as CleanUp() calls it.
LEMMA RemovedClass ==
  ASSUME NEW t, Editable(t), NEW n \in Names, NEW r, r = RemoveRuntime(t, n)
  PROVE  /\ RuntimesOf(r) \subseteq RuntimesOf(t)
         /\ EntriesTyped(t) => EntriesTyped(r)
         /\ Without(r, n)
         /\ \A m \in Names : Without(t, m) => Without(r, m)
<1>1. /\ DefaultRuntime(r) = IF DefaultRuntime(t) = n THEN Absent ELSE DefaultRuntime(t)
      /\ RuntimesOf(r) = RuntimesOf(t) \ {n}
      /\ \A m \in Names \ {n}, q \in Path :
           IsPrefix(RuntimePath(m), q) => GetPath(r, q) = GetPath(t, q)
      BY RemoveRuntimeEffect
<1>2. \A m \in Names \ {n} : GetPath(r, TypePath(m)) = GetPath(t, TypePath(m))
      BY <1>1, SameEntry
<1>3. EntriesTyped(t) => EntriesTyped(r)
      BY <1>1, <1>2 DEF EntriesTyped, RuntimesOf
<1>4. \A m \in Names : m # Absent
      BY ValuesAreNoMarkers
<1> QED
      BY <1>1, <1>3, <1>4 DEF Without

-----------------------------------------------------------------------------
(* Steps that do not edit.                                                 *)

\* A step of worker w that leaves the files, the tree it edits and the place it
\* has come to in the loop alone, and what it has saved as well unless it ends.
Calm(w) ==
  /\ Only(w)
  /\ UNCHANGED <<file, kataConfig>>
  /\ blame \subseteq blame'
  /\ proc'[w].pc \in Holding =>
       /\ proc[w].pc \in Holding
       /\ proc'[w].phase = proc[w].phase
       /\ proc'[w].classes = proc[w].classes
  /\ proc'[w].pc \in Editing =>
       /\ proc'[w].pc = proc[w].pc
       /\ proc'[w].tree = proc[w].tree
       /\ proc'[w].next = proc[w].next
  /\ proc'[w].pc \in Settled => proc[w].pc \in Settled
  /\ "abandoned" \notin blame' /\ proc[w].saved = "Run" =>
       proc'[w].saved = "Run" /\ proc'[w].classes = proc[w].classes

\* What is not blamed after a step was not blamed before it.
LEMMA BlameStays ==
  ASSUME blame \subseteq blame', NEW kinds, Unblamed(kinds)'
  PROVE  Unblamed(kinds)
BY DEF Unblamed

\* A calm step keeps the invariant.
LEMMA CalmKeeps ==
  ASSUME EInv, NEW w \in Workers, Calm(w)
  PROVE  Entries'
<1>1. /\ Only(w) /\ file' = file /\ kataConfig' = kataConfig
      /\ \A kinds : Unblamed(kinds)' => Unblamed(kinds)
      BY BlameStays DEF Calm
<1>2. HolderAlone /\ FileTyped /\ Edits /\ Settling /\ EntriesOwned
      BY DEF EInv, Entries
<1>3. \A v \in Workers : proc'[v].pc \in Holding => proc[v].pc \in Holding
      BY DEF Calm, Only
<1>4. HolderAlone'
      BY <1>1, <1>2, <1>3 DEF HolderAlone
<1>5. FileTyped'
      BY <1>1, <1>2 DEF FileTyped
<1>6. \A v \in Workers : proc'[v].pc \in Editing =>
        /\ proc[v].pc = proc'[v].pc /\ proc'[v].phase = proc[v].phase
        /\ proc'[v].classes = proc[v].classes
        /\ proc'[v].tree = proc[v].tree /\ proc'[v].next = proc[v].next
      BY DEF Calm, Only, Holding
<1>7. Edits'
  <2>1. SUFFICES ASSUME NEW v \in Workers, proc'[v].pc \in Editing PROVE EditOK(proc[v])'
        BY DEF Edits, EditOK
  <2>2. EditOK(proc[v]) /\ Done(proc[v])' = Done(proc[v])
        BY <1>2, <1>6, <2>1 DEF Edits, Done
  <2> QED
        BY <1>1, <1>6, <2>1, <2>2 DEF EditOK
<1>8. Settling'
  <2>1. SUFFICES ASSUME NEW v \in Workers, proc'[v].pc \in Settled PROVE SettledOK(proc[v])'
        BY DEF Settling, SettledOK
  <2>2. /\ proc[v].pc \in Settled /\ proc'[v].phase = proc[v].phase
        /\ proc'[v].classes = proc[v].classes
        BY <2>1 DEF Calm, Only, Holding, Settled
  <2> QED
        BY <1>1, <1>2, <2>2 DEF Settling, SettledOK, ClassesOf
<1>9. EntriesOwned'
  <2>1. SUFFICES ASSUME Unblamed({"abandoned", "crossed", "meddled"})' PROVE EntriesOwned'
        BY DEF EntriesOwned
  <2>2. "abandoned" \notin blame'
        BY <2>1 DEF Unblamed
  <2>3. ASSUME NEW n, Owned(n) PROVE Owned(n)'
    <3>1. PICK v \in Workers : proc[v].saved = "Run" /\ n \in ClassesOf(proc[v])
          BY <2>3 DEF Owned
    <3>2. proc'[v].saved = "Run" /\ proc'[v].classes = proc[v].classes
          BY <2>2, <3>1 DEF Calm, Only
    <3> QED
          BY <3>1, <3>2 DEF Owned, ClassesOf
  <2>4. \A v \in Workers : proc'[v].pc \in Editing => Done(proc[v])' = Done(proc[v])
        BY <1>6 DEF Done
  <2> QED
        BY <1>1, <1>2, <1>6, <2>1, <2>3, <2>4 DEF EntriesOwned
<1> QED
      BY <1>4, <1>5, <1>7, <1>8, <1>9 DEF Entries

\* The end of a process is calm: what it leaves behind is recorded.
LEMMA DeathIsCalm ==
  ASSUME TypeOK, NEW w \in Workers, Die(w)
  PROVE  Calm(w)
<1>1. DOMAIN proc = Workers
      BY DEF TypeOK
<1>2. Only(w) /\ proc'[w].pc = "down"
      BY <1>1 DEF Die, Fresh, Only
<1>3. /\ UNCHANGED <<file, kataConfig>> /\ blame \subseteq blame'
      /\ proc[w].saved = "Run" => "abandoned" \in blame'
      BY DEF Die, nodeVars
<1> QED
      BY <1>2, <1>3 DEF Calm, Holding, Editing, Settled

\* So is a return with an error that leaves the file alone.
LEMMA GivingUpIsCalm ==
  ASSUME TypeOK, NEW w \in Workers, GiveUp(w), file' = file, blame' = blame
  PROVE  Calm(w)
<1>1. DOMAIN proc = Workers /\ DOMAIN proc[w] = Fields
      BY FreshFields DEF TypeOK, ProcOK
<1> QED
      BY <1>1 DEF GiveUp, Calm, Only, Holding, Editing, Settled, Fields, nodeVars

\* The steps before the load and after the save are calm.
LEMMA OutsideIsCalm ==
  ASSUME GInv, NEW w \in Workers,
         \/ Configure(w) \/ CreatePidFile(w) \/ LockPidFile(w) \/ PidFileRefused(w)
         \/ WritePidFile(w) \/ Return(w) \/ Exit(w)
         \/ Restarting(w) \/ Waiting(w) \/ Waiter(w) \/ Helpers(w)
  PROVE  Calm(w)
<1>1. /\ TypeOK /\ DOMAIN proc = Workers /\ DOMAIN proc[w] = Fields
      /\ proc[w].pc = "down" => proc[w].saved = "none"
      BY FreshFields DEF GInv, TypeOK, ProcOK, Goroutines, GoroutinesOK, SavedOK
<1>2. Die(w) => Calm(w)
      BY <1>1, DeathIsCalm
<1> USE <1>1 DEF Calm, Only, Holding, Editing, Settled, At, nodeVars, ghostVars
<1>3. CASE PidFileRefused(w) \/ Exit(w) \/ WaiterExits(w)
      BY <1>2, <1>3 DEF PidFileRefused, Exit, WaiterExits
<1> USE DEF Fields
<1>4. CASE Configure(w)
      BY <1>4 DEF Configure
<1>5. CASE CreatePidFile(w) \/ LockPidFile(w) \/ WritePidFile(w) \/ Return(w)
      BY <1>5 DEF CreatePidFile, LockPidFile, WritePidFile, Return
<1>6. CASE Restarting(w)
      BY <1>6 DEF Restarting, Restart, RestartDone, RestartFails, RestartInterrupted, AfterRestart
<1>7. CASE Waiting(w)
      BY <1>7 DEF Waiting, Listen, Arm, Resume
<1>8. CASE WaiterReceives(w) \/ WaiterHandsOver(w) \/ WaiterShutsDown(w)
      BY <1>8 DEF WaiterReceives, WaiterHandsOver, WaiterShutsDown
<1>9. CASE Helpers(w)
      BY <1>9, HelpersEffect DEF SameBut
<1> QED
      BY <1>3, <1>4, <1>5, <1>6, <1>7, <1>8, <1>9 DEF Waiter

\* And so are failures, but for that of a write, signals and kills.
LEMMA TroubleIsCalm ==
  ASSUME GInv, NEW w \in Workers,
         \/ LoadFails(w) \/ KataConfigEmpty(w) \/ RemoveFails(w) \/ NothingToRemove(w)
         \/ (Trouble(w) /\ ~WriteFails(w))
  PROVE  Calm(w)
<1>1. TypeOK /\ DOMAIN proc = Workers /\ DOMAIN proc[w] = Fields
      BY FreshFields DEF GInv, TypeOK, ProcOK
<1>2. CASE LoadFails(w) \/ KataConfigEmpty(w) \/ RemoveFails(w) \/ NothingToRemove(w) \/ Fail(w)
      BY <1>1, <1>2, GivingUpIsCalm DEF LoadFails, KataConfigEmpty, RemoveFails, NothingToRemove, Fail
<1>3. CASE Kill(w) \/ \E s \in WaitSignals : DieOfSignal(w, s)
      BY <1>1, <1>3, DeathIsCalm DEF Kill, DieOfSignal
<1>4. ASSUME NEW s, DeliverSignal(w, s) PROVE Calm(w)
      BY <1>1, <1>4
      DEF DeliverSignal, Calm, Only, Holding, Editing, Settled, Fields, nodeVars, ghostVars
<1>5. CASE Finalize(w)
      BY <1>1, <1>5 DEF Finalize, Calm, Only, Holding, Editing, Settled, nodeVars, ghostVars
<1> QED
      BY <1>2, <1>3, <1>4, <1>5, OutsideIsCalm DEF Trouble, Helpers

-----------------------------------------------------------------------------
(* Steps that edit.                                                        *)

\* A step of a worker in the loop is no other worker's concern.
LEMMA EditingKeeps ==
  ASSUME EInv, NEW w \in Workers, proc[w].pc \in Editing, Only(w), blame \subseteq blame',
         EditOK(proc[w])', SettledOK(proc[w])'
  PROVE  HolderAlone' /\ Edits' /\ Settling'
<1>1. /\ \A kinds : Unblamed(kinds)' => Unblamed(kinds)
      /\ HolderAlone /\ Edits /\ Settling /\ proc[w].pc \in Holding
      BY BlameStays DEF EInv, Entries, Holding
<1>2. Unblamed({"crossed"}) => \A v \in Workers \ {w} : proc[v].pc \notin Holding
      BY <1>1 DEF HolderAlone
<1>3. \A v \in Workers \ {w} : proc'[v] = proc[v]
      BY DEF Only
<1>4. HolderAlone'
      BY <1>1, <1>2, <1>3 DEF HolderAlone
<1>5. Edits'
  <2>1. SUFFICES ASSUME NEW v \in Workers \ {w} PROVE EditOK(proc[v])'
        BY DEF Edits
  <2>2. EditOK(proc[v]) /\ Done(proc[v])' = Done(proc[v])
        BY <1>1, <1>3 DEF Edits, Done
  <2> QED
        BY <1>1, <1>2, <1>3, <2>2 DEF EditOK, Holding
<1>6. Settling'
  <2>1. SUFFICES ASSUME NEW v \in Workers \ {w} PROVE SettledOK(proc[v])'
        BY DEF Settling
  <2>2. Unblamed({"crossed", "meddled"})' => Unblamed({"crossed"})'
        BY DEF Unblamed
  <2> QED
        BY <1>1, <1>2, <1>3, <2>2 DEF SettledOK, Holding, Settled
<1> QED
      BY <1>4, <1>5, <1>6

\* While it is in the loop, no entry but those it makes changes hands.
LEMMA EditingOwns ==
  ASSUME EInv, NEW w \in Workers, proc[w].pc \in Editing, Only(w), UNCHANGED <<file, blame>>,
         \A f \in {"phase", "classes", "saved"} : proc'[w][f] = proc[w][f],
         proc'[w].next \in {proc[w].next, proc[w].next + 1}, proc[w].next \in Nat,
         \A n \in RuntimesOf(proc'[w].tree) \ RuntimesOf(proc[w].tree) :
           proc[w].phase = "Run" /\ n \in Done(proc'[w])
  PROVE  EntriesOwned'
<1>1. SUFFICES ASSUME Unblamed({"abandoned", "crossed", "meddled"})' PROVE EntriesOwned'
      BY DEF EntriesOwned
<1>2. /\ Unblamed({"abandoned", "crossed", "meddled"}) /\ EntriesOwned
      /\ HolderAlone /\ Unblamed({"crossed"}) /\ proc[w].pc \in Holding
      BY <1>1, BlameStays DEF EInv, Entries, Holding, Unblamed
<1>3. \A v \in Workers \ {w} : proc'[v] = proc[v] /\ proc[v].pc \notin Editing
      BY <1>2 DEF HolderAlone, Only, Holding
<1>4. /\ proc'[w].phase = proc[w].phase /\ proc'[w].classes = proc[w].classes
      /\ proc'[w].saved = proc[w].saved
      OBVIOUS
<1>5. Done(proc[w]) \subseteq Done(proc'[w])
  <2>1. 1 .. proc[w].next - 1 \subseteq 1 .. proc'[w].next - 1
        OBVIOUS
  <2> QED
        BY <1>4, <2>1 DEF Done
<1>6. \A n : Owned(n) => Owned(n)'
      BY <1>3, <1>4 DEF Owned, ClassesOf
<1>7. \A n \in RuntimesOf(proc'[w].tree) :
        Owned(n)' \/ (proc'[w].phase = "Run" /\ n \in Done(proc'[w]))
      BY <1>2, <1>4, <1>5, <1>6 DEF EntriesOwned
<1> QED
      BY <1>2, <1>3, <1>6, <1>7 DEF EntriesOwned, Done

\* The turn of a class.
LEMMA DoneGrows ==
  ASSUME NEW r, NEW q, q.classes = r.classes, r.next \in Nat \ {0}, q.next = r.next + 1
  PROVE  Done(q) = Done(r) \union {r.classes[r.next]}
<1>1. 1 .. q.next - 1 = (1 .. r.next - 1) \union {r.next}
      OBVIOUS
<1> QED
      BY <1>1 DEF Done

\* A class is pulled, and its kata configuration is opened.
LEMMA PullKeeps ==
  ASSUME EInv, NEW w \in Workers, Pull(w) \/ OpenKataConfig(w)
  PROVE  Entries'
<1> DEFINE r == proc[w]
           q == proc'[w]
<1>1. /\ DOMAIN proc = Workers /\ DOMAIN r = Fields /\ ProcOK(r)
      /\ Edits /\ FileTyped
      /\ kataConfig \in [Names -> {"missing", "pulled", "truncated", "transformed"}]
      BY FreshFields DEF EInv, GInv, TypeOK, ProcOK, Entries
<1>2. r.pc \in {"loop", "transform"} /\ r.next <= Len(r.classes) /\ r.phase = "Run"
      BY <1>1 DEF Pull, OpenKataConfig, MoreClasses, ProcOK, At
<1>3. /\ Only(w) /\ UNCHANGED <<file, blame>>
      /\ q = [r EXCEPT !.pc = q.pc] /\ q.pc \in {"transform", "rewrite"}
      /\ \A n \in Names \ {Class(w)} : kataConfig'[n] = kataConfig[n]
      BY <1>1 DEF Pull, OpenKataConfig, Only, Fields, ghostVars
<1> HIDE DEF q
<1>4. /\ q.pc \in Editing /\ q.phase = r.phase /\ q.classes = r.classes /\ q.next = r.next
      /\ q.tree = r.tree /\ q.saved = r.saved
      BY <1>1, <1>3 DEF Fields, Editing
<1>5. Done(r) \subseteq Names
      BY <1>1, <1>2, ClassesAreNames DEF Editing
<1>6. EditOK(r)'
  <2>1. EditOK(r) /\ Done(q) = Done(r)
        BY <1>1, <1>4 DEF Edits, Done
  <2>2. \A kinds : Unblamed(kinds)' <=> Unblamed(kinds)
        BY <1>3 DEF Unblamed
  <2> QED
        BY <1>2, <1>3, <1>4, <1>5, <2>1, <2>2 DEF EditOK, Editing, Class, q
<1>7. SettledOK(r)'
      BY <1>4 DEF SettledOK, Settled, Editing, q
<1>8. FileTyped'
      BY <1>1, <1>3 DEF FileTyped, Unblamed
<1>9. EntriesOwned'
      BY <1>2, <1>3, <1>4, <1>1, EditingOwns DEF q, Editing, ProcOK
<1> QED
      BY <1>2, <1>3, <1>6, <1>7, <1>8, <1>9, EditingKeeps DEF Entries, Editing

\* The entry of a class is made.
LEMMA AddKeeps ==
  ASSUME EInv, NEW w \in Workers, AddClass(w)
  PROVE  Entries'
<1> DEFINE r == proc[w]
           q == proc'[w]
           c == Class(w)
<1>1. /\ DOMAIN proc = Workers /\ DOMAIN r = Fields /\ ProcOK(r)
      /\ Edits /\ FileTyped /\ EditOK(r)
      /\ kataConfig \in [Names -> {"missing", "pulled", "truncated", "transformed"}]
      BY FreshFields DEF EInv, GInv, TypeOK, ProcOK, Entries, Edits
<1>2. /\ r.pc = "rewrite" /\ r.pc \in Editing /\ r.next \in Nat \ {0} /\ r.next <= Len(r.classes)
      /\ r.phase = "Run" /\ Editable(r.tree)
      BY <1>1 DEF AddClass, ProcOK, At, Editing
<1>3. c \in Names /\ c = r.classes[r.next] /\ Done(r) \subseteq Names
      BY <1>1, <1>2, ClassNamed, ClassesAreNames DEF MoreClasses, Class
<1>4. /\ Only(w) /\ UNCHANGED <<file, blame>>
      /\ q = [r EXCEPT !.pc = "loop", !.next = @ + 1, !.tree = AddRuntime(@, c, c, FALSE)]
      /\ kataConfig' = [kataConfig EXCEPT ![c] = "transformed"]
      BY <1>1 DEF AddClass, Only, Fields, ghostVars
<1> HIDE DEF q, c
<1>5. /\ q.pc = "loop" /\ q.phase = r.phase /\ q.classes = r.classes /\ q.next = r.next + 1
      /\ q.tree = AddRuntime(r.tree, c, c, FALSE) /\ q.saved = r.saved
      BY <1>1, <1>4 DEF Fields
<1>6. Done(q) = Done(r) \union {c}
      BY <1>2, <1>3, <1>5, DoneGrows
<1>7. /\ RuntimesOf(q.tree) = RuntimesOf(r.tree) \union {c}
      /\ EntriesTyped(r.tree) => EntriesTyped(q.tree) /\ Has(q.tree, c)
      /\ \A m \in Names \ {c} : Has(r.tree, m) => Has(q.tree, m)
  <2>1. Editable(r.tree) /\ c \in Names /\ q.tree = AddRuntime(r.tree, c, c, FALSE)
        BY <1>2, <1>3, <1>5
  <2> HIDE DEF r
  <2> QED
        BY <2>1, AddedClass
<1>8. \A kinds : Unblamed(kinds)' <=> Unblamed(kinds)
      BY <1>4 DEF Unblamed
<1>9. EditOK(r)'
  <2>1. Unblamed({"meddled"}) =>
          /\ EntriesTyped(q.tree)
          /\ \A n \in Done(q) : Has(q.tree, n)
        BY <1>1, <1>2, <1>3, <1>6, <1>7 DEF EditOK
  <2>2. Unblamed({"crossed"}) => \A n \in Done(q) : kataConfig'[n] = "transformed"
        BY <1>1, <1>2, <1>3, <1>4, <1>6 DEF EditOK
  <2> QED
        BY <1>2, <1>5, <1>8, <2>1, <2>2 DEF EditOK, q
<1>10. SettledOK(r)'
      BY <1>5 DEF SettledOK, Settled, q
<1>11. FileTyped'
      BY <1>1, <1>4 DEF FileTyped, Unblamed
<1>12. EntriesOwned'
      BY <1>2, <1>4, <1>5, <1>6, <1>7, EditingOwns DEF q
<1> QED
      BY <1>2, <1>4, <1>9, <1>10, <1>11, <1>12, EditingKeeps DEF Entries

\* The entry of a class is taken out.
LEMMA RemoveKeeps ==
  ASSUME EInv, NEW w \in Workers, RemoveClass(w)
  PROVE  Entries'
<1> DEFINE r == proc[w]
           q == proc'[w]
           c == Class(w)
<1>1. /\ DOMAIN proc = Workers /\ DOMAIN r = Fields /\ ProcOK(r)
      /\ Edits /\ FileTyped /\ EditOK(r)
      BY FreshFields DEF EInv, GInv, TypeOK, ProcOK, Entries, Edits
<1>2. /\ r.pc = "loop" /\ r.pc \in Editing /\ r.next \in Nat \ {0} /\ r.next <= Len(r.classes)
      /\ r.phase = "CleanUp" /\ Editable(r.tree)
      BY <1>1 DEF RemoveClass, ProcOK, At, Editing, MoreClasses
<1>3. c \in Names /\ c = r.classes[r.next] /\ Done(r) \subseteq Names
      BY <1>1, <1>2, ClassNamed, ClassesAreNames DEF MoreClasses, Class
<1>4. /\ Only(w) /\ UNCHANGED <<file, blame>>
      /\ q = [r EXCEPT !.next = @ + 1, !.tree = RemoveRuntime(@, c)]
      BY <1>1 DEF RemoveClass, Only, Fields, ghostVars
<1> HIDE DEF q, c
<1>5. /\ q.pc = "loop" /\ q.phase = r.phase /\ q.classes = r.classes /\ q.next = r.next + 1
      /\ q.tree = RemoveRuntime(r.tree, c) /\ q.saved = r.saved
      BY <1>1, <1>2, <1>4 DEF Fields
<1>6. Done(q) = Done(r) \union {c}
      BY <1>2, <1>3, <1>5, DoneGrows
<1>7. /\ RuntimesOf(q.tree) \subseteq RuntimesOf(r.tree)
      /\ EntriesTyped(r.tree) => EntriesTyped(q.tree)
      /\ Without(q.tree, c)
      /\ \A m \in Names : Without(r.tree, m) => Without(q.tree, m)
      BY <1>2, <1>3, <1>5, RemovedClass
<1>8. \A kinds : Unblamed(kinds)' <=> Unblamed(kinds)
      BY <1>4 DEF Unblamed
<1>9. EditOK(r)'
  <2>1. \A n \in Done(q) : Without(q.tree, n)
        BY <1>1, <1>2, <1>3, <1>6, <1>7 DEF EditOK
  <2>2. Unblamed({"meddled"}) => EntriesTyped(q.tree)
        BY <1>1, <1>2, <1>7 DEF EditOK
  <2> QED
        BY <1>2, <1>5, <1>8, <2>1, <2>2 DEF EditOK, q
<1>10. SettledOK(r)'
      BY <1>5 DEF SettledOK, Settled, q
<1>11. FileTyped'
      BY <1>1, <1>4 DEF FileTyped, Unblamed
<1>12. EntriesOwned'
      BY <1>2, <1>4, <1>5, <1>7, EditingOwns DEF q
<1> QED
      BY <1>2, <1>4, <1>9, <1>10, <1>11, <1>12, EditingKeeps DEF Entries

\* The file is loaded.
LEMMA LoadKeeps ==
  ASSUME EInv, NEW w \in Workers, Load(w)
  PROVE  Entries'
<1> DEFINE r == proc[w]
           q == proc'[w]
<1>1. /\ DOMAIN proc = Workers /\ DOMAIN r = Fields
      /\ HolderAlone /\ FileTyped /\ Edits /\ Settling /\ EntriesOwned
      BY FreshFields DEF EInv, GInv, TypeOK, ProcOK, Entries
<1>2. /\ Only(w) /\ UNCHANGED <<file, kataConfig>> /\ file # Corrupt /\ blame \subseteq blame'
      /\ q = [r EXCEPT !.pc = "loop", !.next = 1, !.tree = Content(file)]
      /\ "crossed" \notin blame' => \A v \in Workers \ {w} : proc[v].pc \notin Holding
      BY <1>1 DEF Load, Only, Fields, nodeVars
<1> HIDE DEF q
<1>3. /\ q.pc = "loop" /\ q.phase = r.phase /\ q.classes = r.classes /\ q.next = 1
      /\ q.tree = Content(file) /\ q.saved = r.saved
      BY <1>1, <1>2 DEF Fields
<1>4. \A kinds : Unblamed(kinds)' => Unblamed(kinds)
      BY <1>2, BlameStays
<1>5. \A kinds : "crossed" \in kinds /\ Unblamed(kinds)' =>
        \A v \in Workers \ {w} : proc[v].pc \notin Holding
      BY <1>2 DEF Unblamed
<1>6. \A v \in Workers \ {w} : proc'[v] = proc[v]
      BY <1>2 DEF Only
<1>7. Done(q) = {}
      BY <1>3 DEF Done
<1>8. HolderAlone'
      BY <1>5, <1>6 DEF HolderAlone
<1>9. FileTyped'
      BY <1>1, <1>2, <1>4 DEF FileTyped
<1>10. Edits'
  <2>1. ASSUME NEW v \in Workers \ {w} PROVE EditOK(proc[v])'
    <3>1. EditOK(proc[v]) /\ Done(proc[v])' = Done(proc[v])
          BY <1>1, <1>6 DEF Edits, Done
    <3> QED
          BY <1>2, <1>4, <1>6, <3>1 DEF EditOK
  <2>2. EditOK(r)'
        BY <1>1, <1>2, <1>3, <1>4, <1>7 DEF EditOK, FileTyped, q
  <2> QED
        BY <2>1, <2>2 DEF Edits
<1>11. Settling'
  <2>1. ASSUME NEW v \in Workers \ {w} PROVE SettledOK(proc[v])'
        BY <1>1, <1>2, <1>4, <1>6 DEF Settling, SettledOK
  <2>2. SettledOK(r)'
        BY <1>3 DEF SettledOK, Settled, q
  <2> QED
        BY <2>1, <2>2 DEF Settling
<1>12. EntriesOwned'
  <2>1. SUFFICES ASSUME Unblamed({"abandoned", "crossed", "meddled"})' PROVE EntriesOwned'
        BY DEF EntriesOwned
  <2>2. \A v \in Workers \ {w} : proc[v].pc \notin Editing
        BY <1>5, <2>1 DEF Holding
  <2>3. \A n : Owned(n) => Owned(n)'
        BY <1>3, <1>6 DEF Owned, ClassesOf, q
  <2> QED
        BY <1>1, <1>2, <1>3, <1>4, <1>6, <2>1, <2>2, <2>3 DEF EntriesOwned, q
<1> QED
      BY <1>8, <1>9, <1>10, <1>11, <1>12 DEF Entries

\* What Save() leaves in the file is what was in the tree.
SavedAs(t, s) ==
  /\ RuntimesOf(s) = RuntimesOf(t)
  /\ EntriesTyped(t) => EntriesTyped(s)
  /\ \A n \in Names : Has(t, n) => Has(s, n)
  /\ \A n \in Names : Without(t, n) => Without(s, n)

\* A tree that is written as zero bytes has no entry to lose.
LEMMA NothingIsLost ==
  ASSUME NEW t, Editable(t), RendersEmpty(t)
  PROVE  SavedAs(t, EmptyTree)
<1>1. RuntimesOf(t) = {}
      BY RendersEmptyIsEmpty DEF Editable
<1>2. \A n \in Names : ~Has(t, n) /\ n # Absent
      BY <1>1, HasIsThere, ValuesAreNoMarkers
<1> QED
      BY <1>1, <1>2, EmptyTreeIsFree DEF SavedAs, EntriesTyped, Without

\* A save that ends makes its worker the owner, or leaves it with nothing.
LEMMA SaveKeeps ==
  ASSUME EInv, NEW w \in Workers, RemoveFile(w) \/ WriteFile(w)
  PROVE  Entries'
<1> DEFINE r == proc[w]
           q == proc'[w]
           s == Content(file')
<1>1. /\ DOMAIN proc = Workers /\ DOMAIN r = Fields /\ ProcOK(r)
      /\ EditOK(r) /\ HolderAlone /\ EntriesOwned
      BY FreshFields DEF EInv, GInv, TypeOK, ProcOK, Entries, Edits
<1>2. r.pc \in {"loop", "flush"} /\ r.pc \in Editing /\ Editable(r.tree) /\ r.next > Len(r.classes)
  <2>1. r.pc \in {"loop", "flush"} /\ r.pc \in Editing
        BY DEF RemoveFile, WriteFile, At, Editing
  <2>2. r.next \in Nat /\ Len(r.classes) \in Nat
        BY <1>1 DEF ProcOK
  <2>3. r.next > Len(r.classes)
        BY <1>1, <2>1, <2>2 DEF RemoveFile, WriteFile, At, MoreClasses, EditOK
  <2> QED
        BY <1>1, <2>1, <2>3 DEF ProcOK
<1>3. ClassesOf(r) \subseteq Names /\ Done(r) = ClassesOf(r)
      BY <1>1, <1>2, ClassesAreNames
<1>4. /\ Only(w) /\ UNCHANGED <<kataConfig, blame>>
      /\ q = [r EXCEPT !.pc = "restart", !.tree = NoTree, !.saved = r.phase]
      BY <1>1 DEF RemoveFile, WriteFile, Saved, Only, Fields, nodeVars, ghostVars
<1>5. SavedAs(r.tree, s)
  <2>1. CASE RemoveFile(w)
        BY <1>2, <2>1, NothingIsLost DEF RemoveFile, Content
  <2>2. CASE WriteFile(w)
    <3>1. s = r.tree
          BY <1>2, <2>2, TreesAreFiles DEF WriteFile, Content
    <3> QED
          BY <3>1 DEF SavedAs
  <2> QED
        BY <2>1, <2>2
<1> HIDE DEF q, s
<1>6. q.pc = "restart" /\ q.phase = r.phase /\ q.classes = r.classes /\ q.saved = r.phase
      BY <1>1, <1>4 DEF Fields
<1>7. \A kinds : Unblamed(kinds)' <=> Unblamed(kinds)
      BY <1>4 DEF Unblamed
<1>8. r.phase \in {"Run", "CleanUp"}
      BY <1>1 DEF ProcOK, Phases
<1>9. EditOK(r)'
      BY <1>6 DEF EditOK, Editing, q
<1>10. SettledOK(r)'
  <2>1. SUFFICES ASSUME Unblamed({"crossed", "meddled"}), NEW n \in ClassesOf(r)
                 PROVE  IF r.phase = "Run" THEN Has(s, n) /\ kataConfig[n] = "transformed"
                        ELSE Without(s, n)
        BY <1>4, <1>6, <1>7 DEF SettledOK, ClassesOf, q, s
  <2>2. Unblamed({"crossed"}) /\ Unblamed({"meddled"})
        BY <2>1 DEF Unblamed
  <2>3. /\ r.phase = "Run" => Has(r.tree, n) /\ kataConfig[n] = "transformed"
        /\ r.phase = "CleanUp" => Without(r.tree, n)
        BY <1>1, <1>2, <1>3, <2>2 DEF EditOK
  <2> QED
        BY <1>3, <1>5, <1>8, <2>3 DEF SavedAs
<1>11. FileTyped'
      BY <1>1, <1>2, <1>5, <1>7 DEF EditOK, FileTyped, SavedAs, s
<1>12. EntriesOwned'
  <2>1. SUFFICES ASSUME Unblamed({"abandoned", "crossed", "meddled"}) PROVE EntriesOwned'
        BY <1>7 DEF EntriesOwned
  <2>2. \A v \in Workers \ {w} : proc'[v] = proc[v] /\ proc[v].pc \notin Editing
        BY <1>1, <1>2, <1>4, <2>1 DEF HolderAlone, Only, Holding, Unblamed
  <2>3. ASSUME NEW n \in RuntimesOf(s) PROVE Owned(n)'
    <3>1. n \in RuntimesOf(r.tree)
          BY <1>5 DEF SavedAs
    <3>2. CASE r.phase = "Run"
      <4>1. Owned(n) \/ n \in ClassesOf(r)
            BY <1>1, <1>2, <1>3, <2>1, <3>1 DEF EntriesOwned
      <4>2. CASE n \in ClassesOf(r)
            BY <1>6, <3>2, <4>2 DEF Owned, ClassesOf, q
      <4>3. ASSUME NEW v \in Workers \ {w}, proc[v].saved = "Run" /\ n \in ClassesOf(proc[v])
            PROVE  Owned(n)'
            BY <2>2, <4>3 DEF Owned, ClassesOf
      <4> QED
            BY <4>1, <4>2, <4>3 DEF Owned
    <3>3. CASE r.phase = "CleanUp"
      <4>1. Owned(n)
            BY <1>1, <1>2, <2>1, <3>1, <3>3 DEF EntriesOwned
      <4>2. n \notin ClassesOf(r)
            BY <1>1, <1>2, <1>3, <3>1, <3>3 DEF EditOK, Without
      <4>3. PICK v \in Workers \ {w} : proc[v].saved = "Run" /\ n \in ClassesOf(proc[v])
            BY <4>1, <4>2 DEF Owned
      <4> QED
            BY <2>2, <4>3 DEF Owned, ClassesOf
    <3> QED
          BY <1>8, <3>2, <3>3
  <2>4. \A v \in Workers : proc'[v].pc \notin Editing
        BY <1>6, <2>2 DEF Editing, q
  <2> QED
        BY <2>3, <2>4 DEF EntriesOwned, s
<1> QED
      BY <1>2, <1>4, <1>9, <1>10, <1>11, <1>12, EditingKeeps DEF Entries

\* A save that begins, or fails, leaves no entry in the file.
LEMMA TornKeeps ==
  ASSUME EInv, NEW w \in Workers, TruncateFile(w) \/ WriteFails(w)
  PROVE  Entries'
<1> DEFINE r == proc[w]
           q == proc'[w]
<1>1. /\ DOMAIN proc = Workers /\ DOMAIN r = Fields /\ ProcOK(r)
      /\ EditOK(r) /\ HolderAlone /\ EntriesOwned
      BY FreshFields DEF EInv, GInv, TypeOK, ProcOK, Entries, Edits
<1>2. /\ r.pc \in {"loop", "flush"} /\ r.pc \in Editing /\ r.pc \notin {"transform", "rewrite"}
      /\ r.next \in Nat /\ Len(r.classes) \in Nat
      BY <1>1 DEF TruncateFile, WriteFails, At, Editing, ProcOK
<1>3. /\ Only(w) /\ UNCHANGED kataConfig /\ blame \subseteq blame'
      /\ file' \in {EmptyTree, Corrupt}
      /\ q.pc \in {"flush", "return"} /\ q = [r EXCEPT !.pc = q.pc]
      /\ q.pc = "flush" => r.next > Len(r.classes)
      BY <1>1, <1>2
      DEF TruncateFile, WriteFails, GiveUp, Only, Fields, nodeVars, ghostVars, MoreClasses
<1> HIDE DEF q
<1>4. /\ q.phase = r.phase /\ q.classes = r.classes /\ q.saved = r.saved /\ q.next = r.next
      /\ q.tree = r.tree
      BY <1>1, <1>3 DEF Fields
<1>5. \A kinds : Unblamed(kinds)' => Unblamed(kinds)
      BY <1>3, BlameStays
<1>6. EditOK(r)'
  <2>1. Done(q) = Done(r)
        BY <1>4 DEF Done
  <2> QED
        BY <1>1, <1>2, <1>3, <1>4, <1>5, <2>1 DEF EditOK, q
<1>7. SettledOK(r)'
      BY <1>3 DEF SettledOK, Settled, q
<1>8. file' # Corrupt => RuntimesOf(Content(file')) = {}
  <2>1. Content(EmptyTree) = EmptyTree
        BY DEF Content
  <2> QED
        BY <1>3, <2>1, EmptyTreeIsFree
<1>9. FileTyped'
      BY <1>8 DEF FileTyped, EntriesTyped
<1>10. EntriesOwned'
  <2>1. SUFFICES ASSUME Unblamed({"abandoned", "crossed", "meddled"})' PROVE EntriesOwned'
        BY DEF EntriesOwned
  <2>2. \A v \in Workers : proc'[v].pc \in Editing => v = w
        BY <1>1, <1>2, <1>3, <1>5, <2>1 DEF HolderAlone, Only, Holding, Unblamed
  <2>3. \A n : Owned(n) => Owned(n)'
        BY <1>3, <1>4 DEF Owned, ClassesOf, Only, q
  <2>4. Done(q) = Done(r)
        BY <1>4 DEF Done
  <2> QED
        BY <1>1, <1>2, <1>4, <1>5, <1>8, <2>1, <2>2, <2>3, <2>4 DEF EntriesOwned, q
<1> QED
      BY <1>2, <1>3, <1>6, <1>7, <1>9, <1>10, EditingKeeps DEF Entries

-----------------------------------------------------------------------------
(* The surroundings.                                                       *)

\* The administrator leaves the entries alone, or is recorded.
LEMMA EditFileKeeps ==
  ASSUME EInv, EditFile
  PROVE  Entries'
<1> DEFINE t == Content(file)
           s == Content(file')
<1>1. PICK e \in UserEdits :
        /\ file # Corrupt
        /\ file' = SetPath(t, e.path, e.value)
        /\ Editable(file')
        /\ UNCHANGED <<proc, kataConfig>> /\ blame \subseteq blame'
        /\ e.path # VersionPath /\ Managed(file', e.path) => "meddled" \in blame'
      BY DEF EditFile, nodeVars
<1>2. HolderAlone /\ FileTyped /\ Edits /\ Settling /\ EntriesOwned /\ FileOK(file)
      BY DEF EInv, Entries, GInv, TypeOK
<1>3. \A kinds : Unblamed(kinds)' => Unblamed(kinds)
      BY <1>1, BlameStays
<1>4. s = file' /\ s = SetPath(t, e.path, e.value) /\ Editable(t) /\ e.value \notin {Table, Absent}
      BY <1>1, <1>2, TreesAreFiles, ContentEditable, EditsAreValues DEF Content
<1>5. ASSUME "meddled" \notin blame'
      PROVE  /\ \A n \in Names : n \in RuntimesOf(s) <=> n \in RuntimesOf(t)
             /\ \A n \in Names : GetPath(s, TypePath(n)) = GetPath(t, TypePath(n))
             /\ \A n \in Names : Has(s, n) <=> Has(t, n)
             /\ \A n \in Names : Without(t, n) => Without(s, n)
  <2>1. e.path = VersionPath \/ ~Managed(s, e.path)
        BY <1>1, <1>4, <1>5
  <2>2. /\ \A n \in Names, q \in Path : IsPrefix(RuntimePath(n), q) => GetPath(s, q) = GetPath(t, q)
        /\ \A n \in Names : DefaultRuntime(s) = n => DefaultRuntime(t) = n
        BY <1>1, <1>4, <2>1, EditElsewhere DEF Editable
  <2> HIDE DEF s, t
  <2>3. \A n \in Names : /\ n \in RuntimesOf(s) <=> n \in RuntimesOf(t)
                         /\ GetPath(s, TypePath(n)) = GetPath(t, TypePath(n))
                         /\ Has(s, n) <=> Has(t, n)
        BY <2>2, SameEntry
  <2> QED
        BY <2>2, <2>3 DEF Without
<1>6. RuntimesOf(s) \subseteq Names /\ \A v \in Workers : ClassesOf(proc[v]) \subseteq Names
      BY ClassesAreNames DEF RuntimesOf, EInv, GInv, TypeOK
<1>7. \A kinds : Unblamed(kinds)' /\ "meddled" \in kinds => "meddled" \notin blame'
      BY DEF Unblamed
<1>8. HolderAlone'
      BY <1>1, <1>2, <1>3 DEF HolderAlone
<1>9. FileTyped'
  <2>1. SUFFICES ASSUME Unblamed({"meddled"})' PROVE EntriesTyped(s)
        BY DEF FileTyped
  <2>2. EntriesTyped(t)
        BY <1>1, <1>2, <1>3, <2>1 DEF FileTyped
  <2> HIDE DEF s, t
  <2> QED
        BY <1>5, <1>6, <1>7, <2>1, <2>2 DEF EntriesTyped
<1>10. Edits'
  <2>1. SUFFICES ASSUME NEW v \in Workers PROVE EditOK(proc[v])'
        BY DEF Edits
  <2>2. EditOK(proc[v]) /\ Done(proc[v])' = Done(proc[v])
        BY <1>1, <1>2 DEF Edits, Done
  <2> QED
        BY <1>1, <1>3, <2>2 DEF EditOK
<1>11. Settling'
  <2>1. SUFFICES ASSUME NEW v \in Workers, proc[v].pc \in Settled,
                        Unblamed({"crossed", "meddled"})', NEW n \in ClassesOf(proc[v])
                 PROVE  IF proc[v].phase = "Run" THEN Has(s, n) /\ kataConfig[n] = "transformed"
                        ELSE Without(s, n)
        BY <1>1 DEF Settling, SettledOK, ClassesOf
  <2>2. IF proc[v].phase = "Run" THEN Has(t, n) /\ kataConfig[n] = "transformed" ELSE Without(t, n)
        BY <1>2, <1>3, <2>1 DEF Settling, SettledOK
  <2> HIDE DEF s, t
  <2> QED
        BY <1>5, <1>6, <1>7, <2>1, <2>2
<1>12. EntriesOwned'
  <2>1. SUFFICES ASSUME Unblamed({"abandoned", "crossed", "meddled"})' PROVE EntriesOwned'
        BY DEF EntriesOwned
  <2>2. RuntimesOf(s) \subseteq RuntimesOf(t)
        BY <1>5, <1>6, <1>7, <2>1
  <2>3. \A n : Owned(n)' <=> Owned(n)
        BY <1>1 DEF Owned, ClassesOf
  <2> HIDE DEF s, t
  <2> QED
        BY <1>1, <1>2, <1>3, <2>1, <2>2, <2>3 DEF EntriesOwned, Done, s, t
<1> QED
      BY <1>8, <1>9, <1>10, <1>11, <1>12 DEF Entries

\* Nothing else of the surroundings touches the files of the workers.
LEMMA OthersKeep ==
  ASSUME EInv, ContainerdStep \/ EditConfigMap \/ UNCHANGED vars
  PROVE  Entries'
<1>1. UNCHANGED <<proc, file, kataConfig, blame>>
      BY DEF ContainerdStep, StartContainerd, ContainerdStops, ContainerdHangs,
         ContainerdRecovers, EditConfigMap, vars, ghostVars, nodeVars
<1>2. HolderAlone /\ FileTyped /\ Edits /\ Settling /\ EntriesOwned
      BY DEF EInv, Entries
<1>3. HolderAlone' /\ FileTyped'
      BY <1>1, <1>2 DEF HolderAlone, FileTyped, Unblamed
<1>4. Edits'
  <2>1. SUFFICES ASSUME NEW v \in Workers PROVE EditOK(proc[v])'
        BY DEF Edits
  <2>2. EditOK(proc[v]) /\ Done(proc[v])' = Done(proc[v])
        BY <1>1, <1>2 DEF Edits, Done
  <2>3. \A kinds : Unblamed(kinds)' => Unblamed(kinds)
        BY <1>1, BlameStays
  <2> QED
        BY <1>1, <2>2, <2>3 DEF EditOK
<1>5. Settling'
      BY <1>1, <1>2 DEF Settling, SettledOK, ClassesOf, Unblamed
<1>6. EntriesOwned'
      BY <1>1, <1>2 DEF EntriesOwned, Owned, ClassesOf, Done, Unblamed
<1> QED
      BY <1>3, <1>4, <1>5, <1>6 DEF Entries

-----------------------------------------------------------------------------
(* The theorems.                                                           *)

\* The invariant holds when no worker has started, whatever is in the file.
LEMMA InitEntries == Init => EInv
<1> SUFFICES ASSUME Init PROVE EInv
    OBVIOUS
<1>1. \A w \in Workers : proc[w].pc = "down"
      BY DEF Init, Fresh
<1>2. HolderAlone /\ Edits /\ Settling
      BY <1>1 DEF HolderAlone, Edits, EditOK, Settling, SettledOK, Holding, Editing, Settled
<1>3. /\ EntriesTyped(Content(file)) \/ "meddled" \in blame
      /\ RuntimesOf(Content(file)) = {} \/ "abandoned" \in blame
      BY DEF Init
<1>4. FileTyped /\ EntriesOwned
      BY <1>1, <1>3 DEF FileTyped, EntriesOwned, Unblamed, Editing
<1> QED
      BY <1>2, <1>4, InitTypes, InitGoroutines DEF EInv, GInv, Entries

\* Every step keeps it.
LEMMA StepEntries == EInv /\ [Next]_vars => EInv'
<1> SUFFICES ASSUME EInv, [Next]_vars PROVE EInv'
    OBVIOUS
<1>1. GInv /\ TypeOK
      BY DEF EInv, GInv
<1>2. ASSUME NEW w \in Workers, Worker(w) \/ Trouble(w) PROVE Entries'
  <2>1. CASE Pull(w) \/ OpenKataConfig(w)
        BY <2>1, PullKeeps
  <2>2. CASE AddClass(w)
        BY <2>2, AddKeeps
  <2>3. CASE RemoveClass(w)
        BY <2>3, RemoveKeeps
  <2>4. CASE Load(w)
        BY <2>4, LoadKeeps
  <2>5. CASE RemoveFile(w) \/ WriteFile(w)
        BY <2>5, SaveKeeps
  <2>6. CASE TruncateFile(w) \/ WriteFails(w)
        BY <2>6, TornKeeps
  <2>7. CASE \/ LoadFails(w) \/ KataConfigEmpty(w) \/ RemoveFails(w) \/ NothingToRemove(w)
             \/ (Trouble(w) /\ ~WriteFails(w))
        BY <1>1, <2>7, TroubleIsCalm, CalmKeeps
  <2>8. CASE Worker(w) /\ ~Edit(w)
        BY <1>1, <2>8, OutsideIsCalm, CalmKeeps DEF Worker, Helpers
  <2> QED
        BY <1>2, <2>1, <2>2, <2>3, <2>4, <2>5, <2>6, <2>7, <2>8 DEF Edit
<1>3. Entries'
      BY <1>2, EditFileKeeps, OthersKeep DEF Next, ContainerdStep
<1> QED
      BY <1>1, <1>3, StepGoroutines DEF EInv

\* The invariant of every reachable state.
LEMMA EntriesCorrect == Spec => []EInv
<1> QED
    BY InitEntries, StepEntries, PTL DEF Spec

\* A worker that waits has every class it was given in the file, with its path and
\* its type, and a kata configuration that is whole, whatever happened to workers
\* before it (Configured: main.go:279-338).
THEOREM ClassesConfigured == Spec => []Configured
<1>1. EInv => Configured
  <2>1. SUFFICES ASSUME EInv, {"crossed", "meddled"} \intersect blame = {}, NEW w \in Workers,
                        proc[w].phase = "Run",
                        proc[w].pc \in {"restart", "select", "listen", "arm", "await"},
                        NEW i \in DOMAIN proc[w].classes
                 PROVE  /\ Has(Content(file), proc[w].classes[i])
                        /\ kataConfig[proc[w].classes[i]] = "transformed"
        BY DEF Configured, Has
  <2>2. proc[w].classes[i] \in ClassesOf(proc[w])
        BY DEF ClassesOf
  <2> QED
        BY <2>1, <2>2 DEF EInv, Entries, Settling, SettledOK, Settled, Unblamed
<1> QED
    BY <1>1, EntriesCorrect, PTL

\* Once CleanUp() has saved, no class of the worker is left in the file, nor a
\* default that names one (CleanedUp: main.go:342-375, containerd.go:105-137).
THEOREM ClassesCleanedUp == Spec => []CleanedUp
<1>1. EInv => CleanedUp
  <2>1. SUFFICES ASSUME EInv, {"crossed", "meddled"} \intersect blame = {}, NEW w \in Workers,
                        proc[w].phase = "CleanUp", proc[w].pc \in {"restart", "select"},
                        NEW i \in DOMAIN proc[w].classes
                 PROVE  Without(Content(file), proc[w].classes[i])
        BY DEF CleanedUp, Without
  <2>2. proc[w].classes[i] \in ClassesOf(proc[w])
        BY DEF ClassesOf
  <2> QED
        BY <2>1, <2>2 DEF EInv, Entries, Settling, SettledOK, Settled, Unblamed
<1> QED
    BY <1>1, EntriesCorrect, PTL

\* A runtime that is in the file when no worker runs was left there by a worker
\* that ended between its save and the one of its CleanUp(), and is recorded
\* (NothingLeftBehind).
THEOREM LeftOnlyByTheDead == Spec => []NothingLeftBehind
<1>1. EInv => NothingLeftBehind
  <2>1. SUFFICES ASSUME EInv, file # Corrupt, \A w \in Workers : At(w, "down"),
                        Unblamed({"abandoned", "crossed", "meddled"})
                 PROVE  RuntimesOf(Content(file)) = {}
        BY DEF NothingLeftBehind, Unblamed
  <2>2. \A w \in Workers : proc[w].saved = "none"
        BY <2>1 DEF EInv, GInv, Goroutines, GoroutinesOK, SavedOK, At
  <2> QED
        BY <2>1, <2>2 DEF EInv, Entries, EntriesOwned, Owned
<1> QED
    BY <1>1, EntriesCorrect, PTL

\* containerd is signalled while a worker writes its file only by a helper whose
\* Restart() has returned, or after a worker came to edit while another held its
\* configuration: one that waits in its Restart() still holds it
\* (SignalledMidWriteByStrays: containerd.go:157-166, 192-215).
THEOREM StraysOnly == Spec => SignalledMidWriteByStrays
<1> DEFINE Step == \A v, w \in Workers, p \in Phases :
             (SignalContainerd(w, p) /\ At(v, "flush")) =>
               Returned(w, p) \/ (v # w /\ "crossed" \in blame)
<1>1. ASSUME EInv PROVE Step
  <2>1. SUFFICES ASSUME NEW v \in Workers, NEW w \in Workers, NEW p \in Phases,
                        SignalContainerd(w, p), At(v, "flush"), ~Returned(w, p)
                 PROVE  v # w /\ "crossed" \in blame
        OBVIOUS
  <2>2. ProcOK(proc[w]) /\ HelperOK(proc[w]) /\ HolderAlone
        BY <1>1 DEF EInv, GInv, TypeOK, Goroutines, GoroutinesOK, Entries
  <2>3. p = proc[w].phase /\ proc[w].helper[p] = "signal"
        BY <2>1 DEF Returned, SignalContainerd
  <2>4. proc[w].pc = "select"
    <3>1. proc[w].pc \notin {"down", "create", "flock", "pid", "load", "restart"} \union Editing
          BY <2>2, <2>3 DEF HelperOK
    <3>2. proc[w].pc \notin {"listen", "arm", "await", "return", "exit"}
          BY <2>1 DEF Returned
    <3>3. proc[w].pc \in Labels
          BY <2>2 DEF ProcOK
    <3> QED
          BY <3>1, <3>2, <3>3 DEF Labels
  <2>5. v # w /\ proc[v].pc \in Holding /\ proc[w].pc \in Holding
        BY <2>1, <2>4 DEF At, Holding, Editing
  <2> QED
        BY <2>2, <2>5 DEF HolderAlone, Unblamed
<1> QED
    BY <1>1, EntriesCorrect, PTL DEF SignalledMidWriteByStrays, Step

=============================================================================
