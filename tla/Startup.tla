------------------------------ MODULE Startup -------------------------------
(***************************************************************************)
(* What a worker's configuration decides, while the config map is edited:  *)
(* configure(), SanitizeConfig(), the path of the pid file and             *)
(* getRuntimeConfig() of cmd/k8s-kata-manager/main.go, around the loop of  *)
(* Run() and CleanUp() on one file of the runtime.  KataManager has the    *)
(* steps of a worker in detail, and PidFile those of the lock; here are    *)
(* several pid files, and of each which file has its name, who has it open *)
(* and whether that one is past its flock, when it holds the lock.         *)
(***************************************************************************)
EXTENDS Naturals, SequencesExt

CONSTANTS
  Pods,         \* of the worker's daemon set on the node
  ClassNames,   \* the names of classes, but for ""
  ConfigMaps,   \* [artifactsDir, runtimeClasses] or NoConfig
  NoConfig, Unset, NoDir,
  Existing,     \* the directories of the node
  Files, NoFile,\* inodes, enough of them: see EnoughFiles
  Runtimes,     \* what --runtime can be
  MaxEdits      \* bound of the model

ASSUME StartupBounds == MaxEdits \in Nat
ASSUME NoFileIsNone  == NoFile \notin Files
\* A new pid file can always be made.
ASSUME EnoughFiles ==
  IsFiniteSet(Files) /\ Cardinality(Files) + 1 >= Cardinality(Pods) + Cardinality(Existing)

\* Any name or URL of a class can be missing, and then it is "".
Classes == [name : ClassNames \union {""}, url : STRING]

ASSUME ConfigMapsTyped ==
  \A c \in ConfigMaps \ {NoConfig} : c.runtimeClasses \in Seq(Classes)

DefaultDir == "default"

VARIABLES
  configMap,
  runtime,   \* --runtime, the same for every pod of the daemon set
  pidFile,   \* the file at the path of the pid file in each directory
  entries,   \* runtimes of the runtime's file on disk: name -> artifacts directory
  proc,      \* the workers
  edits

setupVars == <<configMap, runtime, pidFile, entries, proc, edits>>

-----------------------------------------------------------------------------
(* SanitizeConfig()                                                        *)

ValidClass(rc) == rc.name # "" /\ rc.url # ""

\* Mutant: the class stays where it is.
SanitizeTurnInPlace(acc, idx) ==
  IF ValidClass(acc.classes[idx]) THEN [acc EXCEPT !.i = @ + 1] ELSE acc

\* A turn of the loop: the list is compacted in place while it is read.
SanitizeTurn(acc, idx) ==
  LET rc == acc.classes[idx]
  IN  IF ValidClass(rc) THEN [classes |-> [acc.classes EXCEPT ![acc.i] = rc], i |-> acc.i + 1]
      ELSE acc

Sanitize(classes) ==
  LET end == FoldLeftDomain(SanitizeTurn, [classes |-> classes, i |-> 1], classes)
  IN  SubSeq(end.classes, 1, end.i - 1)

-----------------------------------------------------------------------------

Fresh == [pc |-> "down", dir |-> NoDir, classes |-> << >>, i |-> 1, tree |-> << >>,
          file |-> NoFile,     \* the pid file it has open
          listed |-> << >>,    \* history: the classes of the config map it read
          crossed |-> FALSE]   \* history: another ran meanwhile, with another pid file

At(w, label) == proc[w].pc = label

\* Between initialize() and shutdown().
Running(w) == proc[w].pc \in {"load", "loop", "wait", "unload", "remove"}

SetupInit ==
  /\ configMap \in ConfigMaps /\ runtime \in Runtimes
  /\ pidFile = [d \in Existing |-> NoFile]
  /\ entries = [n \in ClassNames |-> NoDir]
  /\ proc = [w \in Pods |-> Fresh]
  /\ edits = 0

Becomes(w, r) == proc' = [proc EXCEPT ![w] = r]

\* Without the file, and for what it does not set, there are defaults.
Configure(w) ==
  /\ At(w, "down")
  /\ LET dir == IF configMap = NoConfig \/ configMap.artifactsDir = Unset THEN DefaultDir
                ELSE configMap.artifactsDir
         classes == IF configMap = NoConfig THEN << >> ELSE configMap.runtimeClasses
     IN  Becomes(w, [Fresh EXCEPT !.pc = "init", !.dir = dir,
                                !.classes = Sanitize(classes), !.listed = classes])
  /\ UNCHANGED <<configMap, runtime, pidFile, entries, edits>>

Unused(f) == (\A d \in Existing : pidFile[d] # f) /\ \A v \in Pods : proc[v].file # f

\* initialize(): the pid file is in the artifacts directory, and is made if it is
\* not there ...
OpenPidFile(w) ==
  /\ At(w, "init") /\ proc[w].dir \in Existing
  /\ \E f \in Files :
       /\ IF pidFile[proc[w].dir] = NoFile THEN Unused(f) ELSE f = pidFile[proc[w].dir]
       /\ pidFile' = [pidFile EXCEPT ![proc[w].dir] = f]
       /\ Becomes(w, [proc[w] EXCEPT !.pc = "flock", !.file = f])
  /\ UNCHANGED <<configMap, runtime, entries, edits>>

\* Mutant: the lock of the pid file is not tried.
Lockable(w) == TRUE

\* Who runs with the file still open has its lock.
PidFileFree(w) == \A v \in Pods : Running(v) => proc[v].file # proc[w].file

\* ... and what was opened is locked, whether it still has its name or not.
Initialize(w) ==
  /\ At(w, "flock") /\ PidFileFree(w)
  /\ LET Crosses(v) == Running(v) /\ proc[v].file # proc[w].file
     IN  proc' = [v \in Pods |->
           IF v = w THEN [proc[v] EXCEPT !.pc = "load", !.crossed = \E u \in Pods : Crosses(u)]
           ELSE [proc[v] EXCEPT !.crossed = @ \/ Crosses(v)]]
  /\ UNCHANGED <<configMap, runtime, pidFile, entries, edits>>

Refused(w) ==
  /\ \/ At(w, "init") /\ proc[w].dir \notin Existing
     \/ At(w, "flock") /\ ~PidFileFree(w)
  /\ Becomes(w, Fresh)
  /\ UNCHANGED <<configMap, runtime, pidFile, entries, edits>>

\* The garbage collector closes the file, and the lock is gone.
Finalized(w) ==
  /\ Running(w) /\ proc[w].file # NoFile
  /\ Becomes(w, [proc[w] EXCEPT !.file = NoFile])
  /\ UNCHANGED <<configMap, runtime, pidFile, entries, edits>>

\* shutdown(): the path goes, whatever file it names by now.
Unlinked(w) == [pidFile EXCEPT ![proc[w].dir] = NoFile]

Supported == {"containerd", "crio"}

\* getRuntimeConfig(), of Run() and of CleanUp(); of another runtime it is nil.
Load(w) ==
  /\ proc[w].pc \in {"load", "unload"}
  /\ Becomes(w, [proc[w] EXCEPT !.pc = IF @ = "load" THEN "loop" ELSE "remove",
                                !.tree = IF runtime \in Supported THEN entries ELSE << >>])
  /\ UNCHANGED <<configMap, runtime, pidFile, entries, edits>>

AddRuntime(w) ==
  /\ At(w, "loop") /\ runtime \in Supported /\ proc[w].i <= Len(proc[w].classes)
  /\ Becomes(w, [proc[w] EXCEPT !.i = @ + 1, !.tree[proc[w].classes[proc[w].i].name] = proc[w].dir])
  /\ UNCHANGED <<configMap, runtime, pidFile, entries, edits>>

SaveTree(w) ==
  /\ At(w, "loop") /\ runtime \in Supported /\ proc[w].i > Len(proc[w].classes)
  /\ entries' = proc[w].tree
  /\ Becomes(w, [proc[w] EXCEPT !.pc = "wait", !.tree = << >>])
  /\ UNCHANGED <<configMap, runtime, pidFile, edits>>

\* AddRuntime() of the first class, or Save(), is called of nil; shutdown() is deferred.
Panic(w) ==
  /\ At(w, "loop") /\ runtime \notin Supported
  /\ Becomes(w, [Fresh EXCEPT !.pc = "panicked"])
  /\ pidFile' = Unlinked(w)
  /\ UNCHANGED <<configMap, runtime, entries, edits>>

Signal(w) ==
  /\ At(w, "wait")
  /\ Becomes(w, [proc[w] EXCEPT !.pc = "unload"])
  /\ UNCHANGED <<configMap, runtime, pidFile, entries, edits>>

\* RemoveRuntime() of every class, Save(), and shutdown().
RemoveRuntimes(w) ==
  /\ At(w, "remove")
  /\ entries' = [n \in ClassNames |->
       IF \E k \in DOMAIN proc[w].classes : proc[w].classes[k].name = n THEN NoDir
       ELSE proc[w].tree[n]]
  /\ pidFile' = Unlinked(w)
  /\ Becomes(w, Fresh)
  /\ UNCHANGED <<configMap, runtime, edits>>

\* It is killed, is started again, or returns an error, through shutdown() if
\* initialize() was behind it.
Ended(w) ==
  /\ ~At(w, "down") /\ Becomes(w, Fresh)
  /\ \/ UNCHANGED pidFile
     \/ Running(w) /\ pidFile' = Unlinked(w)
  /\ UNCHANGED <<configMap, runtime, entries, edits>>

EditConfigMap ==
  /\ edits < MaxEdits /\ edits' = edits + 1
  /\ configMap' \in ConfigMaps \ {configMap}
  /\ UNCHANGED <<runtime, pidFile, entries, proc>>

Worker(w) ==
  \/ Configure(w) \/ OpenPidFile(w) \/ Initialize(w) \/ Refused(w) \/ Finalized(w) \/ Load(w)
  \/ AddRuntime(w) \/ SaveTree(w) \/ Panic(w) \/ Signal(w) \/ RemoveRuntimes(w) \/ Ended(w)

SetupNext == EditConfigMap \/ \E w \in Pods : Worker(w)

SetupSpec == SetupInit /\ [][SetupNext]_setupVars

-----------------------------------------------------------------------------
(* Properties.                                                             *)

Applied(w) ==
  LET listed == proc[w].listed
  IN  At(w, "wait") =>
        \A k \in DOMAIN listed :
          ValidClass(listed[k]) => entries[listed[k].name] = proc[w].dir

\* While a worker waits, every class of the config map it was started with that has
\* a name and a URL, and was neither lost nor passed over where the list is compacted
\* while it is read, leads to the worker's artifacts directory, whatever the worker
\* before or after it does on its way, unless another ran at the same time with a
\* pid file of its own: that of another directory, or, where the lock does not do what
\* it is for, one made after the path was unlinked, or none, the collector having
\* closed it (main.go:239, 396-404, 518; types.go:78-94).
AppliedUnlessCrossed == \A w \in Pods : proc[w].crossed \/ Applied(w)

=============================================================================
