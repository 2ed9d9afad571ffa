------------------------------ MODULE PidFile -------------------------------
(***************************************************************************)
(* The pid file of k8s-kata-manager: initialize() and shutdown() in        *)
(* cmd/k8s-kata-manager/main.go, run by any number of processes that share *)
(* the artifacts directory of a node (it is a hostPath volume).            *)
(*                                                                         *)
(* A path names at most one inode.  os.Create opens the inode at the path  *)
(* and truncates it, or makes a new one; flock locks an inode, not a path; *)
(* os.Remove takes the path away and leaves the inode to those that have   *)
(* it open.  The *os.File is a local variable of initialize(), so that     *)
(* once initialize() has returned the garbage collector may finalize it at *)
(* any time, which closes the descriptor and with it releases the lock.    *)
(*                                                                         *)
(* The first part gives the operations on the file, without control, for   *)
(* the worker in KataManager; the second part is the protocol on its own.  *)
(***************************************************************************)
EXTENDS Naturals, FiniteSets

CONSTANTS
  Workers,   \* processes (one incarnation at a time of each)
  Inodes,    \* enough of them: see EnoughInodes
  NoInode,
  Nobody

ASSUME WorkersFinite == IsFiniteSet(Workers)
ASSUME NobodyWorks   == Nobody \notin Workers
ASSUME NoInodeIsNone == NoInode \notin Inodes
\* A new file can always be made: no bound of the model stops os.Create.
ASSUME EnoughInodes  == IsFiniteSet(Inodes) /\ Cardinality(Inodes) > Cardinality(Workers) + 1

VARIABLES
  pidPath,   \* the inode pidFile names
  pidFd,     \* the inode each process has open through initialize()'s f
  pidLock,   \* the process whose descriptor holds the flock of an inode
  pidText,   \* the process whose pid an inode contains
  pc

fileVars == <<pidPath, pidFd, pidLock, pidText>>
pidVars  == <<pidPath, pidFd, pidLock, pidText, pc>>

-----------------------------------------------------------------------------
(* Operations on the file.                                                 *)

Free(i) == i # pidPath /\ \A w \in Workers : pidFd[w] # i

\* Mutant: the pid is written as the file is created, before the lock is had.
OpenPidWriting(w) ==
  \E i \in Inodes :
    /\ IF pidPath = NoInode THEN Free(i) ELSE i = pidPath
    /\ pidPath' = i
    /\ pidFd'   = [pidFd EXCEPT ![w] = i]
    /\ pidText' = [pidText EXCEPT ![i] = w]
    /\ UNCHANGED pidLock

\* os.Create(pidFile): O_CREATE|O_TRUNC, before any lock is asked for.
OpenPid(w) ==
  \E i \in Inodes :
    /\ IF pidPath = NoInode THEN Free(i) ELSE i = pidPath
    /\ pidPath' = i
    /\ pidFd'   = [pidFd EXCEPT ![w] = i]
    /\ pidText' = [pidText EXCEPT ![i] = Nobody]
    /\ UNCHANGED pidLock

\* Mutant: LOCK_SH for LOCK_EX.
CanLockShared(w) == pidFd[w] # NoInode

\* Mutant: whoever has the file open keeps the others out.
CanLockAlone(w) == \A v \in Workers \ {w} : pidFd[v] # pidFd[w]

CanLock(w) == pidLock[pidFd[w]] = Nobody

\* Mutant: the file of that name is locked, not the one that is open.
LockPidByName(w) ==
  /\ CanLock(w)
  /\ pidLock' = [i \in Inodes |-> IF i = pidPath THEN w ELSE pidLock[i]]
  /\ UNCHANGED <<pidPath, pidFd, pidText>>

\* Flock(LOCK_EX|LOCK_NB), when it succeeds.
LockPid(w) ==
  /\ CanLock(w)
  /\ pidLock' = [pidLock EXCEPT ![pidFd[w]] = w]
  /\ UNCHANGED <<pidPath, pidFd, pidText>>

WritePid(w) ==
  /\ pidText' = [pidText EXCEPT ![pidFd[w]] = w]
  /\ UNCHANGED <<pidPath, pidFd, pidLock>>

\* An inode that has neither a name nor a descriptor is gone, with its contents.
Contents(path, fd) ==
  [i \in Inodes |-> IF i = path \/ \E w \in Workers : fd[w] = i THEN pidText[i] ELSE Nobody]

\* os.Remove(pidFile); that there is no such file is only logged.
RemovePid ==
  /\ pidPath' = NoInode
  /\ pidText' = Contents(NoInode, pidFd)
  /\ UNCHANGED <<pidFd, pidLock>>

\* The descriptor goes: the process ends, or the file is finalized.
ClosePid(w) ==
  /\ pidFd'   = [pidFd EXCEPT ![w] = NoInode]
  /\ pidLock' = [i \in Inodes |-> IF pidLock[i] = w THEN Nobody ELSE pidLock[i]]
  /\ pidText' = Contents(pidPath, pidFd')
  /\ UNCHANGED pidPath

-----------------------------------------------------------------------------
(* The protocol.                                                           *)

PidStates == {"down", "create", "flock", "write", "running", "exiting"}

Goto(w, from, to) == pc[w] = from /\ pc' = [pc EXCEPT ![w] = to]

FileInit ==
  /\ pidPath = NoInode
  /\ pidFd   = [w \in Workers |-> NoInode]
  /\ pidLock = [i \in Inodes |-> Nobody]
  /\ pidText = [i \in Inodes |-> Nobody]

Init == FileInit /\ pc = [w \in Workers |-> "down"]

Start(w)  == Goto(w, "down", "create") /\ UNCHANGED fileVars

Create(w) == Goto(w, "create", "flock") /\ OpenPid(w)

Flock(w)  == Goto(w, "flock", "write") /\ LockPid(w)

\* The lock is taken: initialize() fails before shutdown() has been deferred, and
\* the process ends without unlinking the file.
Refuse(w) == Goto(w, "flock", "down") /\ ~CanLock(w) /\ ClosePid(w)

Write(w)  == Goto(w, "write", "running") /\ WritePid(w)

Finalize(w) ==
  /\ pc[w] \in {"running", "exiting"}
  /\ pidFd[w] # NoInode
  /\ ClosePid(w)
  /\ UNCHANGED pc

\* shutdown(), deferred by Run or called by the early exit of waitForSignal.
Shutdown(w) == Goto(w, "running", "exiting") /\ RemovePid

\* The process ends: after shutdown(), killed, or on an error of initialize().
End(w) ==
  /\ pc[w] # "down"
  /\ pc' = [pc EXCEPT ![w] = "down"]
  /\ ClosePid(w)

PidStep(w) ==
  \/ Start(w) \/ Create(w) \/ Flock(w) \/ Refuse(w) \/ Write(w)
  \/ Finalize(w) \/ Shutdown(w) \/ End(w)

Next == \E w \in Workers : PidStep(w)

Spec == Init /\ [][Next]_pidVars

-----------------------------------------------------------------------------
(* Properties.                                                             *)

\* Types of the variables.
TypeOK ==
  /\ pidPath \in Inodes \union {NoInode}
  /\ pidFd \in [Workers -> Inodes \union {NoInode}]
  /\ pidLock \in [Inodes -> Workers \union {Nobody}]
  /\ pidText \in [Inodes -> Workers \union {Nobody}]
  /\ pc \in [Workers -> PidStates]

Locked == {"write", "running", "exiting"}

\* A lock never outlives its process, and belongs to the file that process has
\* open: an instance that crashed or was killed cannot keep the next one from
\* starting (initialize(), main.go:401).
LockHeldByLiving ==
  \A i \in Inodes : pidLock[i] # Nobody =>
    pc[pidLock[i]] \in Locked /\ pidFd[pidLock[i]] = i

\* The file it has open is no longer the one its path names.
Orphaned(w) == pidFd[w] # NoInode /\ pidFd[w] # pidPath

\* Two that run with a file open have not the same one, under the same name.
OpenApart ==
  \A v, w \in Workers :
    (v # w /\ pc[v] = "running" /\ pc[w] = "running") =>
      pidFd[v] = NoInode \/ pidFd[w] = NoInode \/ Orphaned(v) \/ Orphaned(w)

LosesItsName(v, w) == v # w /\ Shutdown(v) /\ pidFd[w] # NoInode /\ pidFd[w] = pidPath

\* How two instances can both be past initialize(): the file of one of them was
\* closed by the garbage collector, or was unlinked by the shutdown() of another.
\* And a shutdown() unlinks what another has open only if that one is between its
\* os.Create and its flock, or if the file of the one that shuts down was itself
\* closed, or unlinked, before (main.go:396-404, 518): at the root of every overlap
\* is a file that was finalized, or one unlinked before it was locked.
OverlapExplained ==
  /\ []OpenApart
  /\ [][\A v, w \in Workers : LosesItsName(v, w) =>
          pc[w] = "flock" \/ pidFd[v] = NoInode \/ Orphaned(v)]_pidVars

\* The pid an instance wrote is replaced by no other pid while it has the file
\* open: an instance that comes later truncates the file before it is refused,
\* which empties it (main.go:396-401), but never writes its own.
HolderNotRenamed ==
  \A w \in Workers :
    (pc[w] = "running" /\ pidFd[w] # NoInode) => pidText[pidFd[w]] \in {w, Nobody}

\* An instance is refused only because of another one that is alive at that
\* moment and past its own lock (the claim of the warning at main.go:404).
RefusedByTheLiving ==
  [][\A w \in Workers : Refuse(w) =>
       \E v \in Workers \ {w} : pc[v] \in Locked /\ pidFd[v] = pidFd[w]]_pidVars

=============================================================================
