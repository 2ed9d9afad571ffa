------------------------- MODULE ContainerdRestart --------------------------
(***************************************************************************)
(* signalContainerd() of internal/runtime/containerd/restart_linux.go, as  *)
(* several callers run it at once (the helpers of Restart() in workers,    *)
(* and kata-manager containerd <socket>) against a containerd that stops,  *)
(* starts and hangs: an attempt learns the process at the other end of the *)
(* socket from the first thing it sends, and signals that process.         *)
(***************************************************************************)
EXTENDS Integers

CONSTANTS
  Callers,
  MaxReloadAttempts,
  MaxPid     \* bound of the model: containerd processes, one after another

ASSUME RestartBounds == MaxReloadAttempts \in Nat \ {0} /\ MaxPid \in Nat \ {0}

NoPid == -1
OwnGroup == 0    \* for kill(2), and what credentials say that were not attached
DefaultSocket == "containerd"
Sockets == {"", DefaultSocket, "other"}

VARIABLES
  pid,    \* of the containerd that runs, or ran last; containerd is at DefaultSocket
  state,  \* "up", "frozen" or "down"
  calls,
  gone    \* history: the callers whose call has seen a time when no containerd ran

vars == <<pid, state, calls, gone>>

Fresh ==
  [pc     |-> "idle",
   socket |-> DefaultSocket,
   i      |-> 0,       \* attempts that failed
   errs   |-> 0,       \* those of them that met an error: see Errs
   conn   |-> NoPid,   \* the process that has the other end
   peer   |-> NoPid]   \* the sender of the message that is there to be read

At(c, label) == calls[c].pc = label

Open(c) == calls[c].pc \notin {"idle", "ok", "failed"}

Alive == state # "down"

Init ==
  /\ pid = 1 /\ state \in {"up", "down"}
  /\ calls = [c \in Callers |-> Fresh] /\ gone = {}

Set(c, r) == calls' = [calls EXCEPT ![c] = r]

-----------------------------------------------------------------------------
(* A call.                                                                 *)

\* The command line takes the default for an empty argument.
SocketOf(arg) == IF arg = "" THEN DefaultSocket ELSE arg

Call(c) ==
  /\ ~Open(c)
  /\ \E arg \in Sockets :
       Set(c, [Fresh EXCEPT !.pc = "dial", !.socket = SocketOf(arg)])
  /\ gone' = IF Alive THEN gone \ {c} ELSE gone \union {c}
  /\ UNCHANGED <<pid, state>>

\* Mutant: the last attempt is reported as a success.
RetriedAttempt(r) ==
  [pc |-> IF r.i + 1 = MaxReloadAttempts THEN "ok" ELSE "dial", i |-> r.i + 1,
   errs |-> r.errs, socket |-> r.socket, conn |-> NoPid, peer |-> NoPid]

\* Mutant: there is no limit.
FailedAttemptAlways(r) ==
  [r EXCEPT !.conn = NoPid, !.peer = NoPid, !.pc = "dial", !.errs = 0]

\* An attempt that fails closes its connection; after the last one the call fails.
FailedAttempt(r) ==
  [pc |-> IF r.i + 1 = MaxReloadAttempts THEN "failed" ELSE "dial", i |-> r.i + 1,
   errs |-> r.errs, socket |-> r.socket, conn |-> NoPid, peer |-> NoPid]

\* Any call of an attempt may fail with containerd there, at every attempt: a full
\* backlog or no descriptor left for the dial, an error of SyscallConn, Control or
\* SetsockoptInt, of the write or the read, a message that does not parse as
\* credentials, a kill that is not permitted.
Errs(c) ==
  /\ Open(c)
  /\ Set(c, FailedAttempt([calls[c] EXCEPT !.errs = @ + 1]))
  /\ UNCHANGED <<pid, state, gone>>

CanDial(c) == Alive /\ calls[c].socket = DefaultSocket

Dial(c) ==
  /\ At(c, "dial") /\ CanDial(c)
  /\ Set(c, [calls[c] EXCEPT !.pc = "option", !.conn = pid])
  /\ UNCHANGED <<pid, state, gone>>

DialFails(c) ==
  /\ At(c, "dial") /\ ~CanDial(c)
  /\ Set(c, FailedAttempt(calls[c]))
  /\ UNCHANGED <<pid, state, gone>>

\* SO_PASSCRED.  (An error: Errs.)
SetOption(c) ==
  /\ At(c, "option")
  /\ Set(c, [calls[c] EXCEPT !.pc = "write"])
  /\ UNCHANGED <<pid, state, gone>>

Connected(c) == Alive /\ calls[c].conn = pid

\* The empty message.
Write(c) ==
  /\ At(c, "write") /\ Connected(c)
  /\ Set(c, [calls[c] EXCEPT !.pc = "read"])
  /\ UNCHANGED <<pid, state, gone>>

WriteFails(c) ==
  /\ At(c, "write") /\ ~Connected(c)
  /\ Set(c, FailedAttempt(calls[c]))
  /\ UNCHANGED <<pid, state, gone>>

\* What was sent is read, also when the sender is gone, and parsed.
Read(c) ==
  /\ At(c, "read") /\ calls[c].peer # NoPid
  /\ Set(c, [calls[c] EXCEPT !.pc = "kill"])
  /\ UNCHANGED <<pid, state, gone>>

\* Mutant: the read has a deadline.
ReadTimesOut(c) ==
  /\ At(c, "read") /\ calls[c].peer = NoPid
  /\ Set(c, FailedAttempt(calls[c]))
  /\ UNCHANGED <<pid, state, gone>>

\* The end of the stream; there is no deadline.
ReadFails(c) ==
  /\ At(c, "read") /\ calls[c].peer = NoPid /\ ~Connected(c)
  /\ Set(c, FailedAttempt(calls[c]))
  /\ UNCHANGED <<pid, state, gone>>

\* Open calls see that no containerd runs.
Ended == state' = "down" /\ gone' = gone \union {c \in Callers : Open(c)}

\* Mutant: the signal is reported as sent by the next attempt.
KillAndRetry(c) ==
  /\ At(c, "kill") /\ Alive /\ calls[c].peer = pid
  /\ Ended
  /\ Set(c, FailedAttempt(calls[c]))
  /\ UNCHANGED pid

\* SIGHUP ends containerd.
Kill(c) ==
  /\ At(c, "kill") /\ Alive /\ calls[c].peer = pid
  /\ Ended
  /\ Set(c, [calls[c] EXCEPT !.pc = "ok"])
  /\ UNCHANGED pid

\* The process has ended, and the service manager may not have waited for it yet.
KillEnded(c) ==
  /\ At(c, "kill") /\ state = "down" /\ calls[c].peer = pid
  /\ Set(c, [calls[c] EXCEPT !.pc = "ok"])
  /\ UNCHANGED <<pid, state, gone>>

\* There is no such process.
KillFails(c) ==
  /\ At(c, "kill") /\ calls[c].peer # OwnGroup /\ (Alive => calls[c].peer # pid)
  /\ Set(c, FailedAttempt(calls[c]))
  /\ UNCHANGED <<pid, state, gone>>

\* The caller's process group gets the signal.
KillOwnGroup(c) ==
  /\ At(c, "kill") /\ calls[c].peer = OwnGroup
  /\ Set(c, [calls[c] EXCEPT !.pc = "ok"])
  /\ UNCHANGED <<pid, state, gone>>

-----------------------------------------------------------------------------
(* containerd, and the service manager.                                    *)

\* The server sends its settings when it has accepted: the kernel attaches its
\* credentials if the client has asked for them by then.
Answer(c) ==
  /\ calls[c].pc \in {"option", "write", "read"} /\ calls[c].peer = NoPid
  /\ state = "up" /\ calls[c].conn = pid
  /\ Set(c, [calls[c] EXCEPT !.peer = IF At(c, "option") THEN OwnGroup ELSE pid])
  /\ UNCHANGED <<pid, state, gone>>

Stop == Alive /\ Ended /\ UNCHANGED <<pid, calls>>

Freeze == state = "up" /\ state' = "frozen" /\ UNCHANGED <<pid, calls, gone>>

Start ==
  /\ state = "down" /\ pid < MaxPid
  /\ state' = "up" /\ pid' = pid + 1
  /\ UNCHANGED <<calls, gone>>

Attempt(c) ==
  \/ Dial(c) \/ DialFails(c) \/ SetOption(c) \/ Write(c) \/ WriteFails(c)
  \/ Read(c) \/ ReadFails(c)
  \/ Kill(c) \/ KillEnded(c) \/ KillFails(c) \/ KillOwnGroup(c)

Next ==
  \/ \E c \in Callers : Call(c) \/ Attempt(c) \/ Errs(c) \/ Answer(c)
  \/ Stop \/ Freeze \/ Start

Spec == Init /\ [][Next]_vars

\* The callers are scheduled, and a containerd that is not frozen answers; an error
\* is nobody's duty.
FairSpec == Spec /\ \A c \in Callers : WF_vars(Attempt(c)) /\ WF_vars(Answer(c))

-----------------------------------------------------------------------------
(* Properties.                                                             *)

CallRecords == [
  pc     : {"idle", "dial", "option", "write", "read", "kill", "ok", "failed"},
  socket : {DefaultSocket, "other"},
  i      : 0 .. MaxReloadAttempts,
  errs   : 0 .. MaxReloadAttempts,
  conn   : 1 .. MaxPid \union {NoPid},
  peer   : 0 .. MaxPid \union {NoPid}]

\* Types of the variables; a call that is open has an attempt left.
TypeOK ==
  /\ pid \in 1 .. MaxPid /\ state \in {"up", "frozen", "down"}
  /\ calls \in [Callers -> CallRecords] /\ gone \subseteq Callers
  /\ \A c \in Callers :
       calls[c].errs <= calls[c].i /\ (Open(c) => calls[c].i < MaxReloadAttempts)

\* What an attempt knows is out of date only if containerd has ended since the call
\* began: a connection, or a pid, that is not that of the running containerd, is of a
\* call that such a thing has happened to, and so is every attempt that failed, but
\* for those that met an error (Errs) or dialled another socket
\* (restart_linux.go:50-115).
Explained(c) ==
  LET r == calls[c]
  IN  /\ (Open(c) /\ r.conn # NoPid /\ ~Connected(c)) => c \in gone
      /\ (Open(c) /\ ~Alive) => c \in gone
      /\ r.peer # NoPid => r.peer \in {OwnGroup, r.conn}
      /\ r.i > r.errs => c \in gone \/ r.socket # DefaultSocket
      /\ r.conn # NoPid => r.socket = DefaultSocket
      /\ r.pc \in {"option", "write", "read", "kill"} => r.conn # NoPid
      /\ r.pc = "kill" => r.peer # NoPid
      /\ r.pc = "dial" => r.conn = NoPid /\ r.peer = NoPid

StaleExplained == \A c \in Callers : Explained(c)

Status(r) ==
  CASE r.pc = "idle" -> "none"
    [] r.pc = "ok" -> IF r.peer = OwnGroup THEN "misfired" ELSE "ok"
    [] r.pc = "failed" -> "failed"
    [] OTHER -> IF r.socket = DefaultSocket THEN "pending" ELSE "astray"

Promise == INSTANCE RestartPromise WITH
  alive  <- Alive,
  status <- [c \in Callers |-> Status(calls[c])],
  errors <- [c \in Callers |-> calls[c].errs],
  Patience <- MaxReloadAttempts

\* A call that succeeds leaves no containerd of before it, unless it signalled its
\* own process group; one that fails has found none, or dialled another socket, or met
\* an error in every one of its attempts (restart_linux.go:46-122).
KeepsPromise == Promise!Spec

\* A call that has ended containerd says so: no caller is told of a failure that
\* restarted it (restart_linux.go:94-122).
ReportsTheRestart ==
  [][(Alive /\ state' = "down") =>
        \/ \A c \in Callers : calls'[c].pc = calls[c].pc
        \/ \E c \in Callers : calls[c].pc = "kill" /\ calls'[c].pc = "ok"]_vars

\* A call returns, but for a containerd that accepts connections and does not answer:
\* the read has no deadline (restart_linux.go:78).
Returns ==
  \A c \in Callers :
    (Open(c) ~> ~Open(c)) \/ <>[](At(c, "read") /\ state = "frozen")

=============================================================================
