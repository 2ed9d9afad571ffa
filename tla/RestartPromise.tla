--------------------------- MODULE RestartPromise ---------------------------
(***************************************************************************)
(* What RestartContainerd() of internal/runtime/containerd promises its    *)
(* callers: a call that succeeds leaves no containerd process that ran     *)
(* before it, and so none that read an older configuration; one that fails *)
(* found containerd not running, or nothing at its socket, or has met an   *)
(* error of the system as often as it was willing to try.                  *)
(***************************************************************************)
EXTENDS Naturals

CONSTANTS Callers, Patience

VARIABLES
  alive,   \* a containerd process runs
  status,  \* of each caller's call
  gone,    \* the callers whose call has seen a time when no containerd ran
  errors   \* how many errors, with containerd there, each call has met

vars == <<alive, status, gone, errors>>

Open(c) == status[c] \in {"pending", "astray"}

Init ==
  /\ alive \in BOOLEAN
  /\ status = [c \in Callers |-> "none"] /\ gone = {} /\ errors = [c \in Callers |-> 0]

\* A call is astray when it is given the socket of nobody.
Begin(c) ==
  /\ ~Open(c)
  /\ \E s \in {"pending", "astray"} : status' = [status EXCEPT ![c] = s]
  /\ gone' = IF alive THEN gone \ {c} ELSE gone \union {c}
  /\ errors' = [errors EXCEPT ![c] = 0]
  /\ UNCHANGED alive

Ended == alive' = FALSE /\ gone' = gone \union {c \in Callers : Open(c)}

Ends == Ended /\ UNCHANGED <<status, errors>>

Starts == alive' = TRUE /\ UNCHANGED <<status, gone, errors>>

Restart(c) ==
  /\ status[c] = "pending" /\ alive
  /\ status' = [status EXCEPT ![c] = "ok"]
  /\ Ended /\ UNCHANGED errors

\* It was restarted by another, or ended, meanwhile.
Succeed(c) ==
  /\ status[c] = "pending" /\ c \in gone
  /\ status' = [status EXCEPT ![c] = "ok"]
  /\ UNCHANGED <<alive, gone, errors>>

\* The signal goes to the caller.
Misfire(c) ==
  /\ status[c] = "pending"
  /\ status' = [status EXCEPT ![c] = "misfired"]
  /\ UNCHANGED <<alive, gone, errors>>

Excused(c) == status[c] = "astray" \/ (status[c] = "pending" /\ c \in gone)

Fail(c) ==
  /\ Excused(c)
  /\ status' = [status EXCEPT ![c] = "failed"]
  /\ UNCHANGED <<alive, gone, errors>>

\* An attempt meets an error; the call gives up if it was the last one left.
Err(c) ==
  /\ Open(c)
  /\ errors' = [errors EXCEPT ![c] = errors[c] + 1]
  /\ \/ UNCHANGED status
     \/ /\ Excused(c) \/ errors[c] + 1 = Patience
        /\ status' = [status EXCEPT ![c] = "failed"]
  /\ UNCHANGED <<alive, gone>>

Next ==
  \/ Ends \/ Starts
  \/ \E c \in Callers :
       Begin(c) \/ Restart(c) \/ Succeed(c) \/ Misfire(c) \/ Fail(c) \/ Err(c)

Spec == Init /\ [][Next]_vars

=============================================================================
