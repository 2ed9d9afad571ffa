--------------------------- MODULE RestartProofs ----------------------------
(***************************************************************************)
(* RestartContainerd() keeps the promise of RestartPromise, for any number *)
(* of callers, of attempts and of containerd processes.  What has to be    *)
(* known of an attempt is StaleExplained: a pid it was told is either that *)
(* of the containerd that runs, or one has ended since the call began; one *)
(* that failed has met an error or found no containerd.                    *)
(***************************************************************************)
EXTENDS ContainerdRestart, TLAPS

IInv == TypeOK /\ StaleExplained

\* A step of the call c that leaves containerd alone.
Local(c) ==
  /\ UNCHANGED <<pid, state>>
  /\ calls' = [calls EXCEPT ![c] = calls'[c]]
  /\ gone' \subseteq Callers /\ \A d \in Callers \ {c} : d \in gone' <=> d \in gone

-----------------------------------------------------------------------------

LEMMA InitInv == Init => IInv
BY RestartBounds DEF Init, IInv, TypeOK, StaleExplained, Explained, Fresh, CallRecords,
   Sockets, DefaultSocket, NoPid, OwnGroup, Open, Alive, Connected

\* A step of one call keeps the invariant if it keeps that of the call.
LEMMA LocalStep ==
  ASSUME IInv, NEW c \in Callers, Local(c), calls'[c] \in CallRecords,
         calls'[c].errs <= calls'[c].i, Open(c)' => calls'[c].i < MaxReloadAttempts,
         Explained(c)'
  PROVE  IInv'
<1>1. ASSUME NEW d \in Callers, d # c
      PROVE  calls'[d] = calls[d]
      BY <1>1 DEF Local, IInv, TypeOK
<1>2. TypeOK'
      BY <1>1 DEF Local, IInv, TypeOK, Open
<1>3. ASSUME NEW d \in Callers, d # c
      PROVE  Explained(d)'
      BY <1>1, <1>3 DEF Local, IInv, StaleExplained, Explained, Open, Connected, Alive
<1> QED
      BY <1>2, <1>3 DEF IInv, StaleExplained

LEMMA FailedRecord ==
  ASSUME NEW r \in CallRecords, r.i < MaxReloadAttempts
  PROVE  LET f == FailedAttempt(r)
         IN  /\ f \in CallRecords /\ f.i = r.i + 1 /\ f.errs = r.errs
             /\ f.pc \in {"dial", "failed"} /\ (f.pc = "dial" => f.i < MaxReloadAttempts)
             /\ (f.pc = "failed" => f.i = MaxReloadAttempts)
             /\ f.conn = NoPid /\ f.peer = NoPid /\ f.socket = r.socket
<1> DEFINE f == FailedAttempt(r)
<1>1. /\ r.socket \in {DefaultSocket, "other"} /\ r.i \in 0 .. MaxReloadAttempts
      /\ r.errs \in 0 .. MaxReloadAttempts
      BY DEF CallRecords
<1>2. f = [pc |-> IF r.i + 1 = MaxReloadAttempts THEN "failed" ELSE "dial", i |-> r.i + 1,
           errs |-> r.errs, socket |-> r.socket, conn |-> NoPid, peer |-> NoPid]
      BY DEF FailedAttempt
<1>3. /\ f.pc \in {"dial", "failed"} /\ f.i = r.i + 1 /\ f.i \in 0 .. MaxReloadAttempts
      /\ f.pc = "dial" => f.i < MaxReloadAttempts
      /\ f.pc = "failed" => f.i = MaxReloadAttempts
      BY <1>1, <1>2, RestartBounds
<1>4. f \in CallRecords
      BY <1>1, <1>2, <1>3 DEF CallRecords
<1> QED
      BY <1>1, <1>2, <1>3, <1>4

\* The record of a call that met an error, before the attempt is counted.
LEMMA ErredRecord ==
  ASSUME NEW r \in CallRecords, r.errs <= r.i, r.i < MaxReloadAttempts
  PROVE  LET e == [r EXCEPT !.errs = @ + 1]
         IN  /\ e \in CallRecords /\ e.errs = r.errs + 1 /\ e.errs <= r.i + 1
             /\ e.i = r.i /\ e.socket = r.socket
<1> DEFINE e == [r EXCEPT !.errs = @ + 1]
<1>1. r.i \in 0 .. MaxReloadAttempts /\ r.errs \in 0 .. MaxReloadAttempts
      BY DEF CallRecords
<1>2. r.errs + 1 \in 0 .. MaxReloadAttempts /\ r.errs + 1 <= r.i + 1
      BY <1>1, RestartBounds
<1>3. e.errs = r.errs + 1 /\ e.i = r.i /\ e.socket = r.socket
      BY DEF CallRecords
<1>4. e \in CallRecords
      BY <1>2 DEF CallRecords
<1> QED
      BY <1>2, <1>3, <1>4

\* A failed attempt leaves a call that is explained, if its reason is.
LEMMA FailedStep ==
  ASSUME IInv, NEW c \in Callers, Set(c, FailedAttempt(calls[c])), UNCHANGED <<pid, state, gone>>,
         Open(c), c \in gone \/ calls[c].socket # DefaultSocket
  PROVE  IInv'
<1>1. /\ calls[c] \in CallRecords /\ calls[c].i < MaxReloadAttempts /\ Explained(c)
      /\ calls[c].errs <= calls[c].i
      BY DEF IInv, TypeOK, StaleExplained
<1>2. calls'[c] = FailedAttempt(calls[c]) /\ Local(c)
      BY DEF Set, Local, IInv, TypeOK
<1>3. calls'[c] \in CallRecords /\ (Open(c)' => calls'[c].i < MaxReloadAttempts)
      BY <1>1, <1>2, FailedRecord DEF Open
<1>4. calls'[c].errs <= calls'[c].i
      BY <1>1, <1>2, FailedRecord DEF CallRecords
<1>5. Explained(c)'
      BY <1>1, <1>2, FailedRecord DEF Local, Explained, Open, Alive
<1> QED
      BY <1>2, <1>3, <1>4, <1>5, LocalStep

\* So does one that met an error, whatever became of containerd.
LEMMA ErrStep == ASSUME IInv, NEW c \in Callers, Errs(c) PROVE IInv'
<1> DEFINE e == [calls[c] EXCEPT !.errs = @ + 1]
<1>1. /\ calls[c] \in CallRecords /\ calls[c].i < MaxReloadAttempts /\ Explained(c)
      /\ calls[c].errs <= calls[c].i /\ Open(c)
      BY DEF Errs, IInv, TypeOK, StaleExplained
<1>2. /\ e \in CallRecords /\ e.errs = calls[c].errs + 1 /\ e.errs <= calls[c].i + 1
      /\ e.i = calls[c].i /\ e.socket = calls[c].socket
      BY <1>1, ErredRecord
<1>3. calls'[c] = FailedAttempt(e) /\ Local(c) /\ UNCHANGED gone
      BY DEF Errs, Set, Local, IInv, TypeOK
<1> HIDE DEF e
<1>4. /\ calls'[c] \in CallRecords /\ calls'[c].i = calls[c].i + 1
      /\ calls'[c].errs = calls[c].errs + 1 /\ calls'[c].socket = calls[c].socket
      /\ calls'[c].pc \in {"dial", "failed"}
      /\ (calls'[c].pc = "dial" => calls'[c].i < MaxReloadAttempts)
      /\ calls'[c].conn = NoPid /\ calls'[c].peer = NoPid
      BY <1>1, <1>2, <1>3, FailedRecord
<1>5. /\ calls'[c].errs <= calls'[c].i
      /\ calls'[c].i > calls'[c].errs => calls[c].i > calls[c].errs
      BY <1>1, <1>4 DEF CallRecords
<1>6. Explained(c)'
      BY <1>1, <1>3, <1>4, <1>5 DEF Local, Explained, Open, Alive
<1>7. Open(c)' => calls'[c].i < MaxReloadAttempts
      BY <1>4 DEF Open
<1> QED
      BY <1>3, <1>4, <1>5, <1>6, <1>7, LocalStep

LEMMA CallStep == ASSUME IInv, NEW c \in Callers, Call(c) PROVE IInv'
<1>1. calls[c] \in CallRecords
      BY DEF IInv, TypeOK
<1>2. PICK arg \in Sockets :
        calls'[c] = [Fresh EXCEPT !.pc = "dial", !.socket = SocketOf(arg)]
      BY DEF Call, Set, IInv, TypeOK
<1>3. Local(c)
      BY <1>2 DEF Call, Set, Local, IInv, TypeOK
<1>4. /\ calls'[c] = [pc |-> "dial", socket |-> SocketOf(arg), i |-> 0, errs |-> 0,
                     conn |-> NoPid, peer |-> NoPid]
      /\ SocketOf(arg) \in {DefaultSocket, "other"}
      BY <1>2 DEF Fresh, SocketOf, Sockets, DefaultSocket
<1>6. /\ calls'[c] \in CallRecords /\ (Open(c)' => calls'[c].i < MaxReloadAttempts)
      /\ calls'[c].errs <= calls'[c].i
      BY <1>4, RestartBounds DEF CallRecords, Open
<1>5. Explained(c)'
      BY <1>3, <1>4 DEF Call, Local, Explained, Open, Alive, NoPid
<1> QED
      BY <1>3, <1>5, <1>6, LocalStep

\* The steps of an attempt.
LEMMA AttemptStep == ASSUME IInv, NEW c \in Callers, Attempt(c) \/ Answer(c) PROVE IInv'
<1>1. calls[c] \in CallRecords /\ Explained(c) /\ pid \in 1 .. MaxPid
      /\ calls[c].errs <= calls[c].i /\ (Open(c) => calls[c].i < MaxReloadAttempts)
      BY DEF IInv, TypeOK, StaleExplained
<1> USE <1>1
<1>2. CASE Dial(c)
  <2>1. Local(c)
        BY <1>2 DEF Dial, Set, Local, IInv, TypeOK
  <2>2. /\ calls'[c] \in CallRecords /\ (Open(c)' => calls'[c].i < MaxReloadAttempts)
        /\ calls'[c].errs <= calls'[c].i
        BY <1>2 DEF Dial, Set, At, Open, CallRecords, OwnGroup, IInv, TypeOK
  <2>3. Explained(c)'
    <3>1. calls'[c].pc = "option" /\ calls'[c].conn = pid' /\ calls'[c].peer = NoPid
          /\ calls'[c].socket = DefaultSocket /\ calls'[c].i = calls[c].i /\ calls[c].pc = "dial"
          /\ calls'[c].errs = calls[c].errs
          BY <1>2 DEF Dial, Set, At, CanDial, Explained, CallRecords, IInv, TypeOK
    <3> QED
        BY <1>2, <2>1, <3>1 DEF Dial, CanDial, Open, Connected, Alive, Explained, NoPid, Local
  <2> QED
        BY <2>1, <2>2, <2>3, LocalStep
<1>3. CASE SetOption(c)
  <2>1. Local(c)
        BY <1>3 DEF SetOption, Set, Local, IInv, TypeOK
  <2>2. /\ calls'[c] \in CallRecords /\ (Open(c)' => calls'[c].i < MaxReloadAttempts)
        /\ calls'[c].errs <= calls'[c].i
        BY <1>3 DEF SetOption, Set, At, Open, CallRecords, OwnGroup, IInv, TypeOK
  <2>3. Explained(c)'
        BY <1>3, <2>1 DEF SetOption, Set, At, CanDial, Open, Connected, Alive, Explained, OwnGroup, NoPid,
           Local, IInv, TypeOK
  <2> QED
        BY <2>1, <2>2, <2>3, LocalStep
<1>4. CASE Write(c)
  <2>1. Local(c)
        BY <1>4 DEF Write, Set, Local, IInv, TypeOK
  <2>2. /\ calls'[c] \in CallRecords /\ (Open(c)' => calls'[c].i < MaxReloadAttempts)
        /\ calls'[c].errs <= calls'[c].i
        BY <1>4 DEF Write, Set, At, Open, CallRecords, OwnGroup, IInv, TypeOK
  <2>3. Explained(c)'
        BY <1>4, <2>1 DEF Write, Set, At, CanDial, Open, Connected, Alive, Explained, OwnGroup, NoPid,
           Local, IInv, TypeOK
  <2> QED
        BY <2>1, <2>2, <2>3, LocalStep
<1>5. CASE Read(c)
  <2>1. Local(c)
        BY <1>5 DEF Read, Set, Local, IInv, TypeOK
  <2>2. /\ calls'[c] \in CallRecords /\ (Open(c)' => calls'[c].i < MaxReloadAttempts)
        /\ calls'[c].errs <= calls'[c].i
        BY <1>5 DEF Read, Set, At, Open, CallRecords, OwnGroup, IInv, TypeOK
  <2>3. Explained(c)'
        BY <1>5, <2>1 DEF Read, Set, At, CanDial, Open, Connected, Alive, Explained, OwnGroup, NoPid,
           Local, IInv, TypeOK
  <2> QED
        BY <2>1, <2>2, <2>3, LocalStep
<1>6. CASE KillEnded(c)
  <2>1. Local(c)
        BY <1>6 DEF KillEnded, Set, Local, IInv, TypeOK
  <2>2. /\ calls'[c] \in CallRecords /\ (Open(c)' => calls'[c].i < MaxReloadAttempts)
        /\ calls'[c].errs <= calls'[c].i
        BY <1>6 DEF KillEnded, Set, At, Open, CallRecords, OwnGroup, IInv, TypeOK
  <2>3. Explained(c)'
        BY <1>6, <2>1 DEF KillEnded, Set, At, CanDial, Open, Connected, Alive, Explained, OwnGroup, NoPid,
           Local, IInv, TypeOK
  <2> QED
        BY <2>1, <2>2, <2>3, LocalStep
<1>7. CASE KillOwnGroup(c)
  <2>1. Local(c)
        BY <1>7 DEF KillOwnGroup, Set, Local, IInv, TypeOK
  <2>2. /\ calls'[c] \in CallRecords /\ (Open(c)' => calls'[c].i < MaxReloadAttempts)
        /\ calls'[c].errs <= calls'[c].i
        BY <1>7 DEF KillOwnGroup, Set, At, Open, CallRecords, OwnGroup, IInv, TypeOK
  <2>3. Explained(c)'
        BY <1>7, <2>1 DEF KillOwnGroup, Set, At, CanDial, Open, Connected, Alive, Explained, OwnGroup, NoPid,
           Local, IInv, TypeOK
  <2> QED
        BY <2>1, <2>2, <2>3, LocalStep
<1>8. CASE Answer(c)
  <2>1. Local(c)
        BY <1>8 DEF Answer, Set, Local, IInv, TypeOK
  <2>2. /\ calls'[c] \in CallRecords /\ (Open(c)' => calls'[c].i < MaxReloadAttempts)
        /\ calls'[c].errs <= calls'[c].i
    <3>1. PICK p \in 0 .. MaxPid : calls'[c] = [calls[c] EXCEPT !.peer = p]
          BY <1>8, RestartBounds DEF Answer, Set, OwnGroup, IInv, TypeOK
    <3> QED
          BY <3>1 DEF CallRecords, Open
  <2>3. Explained(c)'
        BY <1>8, <2>1 DEF Answer, Set, At, CanDial, Open, Connected, Alive, Explained, OwnGroup, NoPid,
           Local, IInv, TypeOK
  <2> QED
        BY <2>1, <2>2, <2>3, LocalStep
<1>9. CASE DialFails(c) \/ WriteFails(c) \/ ReadFails(c) \/ KillFails(c)
  <2>1. Open(c) /\ (c \in gone \/ calls[c].socket # DefaultSocket)
        BY <1>9 DEF DialFails, WriteFails, ReadFails, KillFails, CanDial, At, Open, Connected,
           Explained, CallRecords
  <2> QED
        BY <1>9, <2>1, FailedStep DEF DialFails, WriteFails, ReadFails, KillFails
<1>10. CASE Kill(c)
  <2> QED
        BY <1>10 DEF Kill, Ended, Set, IInv, TypeOK, StaleExplained, Explained, Open, Alive, Connected, CallRecords
<1> QED
      BY <1>2, <1>3, <1>4, <1>5, <1>6, <1>7, <1>8, <1>9, <1>10 DEF Attempt

LEMMA NodeStep == ASSUME IInv, Stop \/ Freeze \/ Start PROVE IInv'
<1>1. CASE Stop
      BY <1>1 DEF Stop, Ended, IInv, TypeOK, StaleExplained, Explained, Open, Alive, Connected, CallRecords
<1>2. CASE Freeze
      BY <1>2 DEF Freeze, IInv, TypeOK, StaleExplained, Explained, Open, Alive, Connected, CallRecords
<1>3. CASE Start
      BY <1>3, RestartBounds DEF Start, IInv, TypeOK, StaleExplained, Explained, Open, Alive, Connected, CallRecords
<1> QED
      BY <1>1, <1>2, <1>3

LEMMA NextInv == IInv /\ [Next]_vars => IInv'
<1> SUFFICES ASSUME IInv, [Next]_vars PROVE IInv'
    OBVIOUS
<1>1. CASE UNCHANGED vars
      BY <1>1 DEF vars, IInv, TypeOK, StaleExplained, Explained, Open, Alive, Connected
<1>2. CASE Next
      BY <1>2, CallStep, AttemptStep, ErrStep, NodeStep DEF Next
<1> QED
      BY <1>1, <1>2

\* The variables have their types, and an open call has an attempt left.
THEOREM TypeCorrect == Spec => []TypeOK
<1>1. IInv => TypeOK
      BY DEF IInv
<1> QED
      BY <1>1, InitInv, NextInv, PTL DEF Spec

\* What an attempt knows is out of date only if containerd has ended since the call
\* began; so does an attempt fail, but for one that met an error or dialled another
\* socket (restart_linux.go:50-115).
THEOREM StalenessExplained == Spec => []StaleExplained
<1>1. IInv => StaleExplained
      BY DEF IInv
<1> QED
      BY <1>1, InitInv, NextInv, PTL DEF Spec

-----------------------------------------------------------------------------
(* The refinement.                                                         *)

st == [c \in Callers |-> Status(calls[c])]

er == [c \in Callers |-> calls[c].errs]

LEMMA OpenStatus ==
  ASSUME IInv
  PROVE  \A c \in Callers : st[c] \in {"pending", "astray"} <=> Open(c)
BY DEF st, Status, Open, IInv, TypeOK, CallRecords

LEMMA StatusStep ==
  ASSUME IInv, NEW c \in Callers, Local(c)
  PROVE  st' = [st EXCEPT ![c] = Status(calls'[c])]
BY DEF st, Local, IInv, TypeOK

LEMMA ErrorsStep ==
  ASSUME IInv, NEW c \in Callers, Local(c)
  PROVE  er' = [er EXCEPT ![c] = calls'[c].errs]
BY DEF er, Local, IInv, TypeOK

\* What an open call is for the promise.
LEMMA OpenIs ==
  ASSUME IInv, NEW c \in Callers, Open(c)
  PROVE  st[c] = IF calls[c].socket = DefaultSocket THEN "pending" ELSE "astray"
BY DEF st, Status, Open, IInv, TypeOK, CallRecords

LEMMA CallRefines == ASSUME IInv, NEW c \in Callers, Call(c) PROVE Promise!Begin(c)
<1>1. PICK s \in {DefaultSocket, "other"} : calls'[c] = [Fresh EXCEPT !.pc = "dial", !.socket = s]
      BY DEF Call, Set, SocketOf, Sockets, DefaultSocket, IInv, TypeOK
<1>2. Local(c)
      BY DEF Call, Set, Local, IInv, TypeOK
<1>3. Status(calls'[c]) \in {"pending", "astray"}
      BY <1>1 DEF Fresh, Status
<1>4. st' = [st EXCEPT ![c] = Status(calls'[c])] /\ st[c] \notin {"pending", "astray"}
      BY <1>2, StatusStep, OpenStatus DEF Call
<1>5. er' = [er EXCEPT ![c] = 0]
      BY <1>1, <1>2, ErrorsStep DEF Fresh
<1> QED
      BY <1>3, <1>4, <1>5 DEF Promise!Begin, Promise!Open, st, er, Call, Alive

\* An attempt that fails is a failure of the call, or nothing.
LEMMA FailRefines ==
  ASSUME IInv, NEW c \in Callers,
         DialFails(c) \/ WriteFails(c) \/ ReadFails(c) \/ KillFails(c)
  PROVE  Promise!Fail(c) \/ UNCHANGED Promise!vars
<1>1. calls[c] \in CallRecords /\ calls[c].i < MaxReloadAttempts /\ Explained(c) /\ Open(c)
      BY DEF DialFails, WriteFails, ReadFails, KillFails, At, Open, IInv, TypeOK, StaleExplained
<1>2. c \in gone \/ calls[c].socket # DefaultSocket
      BY <1>1 DEF DialFails, WriteFails, ReadFails, KillFails, CanDial, At, Connected, Explained,
         CallRecords, IInv, TypeOK
<1>3. calls'[c] = FailedAttempt(calls[c]) /\ Local(c) /\ UNCHANGED <<pid, state, gone>>
      BY DEF DialFails, WriteFails, ReadFails, KillFails, Set, Local, IInv, TypeOK
<1>4. calls'[c].pc \in {"dial", "failed"} /\ calls'[c].socket = calls[c].socket
      BY <1>1, <1>3, FailedRecord
<1>5. st' = [st EXCEPT ![c] = Status(calls'[c])]
      BY <1>3, StatusStep
<1>8. er' = er
  <2>1. calls'[c].errs = calls[c].errs
        BY <1>1, <1>3, FailedRecord
  <2>2. er' = [er EXCEPT ![c] = er[c]]
        BY <1>3, <2>1, ErrorsStep DEF er
  <2> QED
        BY <2>2 DEF er
<1>6. CASE calls'[c].pc = "failed"
  <2>1. Status(calls'[c]) = "failed"
        BY <1>6 DEF Status
  <2> QED
        BY <1>1, <1>2, <1>3, <1>5, <1>8, <2>1, OpenIs
        DEF Promise!Fail, Promise!Excused, st, er, Alive
<1>7. CASE calls'[c].pc = "dial"
  <2>1. Status(calls'[c]) = st[c]
        BY <1>1, <1>4, <1>7, OpenIs DEF Status
  <2> QED
        BY <1>3, <1>5, <1>8, <2>1 DEF Promise!vars, st, er, Alive
<1> QED
      BY <1>4, <1>6, <1>7

\* An error is one of the promise's, and what it leads to is allowed by it: the call
\* goes on, or each of its attempts has met one, or it has another excuse.
LEMMA ErrRefines == ASSUME IInv, NEW c \in Callers, Errs(c) PROVE Promise!Err(c)
<1> DEFINE e == [calls[c] EXCEPT !.errs = @ + 1]
<1>1. /\ calls[c] \in CallRecords /\ calls[c].i < MaxReloadAttempts /\ Explained(c)
      /\ calls[c].errs <= calls[c].i /\ Open(c) /\ calls[c].i \in Nat /\ calls[c].errs \in Nat
      BY DEF Errs, IInv, TypeOK, StaleExplained, CallRecords
<1>2. /\ e \in CallRecords /\ e.errs = calls[c].errs + 1
      /\ e.i = calls[c].i /\ e.socket = calls[c].socket
      BY <1>1, ErredRecord
<1>3. calls'[c] = FailedAttempt(e) /\ Local(c) /\ UNCHANGED <<pid, state, gone>>
      BY DEF Errs, Set, Local, IInv, TypeOK
<1> HIDE DEF e
<1>4. /\ calls'[c].errs = calls[c].errs + 1 /\ calls'[c].socket = calls[c].socket
      /\ calls'[c].pc \in {"dial", "failed"}
      /\ (calls'[c].pc = "failed" => calls[c].i + 1 = MaxReloadAttempts)
      BY <1>1, <1>2, <1>3, FailedRecord
<1>5. st' = [st EXCEPT ![c] = Status(calls'[c])] /\ er' = [er EXCEPT ![c] = er[c] + 1]
      BY <1>3, <1>4, StatusStep, ErrorsStep DEF er
<1>6. st[c] \in {"pending", "astray"} /\ UNCHANGED Alive
      BY <1>1, <1>3, OpenStatus DEF Alive
<1>7. CASE calls'[c].pc = "failed"
  <2>1. Status(calls'[c]) = "failed"
        BY <1>7 DEF Status
  <2>2. \/ st[c] = "astray" \/ (st[c] = "pending" /\ c \in gone)
        \/ er[c] + 1 = MaxReloadAttempts
    <3>1. CASE calls[c].i > calls[c].errs
          BY <1>1, <3>1, OpenIs DEF Explained
    <3>2. CASE calls[c].i = calls[c].errs
          BY <1>4, <1>7, <3>2 DEF er
    <3> QED
          BY <1>1, <3>1, <3>2
  <2> QED
        BY <1>3, <1>5, <1>6, <2>1, <2>2 DEF Promise!Err, Promise!Open, Promise!Excused, st, er
<1>8. CASE calls'[c].pc = "dial"
  <2>1. Status(calls'[c]) = st[c]
        BY <1>1, <1>4, <1>8, OpenIs DEF Status
  <2>2. st' = st
        BY <1>5, <2>1 DEF st
  <2> QED
        BY <1>3, <1>5, <1>6, <2>2 DEF Promise!Err, Promise!Open, st, er
<1> QED
      BY <1>4, <1>7, <1>8

\* Steps on the way, which the promise does not see.
LEMMA WayRefines ==
  ASSUME IInv, NEW c \in Callers, Dial(c) \/ SetOption(c) \/ Write(c) \/ Read(c) \/ Answer(c)
  PROVE  UNCHANGED Promise!vars
<1>1. Open(c) /\ Local(c) /\ UNCHANGED <<pid, state, gone>>
      BY DEF Dial, SetOption, Write, Read, Answer, Set, At, Open, Local, IInv, TypeOK
<1>2. /\ calls'[c].pc \in {"option", "write", "read", "kill"}
      /\ calls'[c].socket = calls[c].socket /\ calls'[c].errs = calls[c].errs
  <2>1. CASE Dial(c)
        BY <2>1 DEF Dial, Set, At, IInv, TypeOK, CallRecords
  <2>2. CASE SetOption(c)
        BY <2>2 DEF SetOption, Set, At, IInv, TypeOK, CallRecords
  <2>3. CASE Write(c)
        BY <2>3 DEF Write, Set, At, IInv, TypeOK, CallRecords
  <2>4. CASE Read(c)
        BY <2>4 DEF Read, Set, At, IInv, TypeOK, CallRecords
  <2>5. CASE Answer(c)
        BY <2>5 DEF Answer, Set, At, IInv, TypeOK, CallRecords
  <2> QED
        BY <2>1, <2>2, <2>3, <2>4, <2>5
<1>3. Status(calls'[c]) = st[c]
      BY <1>1, <1>2, OpenIs DEF Status
<1>4. st' = [st EXCEPT ![c] = st[c]] /\ er' = [er EXCEPT ![c] = er[c]]
      BY <1>1, <1>2, <1>3, StatusStep, ErrorsStep DEF er
<1>5. st' = st /\ er' = er
      BY <1>4 DEF st, er
<1> QED
      BY <1>1, <1>5 DEF Promise!vars, st, er, Alive

\* The last step of a call that succeeds.
LEMMA KillRefines ==
  ASSUME IInv, NEW c \in Callers, Kill(c) \/ KillEnded(c) \/ KillOwnGroup(c)
  PROVE  Promise!Restart(c) \/ Promise!Succeed(c) \/ Promise!Misfire(c)
<1>1. /\ calls[c] \in CallRecords /\ Explained(c) /\ Open(c) /\ calls[c].pc = "kill"
      /\ pid \in 1 .. MaxPid
      BY DEF Kill, KillEnded, KillOwnGroup, At, Open, IInv, TypeOK, StaleExplained
<1>2. st[c] = "pending"
      BY <1>1, OpenIs DEF Explained
<1>3. /\ calls' = [calls EXCEPT ![c] = calls'[c]] /\ calls'[c].pc = "ok"
      /\ calls'[c].peer = calls[c].peer /\ calls'[c].errs = calls[c].errs /\ UNCHANGED pid
      BY DEF Kill, KillEnded, KillOwnGroup, Set, IInv, TypeOK, CallRecords
<1>4. st' = [st EXCEPT ![c] = Status(calls'[c])] /\ er' = er
      BY <1>3 DEF st, er, IInv, TypeOK
<1>5. CASE Kill(c)
  <2>1. Status(calls'[c]) = "ok"
        BY <1>1, <1>3, <1>5 DEF Kill, Status, OwnGroup
  <2>2. Ended /\ Alive /\ ~Alive'
        BY <1>5 DEF Kill, Ended, Alive
  <2> QED
        BY <1>2, <1>4, <2>1, <2>2, OpenStatus DEF Promise!Restart, Promise!Ended, Promise!Open, Ended, st, er
<1>6. CASE KillEnded(c)
  <2>1. Status(calls'[c]) = "ok" /\ c \in gone
        BY <1>1, <1>3, <1>6 DEF KillEnded, Status, OwnGroup, Explained, Alive
  <2> QED
        BY <1>2, <1>4, <1>6, <2>1 DEF Promise!Succeed, KillEnded, Alive, st, er
<1>7. CASE KillOwnGroup(c)
  <2>1. Status(calls'[c]) = "misfired"
        BY <1>3, <1>7 DEF KillOwnGroup, Status
  <2> QED
        BY <1>2, <1>4, <1>7, <2>1 DEF Promise!Misfire, KillOwnGroup, Alive, st, er
<1> QED
      BY <1>5, <1>6, <1>7

LEMMA NodeRefines ==
  ASSUME IInv, Stop \/ Freeze \/ Start
  PROVE  Promise!Ends \/ Promise!Starts \/ UNCHANGED Promise!vars
<1>1. CASE Stop
      BY <1>1, OpenStatus DEF Stop, Ended, Promise!Ends, Promise!Ended, Promise!Open, Alive, st
<1>2. CASE Freeze
      BY <1>2 DEF Freeze, Promise!vars, Alive
<1>3. CASE Start
      BY <1>3 DEF Start, Promise!Starts, Alive
<1> QED
      BY <1>1, <1>2, <1>3

LEMMA StepRefines == IInv /\ [Next]_vars => [Promise!Next]_Promise!vars
<1> SUFFICES ASSUME IInv, [Next]_vars PROVE Promise!Next \/ UNCHANGED Promise!vars
    OBVIOUS
<1>1. CASE UNCHANGED vars
      BY <1>1 DEF vars, Promise!vars, Alive
<1>2. CASE Stop \/ Freeze \/ Start
      BY <1>2, NodeRefines DEF Promise!Next
<1>3. ASSUME NEW c \in Callers, Call(c) \/ Attempt(c) \/ Errs(c) \/ Answer(c)
      PROVE  Promise!Next \/ UNCHANGED Promise!vars
  <2>1. CASE Call(c)
        BY <2>1, CallRefines DEF Promise!Next
  <2>2. CASE DialFails(c) \/ WriteFails(c) \/ ReadFails(c) \/ KillFails(c)
        BY <2>2, FailRefines DEF Promise!Next
  <2>3. CASE Dial(c) \/ SetOption(c) \/ Write(c) \/ Read(c) \/ Answer(c)
        BY <2>3, WayRefines
  <2>4. CASE Kill(c) \/ KillEnded(c) \/ KillOwnGroup(c)
        BY <2>4, KillRefines DEF Promise!Next
  <2>5. CASE Errs(c)
        BY <2>5, ErrRefines DEF Promise!Next
  <2> QED
        BY <1>3, <2>1, <2>2, <2>3, <2>4, <2>5 DEF Attempt
<1> QED
      BY <1>1, <1>2, <1>3 DEF Next

LEMMA InitRefines == Init => Promise!Init
BY DEF Init, Promise!Init, Alive, Fresh, Status

\* A call that succeeds leaves no containerd of before it, or has signalled its own
\* process group; one that fails has found none, or dialled another socket, or met an
\* error in every one of its attempts (restart_linux.go:46-122).
THEOREM PromiseKept == Spec => KeepsPromise
<1>1. Init /\ [][Next]_vars => []IInv
      BY InitInv, NextInv, PTL
<1> QED
      BY <1>1, InitRefines, StepRefines, PTL DEF Spec, KeepsPromise, Promise!Spec

\* A call that has ended containerd says so (restart_linux.go:94-122).
LEMMA StepReports ==
  ASSUME IInv, [Next]_vars
  PROVE  (Alive /\ state' = "down") =>
           \/ \A c \in Callers : calls'[c].pc = calls[c].pc
           \/ \E c \in Callers : calls[c].pc = "kill" /\ calls'[c].pc = "ok"
<1> SUFFICES ASSUME Alive, state' = "down"
             PROVE  \/ \A c \in Callers : calls'[c].pc = calls[c].pc
                    \/ \E c \in Callers : calls[c].pc = "kill" /\ calls'[c].pc = "ok"
    OBVIOUS
<1>1. Stop \/ \E c \in Callers : Kill(c)
      BY DEF Next, vars, Attempt, Call, Dial, DialFails, SetOption, Write, WriteFails, Read, ReadFails,
         Kill, KillEnded, KillFails, KillOwnGroup, Errs, Answer, Freeze, Start, Alive
<1>2. CASE Stop
      BY <1>2 DEF Stop
<1>3. ASSUME NEW c \in Callers, Kill(c)
      PROVE  calls[c].pc = "kill" /\ calls'[c].pc = "ok"
      BY <1>3 DEF Kill, At, Set, IInv, TypeOK, CallRecords
<1> QED
      BY <1>1, <1>2, <1>3

THEOREM RestartReported == Spec => ReportsTheRestart
<1>1. Init /\ [][Next]_vars => []IInv
      BY InitInv, NextInv, PTL
<1> QED
      BY <1>1, StepReports, PTL DEF Spec, ReportsTheRestart

=============================================================================
