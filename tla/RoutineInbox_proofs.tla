------------------------- MODULE RoutineInbox_proofs -------------------------
(* Proofs about the workflow runtime of the routine service, for every set  *)
(* of keys, every number of workers, attempts and faults.                   *)
EXTENDS RoutineInbox, FiniteSetTheorems, TLAPS

(* An attempt is left for an event that is pending, or will be pending when *)
(* the runtime starts, with one more for every crash.                       *)
AttemptsLeft ==
  \A k \in Keys :
    /\ attempts[k] <= MaxAttempts + faults
    /\ event[k] = "none" => attempts[k] = 0
    /\ event[k] = "pending" \/ (event[k] = "processing" /\ ~started) =>
         attempts[k] < MaxAttempts + faults

(* What a process holds: nothing before it has started, and a worker for    *)
(* every event it is processing.                                            *)
ProcessShape ==
  /\ ~started => ~ready /\ driving = {} /\ recover = {} /\ workers = {}
  /\ \A k \in Keys : k \in workers => event[k] = "processing"
  /\ \A k \in Keys : started /\ event[k] = "processing" => k \in workers
  /\ \A k \in Keys : Finished(k) => run[k] \notin {"queued", "running"}

(* The types without the bound of the attempts. *)
Shape ==
  /\ enabled \in BOOLEAN
  /\ event \in [Keys -> {"none", "pending", "processing"} \cup TerminalEvent]
  /\ attempts \in [Keys -> Nat]
  /\ run \in [Keys -> {"none", "queued", "running", "waiting"} \cup TerminalRun]
  /\ steps \in [Keys -> BOOLEAN]
  /\ started \in BOOLEAN /\ ready \in BOOLEAN
  /\ recover \subseteq Keys /\ driving \subseteq Keys /\ workers \subseteq Keys
  /\ stranded \subseteq Keys
  /\ faults \in 0..MaxFaults

IInv == Shape /\ AttemptsLeft /\ ProcessShape /\ RunningIsDriven

LEMMA InitInv == Init => IInv
<1>. SUFFICES ASSUME Init PROVE IInv
  OBVIOUS
<1>. USE InboxAssumption DEF InboxAssumption, Init
<1>1. Shape
  <2>1. /\ event \in [Keys -> {"none"}] /\ attempts \in [Keys -> {0}]
        /\ run \in [Keys -> {"none"}] /\ steps \in [Keys -> {FALSE}]
    OBVIOUS
  <2>2. recover \subseteq Keys /\ driving \subseteq Keys /\ stranded \subseteq Keys
    OBVIOUS
  <2>3. workers \subseteq Keys
    OBVIOUS
  <2>4. faults \in 0..MaxFaults
    OBVIOUS
  <2>. QED
    BY <2>1, <2>2, <2>3, <2>4 DEF Shape
<1>2. AttemptsLeft
  BY DEF AttemptsLeft
<1>3. ProcessShape /\ RunningIsDriven
  BY DEF ProcessShape, RunningIsDriven
<1>. QED
  BY <1>1, <1>2, <1>3 DEF IInv

(* Every step keeps the shape of the rows and of the process's sets. *)
LEMMA ShapeStep == IInv /\ [Next]_vars => Shape'
<1>. SUFFICES ASSUME IInv, [Next]_vars PROVE Shape'
  OBVIOUS
<1>. USE InboxAssumption
     DEF InboxAssumption, IInv, Shape, TerminalEvent, TerminalRun, vars, database, process
<1>1. ASSUME NEW k \in Keys, Enqueue(k) PROVE Shape'
  BY <1>1 DEF Enqueue
<1>2. ASSUME NEW k \in Keys, Claim(k) PROVE Shape'
  <2>1. event' \in [Keys -> {"none", "pending", "processing"} \cup TerminalEvent]
    BY <1>2 DEF Claim, EngineStarts, Outcome
  <2>2. run' \in [Keys -> {"none", "queued", "running", "waiting"} \cup TerminalRun] /\ steps' \in [Keys -> BOOLEAN]
    BY <1>2 DEF Claim, EngineStarts
  <2>3. attempts' \in [Keys -> Nat]
    BY <1>2 DEF Claim
  <2>4. driving' \subseteq Keys /\ workers' \subseteq Keys /\ stranded' \subseteq Keys
    BY <1>2 DEF Claim, EngineStarts
  <2>. QED
    BY <1>2, <2>1, <2>2, <2>3, <2>4 DEF Claim
<1>3. ASSUME NEW k \in Keys, NEW s \in {"completed", "failed", "waiting"}, DriverEnds(k, s) PROVE Shape'
  BY <1>3 DEF DriverEnds, Outcome
<1>4. ASSUME NEW k \in Keys, DriverThrows(k) PROVE Shape'
  BY <1>4 DEF DriverThrows, Retried
<1>5. ASSUME NEW k \in Keys, Approve(k) PROVE Shape'
  BY <1>5 DEF Approve
<1>6. ASSUME NEW k \in Keys, Reject(k) PROVE Shape'
  BY <1>6 DEF Reject
<1>7. ASSUME NEW k \in Keys, CancelRun(k) PROVE Shape'
  BY <1>7 DEF CancelRun, Fault
<1>8. ASSUME NEW k \in Keys, Recover(k) PROVE Shape'
  BY <1>8 DEF Recover
<1>9. ASSUME NEW k \in Keys, PruneEvent(k) PROVE Shape'
  BY <1>9 DEF PruneEvent
<1>10. ASSUME NEW k \in Keys, PruneRun(k) PROVE Shape'
  BY <1>10 DEF PruneRun
<1>11. CASE ToggleRoutine
  BY <1>11 DEF ToggleRoutine, Fault
<1>12. CASE StartRuntime
  BY <1>12 DEF StartRuntime
<1>13. CASE RecoveryEnds
  BY <1>13 DEF RecoveryEnds
<1>14. ASSUME NEW torn \in SUBSET Keys, Crash(torn) PROVE Shape'
  <2>1. event' \in [Keys -> {"none", "pending", "processing"} \cup TerminalEvent]
    BY <1>14 DEF Crash
  <2>2. run' \in [Keys -> {"none", "queued", "running", "waiting"} \cup TerminalRun]
    BY <1>14 DEF Crash
  <2>3. attempts' \in [Keys -> Nat]
    BY <1>14 DEF Crash
  <2>4. faults' \in 0..MaxFaults
    BY <1>14 DEF Crash, Fault
  <2>5. recover' \subseteq Keys /\ driving' \subseteq Keys /\ stranded' \subseteq Keys
    BY <1>14 DEF Crash
  <2>6. workers' \subseteq Keys
    BY <1>14 DEF Crash
  <2>. QED
    BY <1>14, <2>1, <2>2, <2>3, <2>4, <2>5, <2>6 DEF Crash
<1>15. ASSUME NEW k \in Keys, WorkerEnds(k) PROVE Shape'
  BY <1>15 DEF WorkerEnds, Finished, Outcome
<1>16. ASSUME NEW k \in Keys, WorkerFails(k) PROVE Shape'
  BY <1>16 DEF WorkerFails, Finished, Retried
<1>17. CASE UNCHANGED vars
  BY <1>17
<1>. QED
  BY <1>1, <1>2, <1>3, <1>4, <1>5, <1>6, <1>7, <1>8, <1>9, <1>10, <1>11, <1>12, <1>13, <1>14, <1>15, <1>16, <1>17
  DEF Next

(* An event is being processed by the worker that will settle it. *)
LEMMA ProcessShapeStep == IInv /\ [Next]_vars => ProcessShape'
<1>. SUFFICES ASSUME IInv, [Next]_vars PROVE ProcessShape'
  OBVIOUS
<1>. USE InboxAssumption
     DEF InboxAssumption, IInv, Shape, TerminalEvent, TerminalRun, ProcessShape, Finished, vars, database, process
<1>1. ASSUME NEW k \in Keys, Enqueue(k) PROVE ProcessShape'
  BY <1>1 DEF Enqueue
<1>2. ASSUME NEW k \in Keys, Claim(k) PROVE ProcessShape'
  BY <1>2 DEF Claim, EngineStarts, Outcome
<1>3. ASSUME NEW k \in Keys, NEW s \in {"completed", "failed", "waiting"}, DriverEnds(k, s) PROVE ProcessShape'
  BY <1>3 DEF DriverEnds, Outcome
<1>4. ASSUME NEW k \in Keys, DriverThrows(k) PROVE ProcessShape'
  BY <1>4 DEF DriverThrows, Retried
<1>5. ASSUME NEW k \in Keys, Approve(k) PROVE ProcessShape'
  BY <1>5 DEF Approve
<1>6. ASSUME NEW k \in Keys, Reject(k) PROVE ProcessShape'
  BY <1>6 DEF Reject
<1>7. ASSUME NEW k \in Keys, CancelRun(k) PROVE ProcessShape'
  BY <1>7 DEF CancelRun, Fault
<1>8. ASSUME NEW k \in Keys, Recover(k) PROVE ProcessShape'
  BY <1>8 DEF Recover
<1>9. ASSUME NEW k \in Keys, PruneEvent(k) PROVE ProcessShape'
  BY <1>9 DEF PruneEvent
<1>10. ASSUME NEW k \in Keys, PruneRun(k) PROVE ProcessShape'
  BY <1>10 DEF PruneRun
<1>11. CASE ToggleRoutine
  BY <1>11 DEF ToggleRoutine, Fault
<1>12. CASE StartRuntime
  BY <1>12 DEF StartRuntime
<1>13. CASE RecoveryEnds
  BY <1>13 DEF RecoveryEnds
<1>14. ASSUME NEW torn \in SUBSET Keys, Crash(torn) PROVE ProcessShape'
  BY <1>14 DEF Crash, Fault
<1>15. ASSUME NEW k \in Keys, WorkerEnds(k) PROVE ProcessShape'
  BY <1>15 DEF WorkerEnds, Finished, Outcome
<1>16. ASSUME NEW k \in Keys, WorkerFails(k) PROVE ProcessShape'
  BY <1>16 DEF WorkerFails, Finished, Retried
<1>17. CASE UNCHANGED vars
  BY <1>17
<1>. QED
  BY <1>1, <1>2, <1>3, <1>4, <1>5, <1>6, <1>7, <1>8, <1>9, <1>10, <1>11, <1>12, <1>13, <1>14, <1>15, <1>16, <1>17
  DEF Next

(* A claim uses an attempt, a crash while one is used gives one more. *)
LEMMA AttemptsLeftStep == IInv /\ [Next]_vars => AttemptsLeft'
<1>. SUFFICES ASSUME IInv, [Next]_vars PROVE AttemptsLeft'
  OBVIOUS
<1>. USE InboxAssumption
     DEF InboxAssumption, IInv, Shape, TerminalEvent, TerminalRun, AttemptsLeft, ProcessShape, Finished, vars, database, process
<1>1. ASSUME NEW k \in Keys, Enqueue(k) PROVE AttemptsLeft'
  BY <1>1 DEF Enqueue
<1>2. ASSUME NEW k \in Keys, Claim(k) PROVE AttemptsLeft'
  BY <1>2 DEF Claim, EngineStarts, Outcome
<1>3. ASSUME NEW k \in Keys, NEW s \in {"completed", "failed", "waiting"}, DriverEnds(k, s) PROVE AttemptsLeft'
  BY <1>3 DEF DriverEnds, Outcome
<1>4. ASSUME NEW k \in Keys, DriverThrows(k) PROVE AttemptsLeft'
  BY <1>4 DEF DriverThrows, Retried
<1>5. ASSUME NEW k \in Keys, Approve(k) PROVE AttemptsLeft'
  BY <1>5 DEF Approve
<1>6. ASSUME NEW k \in Keys, Reject(k) PROVE AttemptsLeft'
  BY <1>6 DEF Reject
<1>7. ASSUME NEW k \in Keys, CancelRun(k) PROVE AttemptsLeft'
  BY <1>7 DEF CancelRun, Fault
<1>8. ASSUME NEW k \in Keys, Recover(k) PROVE AttemptsLeft'
  BY <1>8 DEF Recover
<1>9. ASSUME NEW k \in Keys, PruneEvent(k) PROVE AttemptsLeft'
  BY <1>9 DEF PruneEvent
<1>10. ASSUME NEW k \in Keys, PruneRun(k) PROVE AttemptsLeft'
  BY <1>10 DEF PruneRun
<1>11. CASE ToggleRoutine
  BY <1>11 DEF ToggleRoutine, Fault
<1>12. CASE StartRuntime
  BY <1>12 DEF StartRuntime
<1>13. CASE RecoveryEnds
  BY <1>13 DEF RecoveryEnds
<1>14. ASSUME NEW torn \in SUBSET Keys, Crash(torn) PROVE AttemptsLeft'
  BY <1>14 DEF Crash, Fault
<1>15. ASSUME NEW k \in Keys, WorkerEnds(k) PROVE AttemptsLeft'
  BY <1>15 DEF WorkerEnds, Finished, Outcome
<1>16. ASSUME NEW k \in Keys, WorkerFails(k) PROVE AttemptsLeft'
  BY <1>16 DEF WorkerFails, Finished, Retried
<1>17. CASE UNCHANGED vars
  BY <1>17
<1>. QED
  BY <1>1, <1>2, <1>3, <1>4, <1>5, <1>6, <1>7, <1>8, <1>9, <1>10, <1>11, <1>12, <1>13, <1>14, <1>15, <1>16, <1>17
  DEF Next

(* Whoever lets go of a running run leaves it to somebody, or is on record. *)
LEMMA RunningIsDrivenStep == IInv /\ [Next]_vars => RunningIsDriven'
<1>. SUFFICES ASSUME IInv, [Next]_vars PROVE RunningIsDriven'
  OBVIOUS
<1>. USE InboxAssumption
     DEF InboxAssumption, IInv, Shape, TerminalEvent, TerminalRun, ProcessShape, Finished, RunningIsDriven, vars, database, process
<1>1. ASSUME NEW k \in Keys, Enqueue(k) PROVE RunningIsDriven'
  BY <1>1 DEF Enqueue
<1>2. ASSUME NEW k \in Keys, Claim(k) PROVE RunningIsDriven'
  BY <1>2 DEF Claim, EngineStarts, Outcome
<1>3. ASSUME NEW k \in Keys, NEW s \in {"completed", "failed", "waiting"}, DriverEnds(k, s) PROVE RunningIsDriven'
  BY <1>3 DEF DriverEnds, Outcome
<1>4. ASSUME NEW k \in Keys, DriverThrows(k) PROVE RunningIsDriven'
  BY <1>4 DEF DriverThrows, Retried
<1>5. ASSUME NEW k \in Keys, Approve(k) PROVE RunningIsDriven'
  BY <1>5 DEF Approve
<1>6. ASSUME NEW k \in Keys, Reject(k) PROVE RunningIsDriven'
  BY <1>6 DEF Reject
<1>7. ASSUME NEW k \in Keys, CancelRun(k) PROVE RunningIsDriven'
  BY <1>7 DEF CancelRun, Fault
<1>8. ASSUME NEW k \in Keys, Recover(k) PROVE RunningIsDriven'
  BY <1>8 DEF Recover
<1>9. ASSUME NEW k \in Keys, PruneEvent(k) PROVE RunningIsDriven'
  BY <1>9 DEF PruneEvent
<1>10. ASSUME NEW k \in Keys, PruneRun(k) PROVE RunningIsDriven'
  BY <1>10 DEF PruneRun
<1>11. CASE ToggleRoutine
  BY <1>11 DEF ToggleRoutine, Fault
<1>12. CASE StartRuntime
  BY <1>12 DEF StartRuntime
<1>13. CASE RecoveryEnds
  BY <1>13 DEF RecoveryEnds
<1>14. ASSUME NEW torn \in SUBSET Keys, Crash(torn) PROVE RunningIsDriven'
  BY <1>14 DEF Crash, Fault
<1>15. ASSUME NEW k \in Keys, WorkerEnds(k) PROVE RunningIsDriven'
  BY <1>15 DEF WorkerEnds, Finished, Outcome
<1>16. ASSUME NEW k \in Keys, WorkerFails(k) PROVE RunningIsDriven'
  BY <1>16 DEF WorkerFails, Finished, Retried
<1>17. CASE UNCHANGED vars
  BY <1>17
<1>. QED
  BY <1>1, <1>2, <1>3, <1>4, <1>5, <1>6, <1>7, <1>8, <1>9, <1>10, <1>11, <1>12, <1>13, <1>14, <1>15, <1>16, <1>17
  DEF Next

LEMMA InvStep == IInv /\ [Next]_vars => IInv'
BY ShapeStep, ProcessShapeStep, AttemptsLeftStep, RunningIsDrivenStep DEF IInv

(* The strengthening holds in every reachable state. *)
THEOREM Inductive == Spec => []IInv
BY InitInv, InvStep, PTL DEF Spec

(* The variables keep their types; no event is claimed more often than its  *)
(* attempts and the crashes allow.                                          *)
THEOREM TypeCorrect == Spec => []TypeOK
<1>1. IInv => TypeOK
  BY InboxAssumption DEF InboxAssumption, IInv, Shape, AttemptsLeft, TypeOK
<1>. QED
  BY <1>1, Inductive, PTL

(* A run that says it is running is driven or will be, or is on record as   *)
(* stranded: the claim, the loop's end, its error, recovery and restart     *)
(* never let go of a run otherwise.                                         *)
THEOREM DrivenAlways == Spec => []RunningIsDriven
<1>1. IInv => RunningIsDriven
  BY DEF IInv
<1>. QED
  BY <1>1, Inductive, PTL

(* A status that ends an open event is the ledger's Settle. *)
LEMMA SettleMaps ==
  ASSUME event \in [Keys -> {"none", "pending", "processing"} \cup TerminalEvent],
         NEW k \in Keys, event[k] \in {"pending", "processing"},
         NEW s \in TerminalEvent, event' = [event EXCEPT ![k] = s], steps' = steps,
         started, started' = started
  PROVE  Ledger!Settle(k)
<1>1. EventState(event[k]) = "open"
  BY DEF EventState
<1>2. EventState(s) = "settled"
  BY DEF EventState, TerminalEvent
<1>3. \A j \in Keys : EventState(event'[j]) = IF j = k THEN "settled" ELSE EventState(event[j])
  BY <1>2
<1>. QED
  BY <1>1, <1>3 DEF Ledger!Settle

(* Every step of the runtime is a step of the ledger or none: an event is   *)
(* settled once, and executed once for as long as it is remembered.         *)
LEMMA LedgerStep == IInv /\ [Next]_vars => [Ledger!Next]_(Ledger!vars)
<1>. SUFFICES ASSUME IInv, [Next]_vars PROVE Ledger!Next \/ UNCHANGED Ledger!vars
  OBVIOUS
<1>. USE InboxAssumption
     DEF InboxAssumption, IInv, Shape, TerminalEvent, TerminalRun, ProcessShape, Finished, vars, database, process,
         EventState, Ledger!vars
<1>1. ASSUME NEW k \in Keys, Enqueue(k) PROVE Ledger!Next \/ UNCHANGED Ledger!vars
  <2>1. Ledger!Accept(k)
    BY <1>1 DEF Enqueue, Ledger!Accept
  <2>. QED
    BY <2>1 DEF Ledger!Next
<1>2. ASSUME NEW k \in Keys, Claim(k) PROVE Ledger!Next \/ UNCHANGED Ledger!vars
  <2>1. CASE enabled /\ ~steps[k]
    <3>1. Ledger!Execute(k)
      BY <1>2, <2>1 DEF Claim, EngineStarts, Ledger!Execute
    <3>. QED
      BY <3>1 DEF Ledger!Next
  <2>2. CASE enabled /\ steps[k] /\ run[k] \in {"queued", "running"} /\ k \notin driving
    BY <1>2, <2>2 DEF Claim, EngineStarts
  <2>3. CASE ~enabled \/ (steps[k] /\ (run[k] \notin {"queued", "running"} \/ k \in driving))
    <3>1. /\ event[k] \in {"pending", "processing"} /\ steps' = steps /\ started /\ started' = started
          /\ \E t \in TerminalEvent : event' = [event EXCEPT ![k] = t]
      BY <1>2, <2>3 DEF Claim, EngineStarts, Outcome
    <3>2. Ledger!Settle(k)
      BY <3>1, SettleMaps
    <3>. QED
      BY <3>2 DEF Ledger!Next
  <2>. QED
    BY <2>1, <2>2, <2>3
<1>3. ASSUME NEW k \in Keys, NEW s \in {"completed", "failed", "waiting"}, DriverEnds(k, s)
      PROVE  Ledger!Next \/ UNCHANGED Ledger!vars
  BY <1>3 DEF DriverEnds
<1>4. ASSUME NEW k \in Keys, DriverThrows(k) PROVE Ledger!Next \/ UNCHANGED Ledger!vars
  <2>1. CASE k \in workers /\ ~(attempts[k] < MaxAttempts)
    <3>1. /\ event[k] \in {"pending", "processing"} /\ steps' = steps /\ started /\ started' = started
          /\ \E t \in TerminalEvent : event' = [event EXCEPT ![k] = t]
      BY <1>4, <2>1 DEF DriverThrows, Retried
    <3>2. Ledger!Settle(k)
      BY <3>1, SettleMaps
    <3>. QED
      BY <3>2 DEF Ledger!Next
  <2>2. CASE k \notin workers \/ attempts[k] < MaxAttempts
    BY <1>4, <2>2 DEF DriverThrows, Retried
  <2>. QED
    BY <2>1, <2>2
<1>5. ASSUME NEW k \in Keys, Approve(k) PROVE Ledger!Next \/ UNCHANGED Ledger!vars
  BY <1>5 DEF Approve
<1>6. ASSUME NEW k \in Keys, Reject(k) PROVE Ledger!Next \/ UNCHANGED Ledger!vars
  BY <1>6 DEF Reject
<1>7. ASSUME NEW k \in Keys, CancelRun(k) PROVE Ledger!Next \/ UNCHANGED Ledger!vars
  BY <1>7 DEF CancelRun, Fault
<1>8. ASSUME NEW k \in Keys, Recover(k) PROVE Ledger!Next \/ UNCHANGED Ledger!vars
  BY <1>8 DEF Recover
<1>9. ASSUME NEW k \in Keys, PruneEvent(k) PROVE Ledger!Next \/ UNCHANGED Ledger!vars
  <2>1. Ledger!ForgetEvent(k)
    BY <1>9 DEF PruneEvent, Ledger!ForgetEvent
  <2>. QED
    BY <2>1 DEF Ledger!Next
<1>10. ASSUME NEW k \in Keys, PruneRun(k) PROVE Ledger!Next \/ UNCHANGED Ledger!vars
  <2>1. Ledger!ForgetRun(k)
    BY <1>10 DEF PruneRun, Ledger!ForgetRun
  <2>. QED
    BY <2>1 DEF Ledger!Next
<1>11. CASE ToggleRoutine
  BY <1>11 DEF ToggleRoutine, Fault
<1>12. CASE StartRuntime
  <2>1. Ledger!Serve
    BY <1>12 DEF StartRuntime, Ledger!Serve
  <2>. QED
    BY <2>1 DEF Ledger!Next
<1>13. CASE RecoveryEnds
  BY <1>13 DEF RecoveryEnds
<1>14. ASSUME NEW torn \in SUBSET Keys, Crash(torn) PROVE Ledger!Next \/ UNCHANGED Ledger!vars
  <2>1. CASE started
    <3>1. Ledger!Serve
      BY <1>14, <2>1 DEF Crash, Ledger!Serve
    <3>. QED
      BY <3>1 DEF Ledger!Next
  <2>2. CASE ~started
    BY <1>14, <2>2 DEF Crash
  <2>. QED
    BY <2>1, <2>2
<1>15. ASSUME NEW k \in Keys, WorkerEnds(k) PROVE Ledger!Next \/ UNCHANGED Ledger!vars
  <2>1. /\ event[k] \in {"pending", "processing"} /\ steps' = steps /\ started /\ started' = started
        /\ \E t \in TerminalEvent : event' = [event EXCEPT ![k] = t]
    BY <1>15 DEF WorkerEnds, Finished, Outcome
  <2>2. Ledger!Settle(k)
    BY <2>1, SettleMaps
  <2>. QED
    BY <2>2 DEF Ledger!Next
<1>16. ASSUME NEW k \in Keys, WorkerFails(k) PROVE Ledger!Next \/ UNCHANGED Ledger!vars
  <2>1. CASE attempts[k] < MaxAttempts
    BY <1>16, <2>1 DEF WorkerFails, Finished, Retried
  <2>2. CASE ~(attempts[k] < MaxAttempts)
    <3>1. /\ event[k] \in {"pending", "processing"} /\ steps' = steps /\ started /\ started' = started
          /\ \E t \in TerminalEvent : event' = [event EXCEPT ![k] = t]
      BY <1>16, <2>2 DEF WorkerFails, Finished, Retried
    <3>2. Ledger!Settle(k)
      BY <3>1, SettleMaps
    <3>. QED
      BY <3>2 DEF Ledger!Next
  <2>. QED
    BY <2>1, <2>2
<1>17. CASE UNCHANGED vars
  BY <1>17
<1>. QED
  BY <1>1, <1>2, <1>3, <1>4, <1>5, <1>6, <1>7, <1>8, <1>9, <1>10, <1>11, <1>12, <1>13, <1>14, <1>15, <1>16, <1>17
  DEF Next

(* The inbox implements the safety part of the ledger. *)
THEOREM LedgerSafety == Spec => Ledger!Init /\ [][Ledger!Next]_(Ledger!vars)
<1>1. Init => Ledger!Init
  BY DEF Init, Ledger!Init, EventState
<1>. QED
  BY <1>1, Inductive, LedgerStep, PTL DEF Spec
=============================================================================
