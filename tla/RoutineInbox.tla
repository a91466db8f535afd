---------------------------- MODULE RoutineInbox ----------------------------
(***************************************************************************)
(* The workflow runtime of the routine service: the durable inbox of       *)
(* events, the workers that claim them, the runs they start, the recovery  *)
(* of the runs an earlier process left behind, and the clean-up of old     *)
(* rows. The inside of a run is RoutineWorkflowEngine; here it is its row, *)
(* whether its steps exist, and whether the engine is driving it.          *)
(*                                                                         *)
(* A key is an idempotency key of one routine. Timestamps are left out: a  *)
(* retry may be due and a row may be old at any moment.                    *)
(***************************************************************************)
EXTENDS Naturals, FiniteSets

CONSTANTS
  Keys,
  MaxWorkers,   \* the bound of workflowInboxActive (4)
  MaxAttempts,  \* the bound of attemptCount (5)
  MaxFaults     \* bound of the model: crashes, and changes the user makes

ASSUME InboxAssumption ==
  MaxWorkers \in Nat \ {0} /\ MaxAttempts \in Nat \ {0} /\ MaxFaults \in Nat

VARIABLES
  (* The database. *)
  enabled,    \* the routine is there, enabled, and has an active version
  event,      \* routine_event_inbox.status, or none without a row
  attempts,   \* attempt_count
  run,        \* routine_workflow_runs.status, or none without a row
  steps,      \* the run has rows in routine_run_steps
  (* The process. *)
  started,    \* startWorkflowRuntime() has been called
  ready,      \* workflowRecoveryReady
  recover,    \* the runs recoverWorkflowRuns() still has to end, or is waiting for
  driving,    \* the runs in the engine's continueRun() loop
  workers,    \* the events whose worker awaits its own run, or its end settled
  (* History and bound. *)
  stranded,   \* runs whose loop threw and that nobody will try again
  faults

database == <<enabled, event, attempts, run, steps>>
process == <<started, ready, recover, driving, workers>>
vars == <<database, process, stranded, faults>>

TerminalEvent == {"completed", "failed", "cancelled"}
TerminalRun == {"completed", "failed", "cancelled"}   \* and partial_success, as completed

Fault == faults < MaxFaults /\ faults' = faults + 1

Init ==
  /\ enabled = TRUE
  /\ event = [k \in Keys |-> "none"] /\ attempts = [k \in Keys |-> 0]
  /\ run = [k \in Keys |-> "none"] /\ steps = [k \in Keys |-> FALSE]
  /\ started = FALSE /\ ready = FALSE /\ recover = {} /\ driving = {} /\ workers = {}
  /\ stranded = {} /\ faults = 0

-----------------------------------------------------------------------------
(* Events come in; the same key again changes nothing.                      *)

Enqueue(k) ==
  /\ enabled
  /\ event[k] = "none"
  /\ event' = [event EXCEPT ![k] = "pending"]
  /\ UNCHANGED <<enabled, attempts, run, steps, process, stranded, faults>>

(* The status an event gets when startDeterministicWorkflow() returns. *)
Outcome(status) == IF status = "failed" THEN "failed" ELSE "completed"

(* engine.start(): a new run gets its steps and is driven, a run that was   *)
(* left is driven on, and a run that is over, waiting or being driven is    *)
(* returned as it is.                                                       *)
EngineStarts(k) ==
  \/ /\ ~steps[k]
     /\ run' = [run EXCEPT ![k] = "running"] /\ steps' = [steps EXCEPT ![k] = TRUE]
     /\ driving' = driving \cup {k} /\ workers' = workers \cup {k}
     /\ event' = [event EXCEPT ![k] = "processing"]
  \/ /\ steps[k] /\ run[k] \in {"queued", "running"} /\ k \notin driving
     /\ driving' = driving \cup {k} /\ workers' = workers \cup {k}
     /\ event' = [event EXCEPT ![k] = "processing"]
     /\ UNCHANGED <<run, steps>>
  \/ /\ steps[k] /\ (run[k] \notin {"queued", "running"} \/ k \in driving)
     /\ event' = [event EXCEPT ![k] = Outcome(run[k])]
     /\ UNCHANGED <<run, steps, driving, workers>>

(* claimNextEvent() and the synchronous part of processWorkflowEvent(). *)
Claim(k) ==
  /\ started /\ ready /\ Cardinality(workers) < MaxWorkers
  /\ event[k] = "pending"
  /\ attempts' = [attempts EXCEPT ![k] = @ + 1]
  /\ IF enabled THEN EngineStarts(k) /\ UNCHANGED stranded
     ELSE /\ event' = [event EXCEPT ![k] = "cancelled"]
          /\ stranded' = IF run[k] = "running" /\ k \notin driving THEN stranded \cup {k} ELSE stranded
          /\ UNCHANGED <<run, steps, driving, workers>>
  /\ UNCHANGED <<enabled, started, ready, recover, faults>>

-----------------------------------------------------------------------------
(* The engine's loop of a run ends.                                         *)

(* A cancelled run stays cancelled. Its event is settled by a write of its  *)
(* own: no request of the user comes in between, but the process may die.   *)
DriverEnds(k, s) ==
  /\ k \in driving
  /\ run' = IF run[k] = "cancelled" THEN run ELSE [run EXCEPT ![k] = s]
  /\ driving' = driving \ {k} /\ recover' = recover \ {k}
  /\ UNCHANGED <<enabled, event, attempts, steps, started, ready, workers, stranded, faults>>

Finished(k) == k \in workers \ driving

WorkerEnds(k) ==
  /\ Finished(k)
  /\ workers' = workers \ {k}
  /\ event' = [event EXCEPT ![k] = Outcome(run[k])]
  /\ UNCHANGED <<enabled, attempts, run, steps, started, ready, recover, driving, stranded, faults>>

(* An event that is not settled is tried again up to a limit. *)
Retried(k) == [event EXCEPT ![k] = IF attempts[k] < MaxAttempts THEN "pending" ELSE "failed"]

(* The routine's own record of the run cannot be written. *)
WorkerFails(k) ==
  /\ Finished(k)
  /\ workers' = workers \ {k}
  /\ event' = Retried(k)
  /\ UNCHANGED <<enabled, attempts, run, steps, started, ready, recover, driving, stranded, faults>>

(* Mutant: an attempt more is always left. *)
DriverThrowsForEver(k) ==
  /\ k \in driving
  /\ driving' = driving \ {k} /\ workers' = workers \ {k} /\ recover' = recover \ {k}
  /\ event' = IF k \in workers THEN [event EXCEPT ![k] = "pending"] ELSE event
  /\ run' = IF k \in recover THEN [run EXCEPT ![k] = "failed"] ELSE run
  /\ stranded' = IF k \in workers \cup recover THEN stranded ELSE stranded \cup {k}
  /\ UNCHANGED <<enabled, attempts, steps, started, ready, faults>>

(* Mutant: recoverWorkflowRuns() swallows the error. *)
DriverThrowsQuietly(k) ==
  /\ k \in driving
  /\ driving' = driving \ {k} /\ workers' = workers \ {k} /\ recover' = recover \ {k}
  /\ event' = IF k \in workers THEN Retried(k) ELSE event
  /\ stranded' = IF k \in recover \/ (k \in workers /\ attempts[k] < MaxAttempts)
                   THEN stranded ELSE stranded \cup {k}
  /\ UNCHANGED <<enabled, attempts, run, steps, started, ready, faults>>

(* It throws: a worker's event is tried again up to a limit, recovery fails *)
(* the run, and after an approval nobody does anything.                     *)
DriverThrows(k) ==
  /\ k \in driving
  /\ driving' = driving \ {k} /\ workers' = workers \ {k} /\ recover' = recover \ {k}
  /\ event' = IF k \in workers THEN Retried(k) ELSE event
  /\ run' = IF k \in recover THEN [run EXCEPT ![k] = "failed"] ELSE run
  /\ stranded' = IF k \in recover \/ (k \in workers /\ attempts[k] < MaxAttempts)
                   THEN stranded ELSE stranded \cup {k}
  /\ UNCHANGED <<enabled, attempts, steps, started, ready, faults>>

-----------------------------------------------------------------------------
(* The user, whose requests the host takes when the runtime has started.    *)

Approve(k) ==
  /\ started /\ run[k] = "waiting" /\ k \notin driving \cup workers
  /\ run' = [run EXCEPT ![k] = "running"]
  /\ driving' = driving \cup {k}
  /\ UNCHANGED <<enabled, event, attempts, steps, started, ready, recover, workers, stranded, faults>>

Reject(k) ==
  /\ run[k] = "waiting" /\ k \notin workers
  /\ run' = [run EXCEPT ![k] = "failed"]
  /\ UNCHANGED <<enabled, event, attempts, steps, process, stranded, faults>>

CancelRun(k) ==
  /\ run[k] \in {"queued", "running", "waiting"} /\ Fault
  /\ run' = [run EXCEPT ![k] = "cancelled"]
  /\ UNCHANGED <<enabled, event, attempts, steps, process, stranded>>

ToggleRoutine ==
  /\ Fault
  /\ enabled' = ~enabled
  /\ UNCHANGED <<event, attempts, run, steps, process, stranded>>

-----------------------------------------------------------------------------
(* The process dies, perhaps while an event is being claimed and its run    *)
(* has a row and no steps, and the runtime starts again.                    *)

Crash(torn) ==
  /\ Fault
  /\ torn \subseteq {k \in Keys : event[k] = "pending" /\ started /\ ready /\ enabled}
  /\ Cardinality(torn) <= 1
  /\ event' = [k \in Keys |-> IF k \in torn THEN "processing" ELSE event[k]]
  /\ attempts' = [k \in Keys |-> IF k \in torn THEN attempts[k] + 1 ELSE attempts[k]]
  /\ run' = [k \in Keys |-> IF k \in torn /\ run[k] = "none" THEN "queued" ELSE run[k]]
  /\ started' = FALSE /\ ready' = FALSE /\ recover' = {} /\ driving' = {} /\ workers' = {}
  /\ stranded' = {}
  /\ UNCHANGED <<enabled, steps>>

(* Mutant: the events that have failed are put back as well. *)
StartRuntimeWithFailed ==
  /\ ~started
  /\ started' = TRUE
  /\ event' = [k \in Keys |-> IF event[k] \in {"processing", "failed"} THEN "pending" ELSE event[k]]
  /\ recover' = {k \in Keys : run[k] \in {"queued", "running"}}
  /\ UNCHANGED <<enabled, attempts, run, steps, ready, driving, workers, stranded, faults>>

(* startWorkflowRuntime(): requeueProcessingEvents(), listRecoverableRuns() *)
(* Nothing in the repository calls it: the step is possible, never owed.    *)
StartRuntime ==
  /\ ~started
  /\ started' = TRUE
  /\ event' = [k \in Keys |-> IF event[k] = "processing" THEN "pending" ELSE event[k]]
  /\ recover' = {k \in Keys : run[k] \in {"queued", "running"}}
  /\ UNCHANGED <<enabled, attempts, run, steps, ready, driving, workers, stranded, faults>>

(* One run after the other. Without steps there is nothing to do and the    *)
(* run is complete; without its routine it fails; interrupted steps wait    *)
(* for the user; otherwise the run is driven on. A run that has been        *)
(* cancelled meanwhile is left.                                             *)
Recover(k) ==
  /\ started /\ k \in recover /\ recover \cap driving = {}
  /\ \/ /\ run[k] = "cancelled" \/ (run[k] = "queued" /\ ~steps[k])
        /\ recover' = recover \ {k}
        /\ run' = IF run[k] = "queued" THEN [run EXCEPT ![k] = "completed"] ELSE run
        /\ UNCHANGED driving
     \/ /\ ~enabled
        /\ recover' = recover \ {k}
        /\ run' = [run EXCEPT ![k] = "failed"]
        /\ UNCHANGED driving
     \/ /\ run[k] \in {"queued", "running"} /\ steps[k]
        /\ recover' = recover \ {k}
        /\ run' = [run EXCEPT ![k] = "waiting"]
        /\ UNCHANGED driving
     \/ /\ run[k] \in {"queued", "running"} /\ steps[k]
        /\ driving' = driving \cup {k}
        /\ UNCHANGED <<run, recover>>
  /\ UNCHANGED <<enabled, event, attempts, steps, started, ready, workers, stranded, faults>>

RecoveryEnds ==
  /\ started /\ ~ready /\ recover = {}
  /\ ready' = TRUE
  /\ UNCHANGED <<database, started, recover, driving, workers, stranded, faults>>

(* pruneExpiredData() *)
PruneEvent(k) ==
  /\ event[k] \in TerminalEvent
  /\ event' = [event EXCEPT ![k] = "none"] /\ attempts' = [attempts EXCEPT ![k] = 0]
  /\ UNCHANGED <<enabled, run, steps, process, stranded, faults>>

PruneRun(k) ==
  /\ run[k] \in TerminalRun /\ steps[k]
  /\ steps' = [steps EXCEPT ![k] = FALSE]
  /\ UNCHANGED <<enabled, event, attempts, run, process, stranded, faults>>

-----------------------------------------------------------------------------
Next ==
  \/ \E k \in Keys :
       \/ Enqueue(k) \/ Claim(k)
       \/ \E s \in {"completed", "failed", "waiting"} : DriverEnds(k, s)
       \/ DriverThrows(k) \/ WorkerEnds(k) \/ WorkerFails(k)
       \/ Approve(k) \/ Reject(k) \/ CancelRun(k)
       \/ Recover(k) \/ PruneEvent(k) \/ PruneRun(k)
  \/ ToggleRoutine \/ StartRuntime \/ RecoveryEnds
  \/ \E torn \in SUBSET Keys : Crash(torn)

Spec == Init /\ [][Next]_vars

(* Of a runtime that has been started: a run ends or comes to wait, and the *)
(* oldest event is claimed first, so that none is passed over for ever.     *)
Fairness ==
  /\ WF_vars(RecoveryEnds)
  /\ \A k \in Keys :
       /\ SF_vars(Claim(k)) /\ WF_vars(Recover(k)) /\ WF_vars(WorkerEnds(k) \/ WorkerFails(k))
       /\ WF_vars(DriverThrows(k) \/ \E s \in {"completed", "failed", "waiting"} : DriverEnds(k, s))

FairSpec == Spec /\ Fairness

-----------------------------------------------------------------------------
(* Properties.                                                              *)

TypeOK ==
  /\ enabled \in BOOLEAN
  /\ event \in [Keys -> {"none", "pending", "processing"} \cup TerminalEvent]
  /\ attempts \in [Keys -> 0..(MaxAttempts + MaxFaults)]
  /\ run \in [Keys -> {"none", "queued", "running", "waiting"} \cup TerminalRun]
  /\ steps \in [Keys -> BOOLEAN]
  /\ started \in BOOLEAN /\ ready \in BOOLEAN
  /\ recover \subseteq Keys /\ driving \subseteq Keys /\ workers \subseteq Keys
  /\ stranded \subseteq Keys
  /\ faults \in 0..MaxFaults

(* A run that says it is running is being driven, or will be: by recovery,  *)
(* or by the next attempt of its event. The exception is a run whose loop   *)
(* threw with nobody left to try again, or with the routine disabled since. *)
RunningIsDriven ==
  \A k \in Keys : started /\ run[k] = "running" =>
    k \in driving \cup recover \cup stranded \/ event[k] = "pending"

(* The inbox is the durable, deduplicated ledger it is meant to be; that an *)
(* event is settled is owed only by a process that has started the runtime. *)
EventState(s) ==
  CASE s = "none" -> "unknown"
    [] s \in {"pending", "processing"} -> "open"
    [] OTHER -> "settled"

Ledger == INSTANCE EventLedger WITH
  state <- [k \in Keys |-> EventState(event[k])],
  executed <- steps,
  serving <- started

LedgerSpec == Ledger!Spec
=============================================================================
