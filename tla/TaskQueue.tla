----------------------------- MODULE TaskQueue -----------------------------
(***************************************************************************)
(* The task queue and the part of the agent daemon that uses it: the rows  *)
(* of the tasks, the FIFO of waiting tasks, the slots, the executors, the  *)
(* retry timers, and the handlers that start, end, retry, cancel, time     *)
(* out, clear, resume and recover tasks.                                   *)
(*                                                                         *)
(* A step is the code between two awaits. The awaits that matter are the   *)
(* start of a task (worktree, collaborative launch) and executor.cancel(). *)
(* The row states planning and executing are one state here. A collected   *)
(* (multi-agent) launch, follow-ups to finished tasks, pauses for the user *)
(* and turn-limit continuations are not modelled.                          *)
(***************************************************************************)
EXTENDS Naturals, Sequences, FiniteSets, SequencesExt

CONSTANTS
  N,            \* the tasks that may be created are 1 to N, in this order
  Parent,       \* the task whose agent creates a task, or NoTask
  Limits,       \* the values of maxConcurrentTasks the user sets (1..20)
  FirstLimit,   \* the one in force at first
  Ceiling,      \* ABSOLUTE_MAX_RUNNING
  MaxRetries,   \* maxTaskRetries
  Flaky,        \* bound of the model: tasks that may meet a transient error
  MaxFaults     \* bound of the model: cancel requests, changes of the limit,
                \* uses of "clear stuck tasks", refused starts and restarts,
                \* all together

Tasks == 1..N
NoTask == 0

ASSUME QueueAssumption ==
  /\ N \in Nat
  /\ Parent \in [Tasks -> Tasks \cup {NoTask}]
  /\ Limits \subseteq Nat \ {0} /\ FirstLimit \in Limits
  /\ Ceiling \in Nat /\ \A n \in Limits : n <= Ceiling
  /\ Flaky \subseteq Tasks
  /\ MaxRetries \in Nat /\ MaxFaults \in Nat

VARIABLES
  (* The tasks table. *)
  row,       \* tasks.status
  (* The queue manager. *)
  queue,     \* queuedTaskIds
  slots,     \* runningTaskIds
  starting,  \* startTask() awaits startTaskImmediate(): for a processQueue() loop, or not
  limit,     \* settings.maxConcurrentTasks
  sweep,     \* the tasks a checkForTimedOutTasks() has not handled yet
  (* The daemon. *)
  bypass,    \* the tasks created without bypassQueue = false
  live,      \* the tasks with an executor at work (activeTasks)
  halting,   \* who awaits executor.cancel() of a task, or "stuck" when that has failed
  retry,     \* pendingRetries
  tries,     \* retryCounts
  doomed,    \* children a cancelTask() still has to cancel
  clearing,  \* whether clearStuckTasks() is in progress, and what it still has to look at
  toResume,  \* interrupted tasks initialize() has put on its list
  (* History and bound. *)
  revived,   \* tasks whose start went on after they had ended
  dropped,   \* tasks clearStuckTasks() has forgotten
  faults

manager == <<queue, slots, starting>>
daemon == <<live, halting, retry, tries, doomed, toResume>>
history == <<revived, dropped>>
vars == <<row, manager, limit, sweep, bypass, daemon, clearing, history, faults>>

Ended == {"completed", "failed", "cancelled"}   \* isTerminalTaskStatus
MaxLimit == CHOOSE n \in Limits : \A m \in Limits : m <= n
Children(t) == {c \in Tasks : Parent[c] = t}
Unended(r) == {t \in Tasks : r[t] \notin Ended \cup {"none"}}
Queued(q) == ToSet(q)
Fault == faults < MaxFaults /\ faults' = faults + 1
NotClearing == [on |-> FALSE, left |-> {}]

-----------------------------------------------------------------------------
(* The queue manager's own operations, over [queue, slots, starting].       *)

Mgr == [queue |-> queue, slots |-> slots, starting |-> starting]
Manager(m) == queue' = m.queue /\ slots' = m.slots /\ starting' = m.starting

Take(m, t, how) ==
  [m EXCEPT !.slots = @ \cup {t}, !.starting[t] = how]

(* Mutant: the task that is started stays at the head of the queue. *)
ProcessQueuePeeks(m, r, max) ==
  LET waits == {i \in DOMAIN m.queue : r[m.queue[i]] = "queued"}
      first == CHOOSE i \in waits : \A j \in waits : i <= j
  IN  IF Cardinality(m.slots) >= max THEN m
      ELSE IF waits = {} THEN [m EXCEPT !.queue = <<>>]
      ELSE Take([m EXCEPT !.queue = SubSeq(@, first, Len(@))], m.queue[first], "loop")

(* One turn of the loop of processQueue(): skip what is not queued any more *)
(* and start the first that is; the rest follows when that start settles.   *)
ProcessQueue(m, r, max) ==
  LET waits == {i \in DOMAIN m.queue : r[m.queue[i]] = "queued"}
      first == CHOOSE i \in waits : \A j \in waits : i <= j
  IN  IF Cardinality(m.slots) >= max THEN m
      ELSE IF waits = {} THEN [m EXCEPT !.queue = <<>>]
      ELSE Take([m EXCEPT !.queue = SubSeq(@, first + 1, Len(@))], m.queue[first], "loop")

(* onTaskFinished() *)
Finish(m, t, r) == ProcessQueue([m EXCEPT !.slots = @ \ {t}], r, limit)

(* Mutant: sub-agents go past the ceiling as well. *)
GoesUncapped(t, b) ==
  Cardinality(slots) < limit \/ (Parent[t] # NoTask /\ t \in b)

(* enqueue(): sub-agents go past the limit, but not past the ceiling. *)
Goes(t, b) ==
  Cardinality(slots) < (IF Parent[t] # NoTask /\ t \in b THEN Ceiling ELSE limit)

Enqueue(t, r, b) ==
  IF Goes(t, b)
    THEN row' = r /\ Manager(Take(Mgr, t, "direct"))
    ELSE /\ row' = [r EXCEPT ![t] = "queued"]
         /\ Manager([Mgr EXCEPT !.queue = Append(@, t)])

Init ==
  /\ row = [t \in Tasks |-> "none"]
  /\ queue = <<>> /\ slots = {} /\ starting = [t \in Tasks |-> "no"]
  /\ limit = FirstLimit /\ sweep = {} /\ bypass = {}
  /\ live = {} /\ halting = [t \in Tasks |-> "no"] /\ retry = {}
  /\ tries = [t \in Tasks |-> 0] /\ doomed = {} /\ clearing = NotClearing /\ toResume = {}
  /\ revived = {} /\ dropped = {} /\ faults = 0

-----------------------------------------------------------------------------
(* Creating and starting.                                                   *)

Created(t) == row[t] = "none" /\ \A u \in Tasks : u < t => row[u] # "none"

(* The row is created and handed to startTask(). *)
Submit(t, b) ==
  /\ Created(t)
  /\ IF Parent[t] = NoTask THEN b ELSE Parent[t] \in live
  /\ bypass' = IF b THEN bypass \cup {t} ELSE bypass
  /\ Enqueue(t, [row EXCEPT ![t] = "pending"], bypass')
  /\ UNCHANGED <<limit, sweep, daemon, clearing, history, faults>>

(* failTask() and cancelTaskRecord() leave an ended task alone and clear    *)
(* its retry otherwise; failTask() gives the slot back as well.             *)
EndRow(t, s) ==
  /\ row' = IF row[t] \in Ended THEN row ELSE [row EXCEPT ![t] = s]
  /\ IF row[t] \in Ended
       THEN UNCHANGED <<retry, tries>>
       ELSE retry' = retry \ {t} /\ tries' = [tries EXCEPT ![t] = 0]

FailTask(m, t) == IF row[t] \in Ended THEN m ELSE Finish(m, t, row')

(* startTask() throws before it has queued the task, which has just been    *)
(* created or was to be retried: the caller fails it, or leaves a new one.  *)
Refused(t) ==
  /\ Fault
  /\ \/ Created(t) /\ (Parent[t] = NoTask \/ Parent[t] \in live)
     \/ t \in retry \ (live \cup slots \cup Queued(queue)) /\ row[t] = "queued"
  /\ \/ EndRow(t, "failed") /\ Manager(FailTask(Mgr, t))
     \/ /\ row[t] = "none"
        /\ row' = [row EXCEPT ![t] = "pending"] /\ UNCHANGED <<manager, retry, tries>>
  /\ UNCHANGED <<limit, sweep, bypass, live, halting, doomed, toResume, clearing, history>>

(* What the processQueue() that awaited a start does when it has settled. *)
Settle(t, m, r) ==
  LET n == [m EXCEPT !.starting[t] = "no"]
  IN  IF starting[t] = "loop" THEN ProcessQueue(n, r, limit) ELSE n

(* startTaskImmediate() registers the executor and writes the row, whatever *)
(* the row has become while it awaited.                                     *)
Launch(t) ==
  /\ starting[t] # "no"
  /\ row' = [row EXCEPT ![t] = "executing"]
  /\ live' = live \cup {t}
  /\ Manager(Settle(t, Mgr, row'))
  /\ revived' = IF row[t] \in Ended \/ t \notin slots THEN revived \cup {t} ELSE revived
  /\ UNCHANGED <<limit, sweep, bypass, halting, retry, tries, doomed, toResume,
                 clearing, dropped, faults>>

(* The start throws, or the worktree or the executor cannot be created. *)
StartFails(t) ==
  /\ starting[t] # "no"
  /\ EndRow(t, "failed")
  /\ LET m == FailTask(Mgr, t)
     IN  Manager(Settle(t, [m EXCEPT !.slots = @ \ {t}], row'))
  /\ UNCHANGED <<limit, sweep, bypass, live, halting, doomed, toResume,
                 clearing, history, faults>>

-----------------------------------------------------------------------------
(* The executor ends.                                                       *)

Leaves(t) == live' = live \ {t} /\ UNCHANGED <<halting, doomed, toResume>>

(* completeTask(); a run that timed out may still deliver what it has. *)
Complete(t) ==
  /\ t \in live /\ halting[t] \in {"no", "timeout"}
  /\ EndRow(t, "completed")
  /\ Manager(FailTask(Mgr, t))
  /\ Leaves(t)
  /\ UNCHANGED <<limit, sweep, bypass, clearing, history, faults>>

(* Mutant: the slot is given back when a run fails, but nobody is started. *)
RunThrowsSilently(t) ==
  /\ t \in live /\ halting[t] = "no"
  /\ EndRow(t, "failed")
  /\ Manager([Mgr EXCEPT !.slots = @ \ {t}])
  /\ Leaves(t)
  /\ UNCHANGED <<limit, sweep, bypass, clearing, history, faults>>

(* The promise of the run is rejected: failTask(). *)
RunThrows(t) ==
  /\ t \in live /\ halting[t] = "no"
  /\ EndRow(t, "failed")
  /\ Manager(FailTask(Mgr, t))
  /\ Leaves(t)
  /\ UNCHANGED <<limit, sweep, bypass, clearing, history, faults>>

(* The run catches its own error: it writes the row through updateTask(),   *)
(* which knows nothing of slots.                                            *)
RunFails(t) ==
  /\ t \in live /\ halting[t] = "no"
  /\ EndRow(t, "failed")
  /\ Leaves(t)
  /\ UNCHANGED <<manager, limit, sweep, bypass, clearing, history, faults>>

(* Mutant: the attempts are not limited. *)
RunFailsTransientlyForEver(t) ==
  /\ t \in live /\ halting[t] = "no"
  /\ t \in Flaky
  /\ row' = [row EXCEPT ![t] = "queued"]
  /\ tries' = [tries EXCEPT ![t] = @ + 1]
  /\ retry' = retry \cup {t}
  /\ Manager(Finish(Mgr, t, row'))
  /\ Leaves(t)
  /\ UNCHANGED <<limit, sweep, bypass, clearing, history, faults>>

(* handleTransientTaskFailure() *)
RunFailsTransiently(t) ==
  /\ t \in live /\ halting[t] = "no"
  /\ t \in Flaky /\ tries[t] < MaxRetries
  /\ row' = [row EXCEPT ![t] = "queued"]
  /\ tries' = [tries EXCEPT ![t] = @ + 1]
  /\ retry' = retry \cup {t}
  /\ Manager(Finish(Mgr, t, row'))
  /\ Leaves(t)
  /\ UNCHANGED <<limit, sweep, bypass, clearing, history, faults>>

(* Mutant: a retry that finds no room is not queued. *)
RetryFiresWithRoom(t) ==
  /\ t \in retry
  /\ retry' = retry \ {t}
  /\ IF t \in live \cup slots \cup Queued(queue) \/ row[t] # "queued" \/ ~Goes(t, bypass)
       THEN UNCHANGED <<row, manager>>
       ELSE Enqueue(t, row, bypass)
  /\ UNCHANGED <<limit, sweep, bypass, live, halting, tries, doomed, toResume,
                 clearing, history, faults>>

RetryFires(t) ==
  /\ t \in retry
  /\ retry' = retry \ {t}
  /\ IF t \in live \cup slots \cup Queued(queue) \/ row[t] # "queued"
       THEN UNCHANGED <<row, manager>>
       ELSE Enqueue(t, row, bypass)
  /\ UNCHANGED <<limit, sweep, bypass, live, halting, tries, doomed, toResume,
                 clearing, history, faults>>

-----------------------------------------------------------------------------
(* cancelTask(), by the user or for a child of a task that was cancelled.   *)

Asked(t) ==
  \/ t \in doomed /\ UNCHANGED faults
  \/ Fault

Cascade(t) == doomed' = (doomed \ {t}) \cup (Children(t) \cap Unended(row'))

(* The task is waiting, or it has neither an executor nor a place in the    *)
(* queue: it is being started, waits for a retry or for its resumption.     *)
Cancel(t) ==
  /\ row[t] \in {"pending", "queued", "executing", "interrupted"} /\ t \notin live
  /\ Asked(t)
  /\ EndRow(t, "cancelled")
  /\ IF t \in Queued(queue)
       THEN Manager([Mgr EXCEPT !.queue = RemoveFirst(@, t)])
       ELSE Manager(Finish(Mgr, t, row'))
  /\ Cascade(t)
  /\ UNCHANGED <<limit, sweep, bypass, live, halting, toResume, clearing,
                 history>>

(* A task that has ended: the slot its executor may still hold is freed. *)
CancelEnded(t) ==
  /\ row[t] \in Ended /\ t \notin live /\ starting[t] = "no"
  /\ Asked(t)
  /\ Manager(Finish(Mgr, t, row))
  /\ doomed' = doomed \ {t}
  /\ UNCHANGED <<row, limit, sweep, bypass, live, halting, retry, tries, toResume,
                 clearing, history>>

CancelLive(t) ==
  /\ t \in live /\ halting[t] \in {"no", "stuck"}
  /\ Asked(t)
  /\ halting' = [halting EXCEPT ![t] = "user"]
  /\ doomed' = doomed \ {t}
  /\ UNCHANGED <<row, manager, limit, sweep, bypass, live, retry, tries, toResume,
                 clearing, history>>

Halted(t, who) ==
  /\ halting[t] = who
  /\ halting' = [halting EXCEPT ![t] = "no"]
  /\ live' = live \ {t}

CancelHalted(t) ==
  /\ Halted(t, "user")
  /\ EndRow(t, "cancelled")
  /\ Manager(Finish(Mgr, t, row'))
  /\ Cascade(t)
  /\ UNCHANGED <<limit, sweep, bypass, toResume, clearing, history, faults>>

-----------------------------------------------------------------------------
(* checkForTimedOutTasks(): the tasks that are too old are handled one      *)
(* after the other, and the queue is processed when all of them are. A      *)
(* sweep can begin while an earlier one waits for a cancellation; what      *)
(* they have to do is kept together. It comes to the same task first, as    *)
(* long as that has a slot.                                                 *)

Sweeping == sweep # {} \/ \E t \in Tasks : halting[t] = "timeout"

TimeOut(s) ==
  /\ sweep = {} \/ \E t \in Tasks : halting[t] = "timeout"
  /\ s # {}
  /\ sweep' = sweep \cup s
  /\ UNCHANGED <<row, manager, limit, bypass, daemon, clearing, history, faults>>

SweepLive(t) ==
  /\ t \in sweep /\ \A u \in slots \cap live : halting[u] # "timeout"
  /\ t \in live /\ halting[t] \in {"no", "stuck"}
  /\ sweep' = sweep \ {t}
  /\ halting' = [halting EXCEPT ![t] = "timeout"]
  /\ UNCHANGED <<row, manager, limit, bypass, live, retry, tries, doomed, toResume,
                 clearing, history, faults>>

(* Mutant: only the slot is removed at the end. *)
SweepEndsQuietly(t) ==
  /\ EndRow(t, "failed")
  /\ LET m == FailTask(Mgr, t)
     IN  Manager([m EXCEPT !.slots = @ \ {t}])
  /\ UNCHANGED <<limit, bypass, doomed, toResume, clearing, history, faults>>

(* handleTaskTimeout() fails the task; its slot is removed once more. With  *)
(* nothing left the sweep is over, and it may be when another goes on.      *)
SweepEnds(t) ==
  /\ EndRow(t, "failed")
  /\ LET m == FailTask(Mgr, t)
         n == [m EXCEPT !.slots = @ \ {t}]
     IN  \/ Manager(ProcessQueue(n, row', limit))
         \/ sweep' # {} /\ Manager(n)
  /\ UNCHANGED <<limit, bypass, doomed, toResume, clearing, history, faults>>

SweepIdle(t) ==
  /\ t \in sweep /\ t \notin live
  /\ sweep' = sweep \ {t}
  /\ SweepEnds(t)
  /\ UNCHANGED <<live, halting>>

SweepHalted(t) ==
  /\ Halted(t, "timeout")
  /\ UNCHANGED sweep
  /\ SweepEnds(t)

-----------------------------------------------------------------------------
(* The settings, and clearStuckTasks().                                     *)

SaveSettings(n) ==
  /\ Fault
  /\ limit' = n
  /\ Manager(ProcessQueue(Mgr, row, n))
  /\ UNCHANGED <<row, sweep, bypass, daemon, clearing, history>>

Clear ==
  /\ ~clearing.on /\ slots \cap live # {} /\ Fault
  /\ clearing' = [on |-> TRUE, left |-> slots]
  /\ UNCHANGED <<row, manager, limit, sweep, bypass, daemon, history>>

(* The executors of the tasks that had a slot are cancelled one by one. *)
ClearTakes(t) ==
  /\ t \in clearing.left \cap live /\ halting[t] \in {"no", "stuck"}
  /\ \A u \in Tasks : halting[u] # "clear"
  /\ clearing' = [clearing EXCEPT !.left = @ \ {t}]
  /\ halting' = [halting EXCEPT ![t] = "clear"]
  /\ UNCHANGED <<row, manager, limit, sweep, bypass, live, retry, tries, doomed,
                 toResume, history, faults>>

(* An executor that fails to cancel stays in activeTasks; its run is over.  *)
ClearHalted(t, ok) ==
  /\ halting[t] = "clear"
  /\ halting' = [halting EXCEPT ![t] = IF ok THEN "no" ELSE "stuck"]
  /\ live' = IF ok THEN live \ {t} ELSE live
  /\ dropped' = dropped \cup {t}
  /\ UNCHANGED <<row, manager, limit, sweep, bypass, retry, tries, doomed, toResume,
                 clearing, revived, faults>>

(* The rows stay as they are. *)
ClearEnds ==
  /\ IF clearing.on
       THEN clearing.left \cap live = {} /\ (\A t \in Tasks : halting[t] # "clear") /\ UNCHANGED faults
       ELSE slots \cap live = {} /\ Fault
  /\ clearing' = NotClearing
  /\ queue' = <<>> /\ slots' = {}
  /\ dropped' = dropped \cup Queued(queue) \cup slots
  /\ UNCHANGED <<row, starting, limit, sweep, bypass, daemon, revived>>

-----------------------------------------------------------------------------
(* The application ends, gracefully or not, and initialize() recovers: what *)
(* had saved something is interrupted and will be resumed unless it belongs *)
(* to another task, what had not has failed, and what was queued is queued  *)
(* again in the order of creation, except for retries that are not due.     *)
(* A task that was still pending is not looked for.                         *)

Recovered(saved) ==
  [t \in Tasks |->
     CASE row[t] = "executing" /\ t \notin saved -> "failed"
       [] row[t] \in {"executing", "interrupted"} ->
            IF Parent[t] = NoTask THEN "interrupted" ELSE "cancelled"
       [] OTHER -> row[t]]

(* The order of creation. *)
InOrder(S) ==
  CHOOSE q \in [1..Cardinality(S) -> S] : \A i, j \in DOMAIN q : i < j => q[i] < q[j]

Executing == {t \in Tasks : row[t] = "executing"}

Restart(saved, due) ==
  /\ Fault
  /\ row' = Recovered(saved)
  /\ retry' = {t \in retry \ due : row[t] = "queued"}
  /\ tries' = [t \in Tasks |-> IF t \in retry THEN tries[t] ELSE 0]
  /\ Manager(ProcessQueue([queue |-> InOrder({t \in Tasks \ retry' : row'[t] = "queued"}),
                           slots |-> {}, starting |-> [t \in Tasks |-> "no"]],
                          row', limit))
  /\ toResume' = {t \in Tasks : row'[t] = "interrupted"}
  /\ live' = {} /\ halting' = [t \in Tasks |-> "no"] /\ doomed' = {} /\ sweep' = {}
  /\ clearing' = NotClearing
  /\ revived' = {} /\ dropped' = {}
  /\ UNCHANGED <<limit, bypass>>

(* resumeInterruptedTask(): with nothing to restore the task starts again;  *)
(* without room it goes to the front of the queue.                          *)
Resume(t) ==
  /\ t \in toResume
  /\ toResume' = toResume \ {t}
  /\ \/ /\ row[t] # "interrupted"
        /\ UNCHANGED <<row, manager, live>>
     \/ /\ row[t] = "interrupted"
        /\ Enqueue(t, [row EXCEPT ![t] = "queued"], bypass)
        /\ UNCHANGED <<live>>
     \/ /\ row[t] = "interrupted" /\ Cardinality(slots) < limit
        /\ row' = [row EXCEPT ![t] = "executing"]
        /\ slots' = slots \cup {t} /\ live' = live \cup {t}
        /\ UNCHANGED <<queue, starting>>
     \/ /\ row[t] = "interrupted" /\ Cardinality(slots) >= limit
        /\ row' = [row EXCEPT ![t] = "queued"]
        /\ queue' = <<t>> \o queue
        /\ UNCHANGED <<slots, starting, live>>
  /\ UNCHANGED <<limit, sweep, bypass, halting, retry, tries, doomed, clearing,
                 history, faults>>

-----------------------------------------------------------------------------
Step(t) ==
  \/ Submit(t, TRUE) \/ Submit(t, FALSE) \/ Refused(t)
  \/ Launch(t) \/ StartFails(t)
  \/ Complete(t) \/ RunThrows(t) \/ RunFails(t) \/ RunFailsTransiently(t) \/ RetryFires(t)
  \/ Cancel(t) \/ CancelEnded(t) \/ CancelLive(t) \/ CancelHalted(t)
  \/ SweepLive(t) \/ SweepIdle(t) \/ SweepHalted(t)
  \/ ClearTakes(t) \/ ClearHalted(t, TRUE) \/ ClearHalted(t, FALSE) \/ Resume(t)

Next ==
  \/ \E t \in Tasks : Step(t)
  \/ \E s \in SUBSET slots : TimeOut(s)
  \/ \E n \in Limits : SaveSettings(n)
  \/ Clear \/ ClearEnds
  \/ \E saved \in SUBSET Executing, due \in SUBSET retry : Restart(saved, due)

Spec == Init /\ [][Next]_vars

(* What is due for a task: its start and its cancellations settle, timers   *)
(* fire, and its agent ends unless it waits for its sub-agents.             *)
GoesOn(t) ==
  \/ Launch(t) \/ StartFails(t) \/ RetryFires(t) \/ Resume(t)
  \/ CancelHalted(t) \/ SweepHalted(t) \/ SweepLive(t) \/ SweepIdle(t)
  \/ ClearTakes(t) \/ ClearHalted(t, TRUE) \/ ClearHalted(t, FALSE)
  \/ t \in doomed /\ (Cancel(t) \/ CancelEnded(t) \/ CancelLive(t))
  \/ Children(t) \cap Unended(row) = {} /\ (Complete(t) \/ RunThrows(t) \/ RunFails(t))

(* No task waits for ever for what is due, and one that stays in its slot   *)
(* is timed out. That the user starts, cancels or clears is never owed.     *)
Fairness ==
  /\ WF_vars(clearing.on /\ ClearEnds)
  /\ \A t \in Tasks : WF_vars(GoesOn(t)) /\ SF_vars(\E s \in SUBSET slots : t \in s /\ TimeOut(s))

FairSpec == Spec /\ Fairness

-----------------------------------------------------------------------------
(* Properties.                                                             *)

TypeOK ==
  /\ row \in [Tasks -> {"none", "pending", "queued", "executing", "interrupted"} \cup Ended]
  /\ queue \in Seq(Tasks)
  /\ slots \subseteq Tasks /\ starting \in [Tasks -> {"no", "direct", "loop"}]
  /\ limit \in Limits
  /\ \A s \in {sweep, bypass, live, retry, doomed, toResume, revived, dropped} : s \subseteq Tasks
  /\ halting \in [Tasks -> {"no", "user", "timeout", "clear", "stuck"}]
  /\ tries \in [Tasks -> 0..MaxRetries]
  /\ clearing \in [on : BOOLEAN, left : SUBSET Tasks]
  /\ faults \in 0..MaxFaults

(* A task has one owner: what waits in the queue waits there once, has no   *)
(* slot, no executor and no start under way.                                *)
OneOwner ==
  /\ IsInjective(queue)
  /\ \A t \in Queued(queue) : t \notin slots \cup live /\ starting[t] = "no"
  /\ \A t \in live : starting[t] = "no"

(* The rows agree with who works. A row that says "queued" is on its way to *)
(* an executor: it is in the queue, being started, or a retry timer will    *)
(* bring it back. An executor at work holds a slot, so the limits count it, *)
(* unless its task had ended or lost its slot while it was being started.   *)
(* Both but for what the user cleared away.                                 *)
RowsAgree ==
  \A t \in Tasks \ dropped :
    /\ row[t] = "queued" => t \in Queued(queue) \cup retry \/ starting[t] # "no"
    /\ t \in live => t \in slots \cup revived

(* No slot stays free while a task waits for one, unless a start or a sweep *)
(* is under way that will look at the queue when it is over.                *)
NoIdleSlot ==
  Cardinality(slots) < limit /\ (\E t \in Queued(queue) : row[t] = "queued")
    => Sweeping \/ \E t \in Tasks : starting[t] = "loop"

(* The limit holds for what does not bypass it, and the ceiling for all. *)
WithinCeiling ==
  /\ Cardinality(slots) <= Ceiling
  /\ Cardinality({t \in slots : Parent[t] = NoTask \/ t \notin bypass}) <= MaxLimit

(* queue-manager.ts, onTaskFinished(): "Called when a task finishes         *)
(* (completed, failed, or cancelled)": an ended task has no slot, unless    *)
(* its start or its cancellation has not settled yet.                       *)
FinishedFreesSlot ==
  \A t \in slots : row[t] \in Ended => starting[t] # "no" \/ t \in live

(* Every submitted task ends: again and again all that there are have       *)
(* ended, but those whose first start was refused and nobody told, those    *)
(* that were being started for the first time when the application died,    *)
(* those the user cleared away, and those that wait for such a sub-task.    *)
Lost(t) ==
  \E c \in {t} \cup Children(t) :
    c \in dropped \/ (row[c] = "pending" /\ starting[c] = "no")
TasksEnd == []<>(\A t \in Tasks : row[t] \in Ended \cup {"none"} \/ Lost(t))
=============================================================================
