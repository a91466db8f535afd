# Formal models of the NeoWorker runtime

TLA+ models of the parts of NeoWorker that keep state across failures, the TLC
configurations that check them on small instances, and TLAPS proofs of their
main safety properties. Source paths below are relative to `src/src/electron/`.

To run a configuration: `tlc -config RoutineWorkflow_crash.cfg MCRoutineWorkflow.tla`;
a configuration `X_....cfg` belongs to `MCX.tla`.
To check the proofs: `tlapm X_proofs.tla` for each of the seven modules of that name.

## The system

NeoWorker is an Electron application. One main process owns a SQLite database
(better-sqlite3: every statement is synchronous) and runs agents, automations
and servers as asynchronous JavaScript on one thread. Two facts shape every
model here:

* between two `await`s nothing else runs, so races are between handlers at
  their awaits, and what is read before an await may be stale after it;
* the process can die between any two database writes that are not in one
  transaction, and the next boot finds what was written.

### Inventory

| Component | State | Operations | Hard behaviour | Properties that make it correct |
| --- | --- | --- | --- | --- |
| Workflow engine (`routines/workflow/engine.ts`) | run row, step rows, `running` set, abort controllers | start, continueRun, executeNode, respondToApproval, cancel, recoverInterruptedRun | crash between writes, stale context write, cancel at an await, retries, repeated delivery | approvals cover every external write, dependencies, budget, no orphaned run |
| Workflow run store (`routines/workflow/repository.ts`) | runs, steps, event inbox, versions | createRun (idempotent), updateRun, updateStep, enqueueEvent, claimNextEvent, pruneExpiredData | crash between two calls, redelivery after pruning | one run for a key, no event lost |
| Routine service, workflow runtime (`routines/service.ts`) | inbox timer, recovery flag, worker count | startWorkflowRuntime, processWorkflowInbox, processWorkflowEvent, recoverWorkflowRuns, runWebhookWorkflow | recovery against inbox and webhooks, retry with delay | every event handled, recovery before the inbox |
| Delegation graph (`agent/orchestration/`) | run, node and edge rows, run locks | createRun, appendNodes, tickRun, waitForHandle, cancelHandle | ticks that overlap, polling against cancelling, crash while dispatching, silent remote agents | limit, single dispatch, order, verdict, termination |
| Remote agent invoker (`acp/remote-invoker.ts`) | none | invoke (send, then create), pollStatus, cancel | time-out after delivery | see the graph |
| Workflow pipeline (`agent/executor.ts`, 33446-33589) | phases, handles | create the graph, wait for each phase | stale handles, time-out of 300 s | phases in order, pipeline instead of guidance |
| Task queue (`agent/queue-manager.ts`) | queue, running set, start times, limit | enqueue, processQueue, onTaskFinished, cancelQueuedTask, registerResumedTask, timeout sweep, saveSettings, clearStuckTasks, initialize | start failures, sweep against finish, sub-agent bypass, restart | limits, one owner of a task, no task stuck while a slot is free |
| Tool scheduler (`agent/runtime/ToolScheduler.ts`) | batches, cursor, read cache | executeBatch | parallel reads, shared reads that fail, cancellation | a read sees the writes before it, the bound, nothing after a cancellation |
| Cron (`cron/service.ts`, `schedule.ts`, `store.ts`) | jobs in memory and in a file, running jobs, outbox | start, stop, add, update, remove, run, executeJob, onTimer, deliver, retry | crash while a job runs, timer against user, delivery retries | no scheduled time twice, no delivery twice, nothing due or queued for ever |
| Agent daemon: tasks (`agent/daemon.ts`) | task rows, executors, retry timers | start, complete, fail, retry, cancel, time out, clear, restart, resume | handlers across the awaits of a start or a cancellation, restart | rows agree with who works, every task ends |
| Agent daemon: approvals (`agent/daemon.ts`, `runtime/SessionRuntime.ts`) | approval rows, promises and timers, remembered answers, grants, snapshot | request, respond, recover an answer, time out, clean up, shut down | timer against answer, answers after a restart, grants restored from a snapshot | an answer is final and lets one operation through, no task blocked for ever |
| Executor, turn kernel, permission engine | a conversation | the agent loop | model calls | out of reach as a whole |
| Teams, heartbeat, triggers, mailbox, memory, MCP, gateway, hooks, tunnels, managed sessions, control plane | various | various | mostly I/O | not modelled |
| Concurrency helpers (`security/concurrency.ts`), computer use sessions | locks, keys, a session | acquire, release | release after failure | small, not modelled |
| Renderer, CLI, mobile, connectors, skills, native helpers | | | | user interface, assets, separate programs |

Calls between them: a trigger, a webhook or the inbox calls `start` of the
workflow engine; an action of a workflow may create a daemon task. The executor
of a task creates graph runs (spawned agents, pipeline, teams, ACP); the graph
creates child tasks through the daemon, which puts them in the task queue; the
graph learns the end of a task by polling the task row. A cron job creates a
task and polls it, or starts a workflow. Each reply of a model in a task goes
through the tool scheduler, and a tool that needs it asks the daemon for an
approval.

## Modules

| Module | Models |
| --- | --- |
| `RoutineWorkflowEngine` | one run of a workflow: engine, its rows, user, recovery |
| `MCRoutineWorkflow` | two workflows for TLC: a branching one and a chain |
| `RoutineWorkflowEngine_proofs` | proofs for every workflow |
| `TaskGraph` | abstract: what the delegation graph promises |
| `OrchestrationGraph` | one run of the delegation graph: rows, ticks, work, cancellations, crash; implements `TaskGraph` |
| `MCOrchestrationGraph` | a join of a local and a remote node, and a late node behind it |
| `OrchestrationGraph_proofs` | proofs for every graph |
| `PhasePipeline` | the executor's pipeline, composed with `OrchestrationGraph` (it extends it) |
| `MCPhasePipeline` | three phases |
| `EventLedger` | abstract: what the inbox of workflow events promises |
| `RoutineInbox` | the workflow runtime of the routine service: inbox, workers, recovery, clean-up; implements `EventLedger` |
| `TaskQueue` | the task queue with the life of tasks in the daemon |
| `CronService` | the cron service with its store and outbox |
| `ToolScheduler` | one batch of tool calls |
| `Approvals` | the approvals of one task, through restarts |
| `MCRoutineInbox`, `MCTaskQueue`, `MCCronService`, `MCToolScheduler`, `MCApprovals` | their instances for TLC |
| `RoutineInbox_proofs`, `TaskQueue_proofs`, `CronService_proofs`, `ToolScheduler_proofs`, `Approvals_proofs` | proofs for every instance |

### RoutineWorkflowEngine

The run row is `runStatus`, `startedAt`, `approved` and `opCount` (the two
fields of the stored context that control depends on); a step row is
`stepStatus`, `attempts` and `port`. These survive a crash, all else is lost.
`job` names the synchronous section that holds the thread. A handler starts
only at `job = "idle"`, every database write of a section is one action, and
`Crash` is possible between all of them. The continueRun loop of a run, of
which the `running` set allows one, is `phase` with its locals (`node`,
`batch`, `skips`, `ctx`, `left`, `aborted`): it holds the thread ("busy") or
waits for an operation ("op") or for a retry delay ("backoff"). `batch` is the
list of ready nodes computed once and worked through with awaits in between;
its order is left open. `ctx` is the context read before an operation and
written back after it. An action outside the process (the operation) may
succeed, fail, or be aborted; time is `expired`, whether the run's deadline has
passed. `recovering` says that the boot's recovery has listed the run and not
reached it; `RuntimeWired` says whether the host starts that recovery at all,
which it does not in this commit. `execs`, `grants`, `unverified` and `spent` are history.

The data an operation computes is abstracted to the port it leaves by; a
for-each is an operation that starts some number of nested ones. In `FindRun` a repeated
delivery may come at any time: the inbox waits for recovery, webhooks do not.

### TaskGraph and OrchestrationGraph

The rows are `run`, `status` and `linked` (has a task id); `work` is the status
of the delegated task, which the graph sees only by reading it. The lock and
the place of the tick are `tick`, with its locals. A step is the code between
two awaits. So `ReadWork` and `ApplyWork` are two steps, with anything between,
as are `Dispatch`, `CreateWork` and `LinkWork`, and the three steps of
`cancelHandle`. The database writes within one step are repeated harmlessly by
the next tick, so crashes fall between steps. `Cancellable` says for which
nodes the callers of cancelHandle use it: the agent's tool for remote nodes,
the ACP server for runs of one node. The tasks themselves (the daemon) and
remote agents are external: they start live, end in some way, and survive a
crash, as the daemon resumes its tasks. `DeleteTask` is the user's deletion of a
child task: a row that is gone is skipped at every tick. `LinkWork` of a remote
node may find no id in the reply: the node is running and nobody polls it.

`TaskGraph` is what an agent that delegates a graph may rely on: a task is
handed out when everything it needs has completed, only what was handed out
completes, and there is one verdict, `completed` only with nothing left undone,
after which nothing is handed out or completed. The mapping (`Graph`): a task is
given when work has been created for its node, completed when the tick has
written that its work completed, and the verdict is the run's terminal status.
Work created again after a crash, a remote agent that is sent a task twice, a
node rewritten by a late cancellation, and nodes appended after the verdict
are stutters of `TaskGraph`. It promises no end: a node behind a blocked
one, a deleted child task and a reply without an id keep a run open
(`Stranded`, `Lost`), so `RunSettles` stays a property of its own.

### PhasePipeline

A client of the graph: it creates a chain, keeps the handles of the first
snapshot, and waits for the phases in turn. It extends the graph's module and
adds its own variables; graph steps leave them alone.

### EventLedger and RoutineInbox

`EventLedger` is what a starter may rely on: an event with a key is unknown,
open or settled; it is executed at most once and settled once while it is
remembered; and an open event is settled in the end where somebody goes on
serving the inbox, which the ledger does not promise (`serving`). `RoutineInbox` is the
runtime around the engine: the rows of the inbox (`event`, `attempts`) and of
the runs (`run`, `steps`), the workers, the list `recover` of the boot, and
`driving`, the runs in the engine's loop. What the engine does inside a run is
`RoutineWorkflowEngine`; here its loop ends in some status (`DriverEnds`) or
throws (`DriverThrows`). The worker then records the run and settles the event
in a step of its own (`WorkerEnds`), which may fail (`WorkerFails`), with a
crash or a cancellation in between. A claim and the synchronous beginning of its
processing are one action; a crash inside it is the argument `torn` of `Crash`.
The refinement maps an event's status to the ledger's state and the existence
of a run's steps to `executed`: the engine executes a key afresh exactly when
it finds no steps. The clean-up deletes both, and the ledger has it as
`ForgetEvent` and `ForgetRun`: after it, a late delivery executes again.

### TaskQueue

`row` is the status of a task, `queue`, `slots` and `limit` are the queue
manager's, `live` are the executors at work, `retry` the timers of transient
retries. `starting` says that `startTask` awaits the start of a task, and
whether a `processQueue` loop waits behind it; `halting` says who awaits
`executor.cancel()`: the user, a timeout sweep or `clearStuckTasks`. Sweeps
overlap, as the interval does not wait for the last one. `clearStuckTasks` takes
its tasks one by one (`clearing`), and an executor whose `cancel()` throws
there stays (`stuck`). `Refused` is a `startTask` that throws before the task is
queued: its caller fails the task, or leaves it pending. Between
these awaits anything may happen, so `Launch` writes a row that may have ended
meanwhile (`revived` remembers these). The queue manager's operations are
functions on `[queue, slots, starting]`, as handlers call several of them in
one step. A cancellation takes its children one after the other (`doomed`).
`Restart` is the end of the process, graceful or not, with `initialize`: `saved`
are the tasks with something to resume from, `due` the retries whose time has
come.

### CronService

`mem` and `disk` are the store, with `listed`, the state of each job and the
outbox; a run goes on writing to the object of a job that has been removed, as
the code does. `exec` holds at most one run of the timer and one of the user:
the timer does not take the lock and other operations do. A run goes through
`leased`, `polling`, `delivering`; one of the user awaits the search for a task
at work first (`asking`). `clock` is the time; a schedule is a grid of
period `Every`, open for kind "cron" and closed for kind "every" (`Intervals`),
or a fixed time (`OneShots`). `occ` of a task is the scheduled time it was
created for. `findActiveTaskForJob` of the host is `ActiveTask`; it may miss a
task that is at work, as it looks at some statuses and at the latest 50 tasks
of a workspace only.

### ToolScheduler

One `executeBatch` for a reply of `N` calls. `cursor`, `last` and `next` are
the loop, the batch and the cursor its workers share; `phase` is where a call
is between its awaits; `cache` is the cache of reads in flight or done.
Callbacks that are awaited without a guard may throw: those of a call
(`onDispatched`, `onCacheHit`: `Throws`) end its worker and make `executeBatch`
reject while the other workers go on, those between batches (`prepareCall`,
`postExecutionEffect`, `finalize`, `summarizeBatch`: `Rejects`) make it reject with
calls unanswered. The
world is abstracted to the set of writes that have taken effect, so that
`seen` tells what a read was answered with. `Kind` merges every scheduled call
that is not a shareable read into "write"; a read that is not idempotent runs
alone like a write and does not clear the cache, and is left out.

### Approvals

One task. `row` are the persisted requests, `waiting` the promises with their
timers, `remembered` the answers given after a restart, `grants` the one-time
grants of the executor's runtime and `snapshot` those in the last saved
conversation. A scope is an operation that needs an answer; several requests
may have the same scope. Every answer is "once". The row of a request is
written before the row of its task, and the process can die in between: an
answer, the clean-up of an ended task, a new request and the last answer
after a restart each have such a death (`DiesAnswering`, `DiesEnding`,
`DiesAsking`, `DiesResuming`); `lost` remembers an answer written so. A failure
of the executor itself ends the task without the clean-up (`RunFails`). `used` counts the operations
let through; `replayed` counts the grants that a restart brought back from a
snapshot after they had been used.

## What the runs show

| Run | Instance | Shows |
| --- | --- | --- |
| `routine_crash` | branching workflow of 5 nodes, 1 crash, at most 6 operations, 289,000 states | 7 safety properties; what a process works on ends unless it dies |
| `routine_cancel` | chain | an operation starts after the cancellation |
| `routine_recovery` | chain, 1 crash, a host as in this commit | a run left by a crash is not recovered |
| `inbox_run` | 2 events, 1 worker, 2 attempts, 2 crashes or changes, 234,000 states | the inbox implements the ledger, which asks for an end only where somebody serves; no run without a driver but the `stranded` |
| `graph_run` | a local and a remote node, their join, a late node; one slot, 1 crash, 68,000 states | 6 safety properties; the graph implements `TaskGraph`; termination |
| `pipeline_doc` | 3 phases, 1 crash | the pipeline gives way to guidance without cause |
| `queue_run` | 2 tasks and a sub-task, limit 1 or 2, ceiling 2, 1 fault, 331,000 states | owner, rows, limits, no idle slot, every task ends |
| `queue_slots` | the same | a failed run keeps its slot |
| `cron_run` | a recurring job and a one-shot with a channel, 1 fault, time up to 3, 385,000 states | once for a time, sent once, due jobs run, the outbox drains |
| `cron_overlap` | a recurring job, no fault, time up to 5 | the timer makes a second task while the first is at work |
| `tools_run` | 8 calls: reads with duplicates, a write, an immediate call, 2 workers, 7,500 states | order, sharing, bound, cancellation, all answered or an exception |
| `approvals_run` | 4 requests, 3 of one scope, 3 restarts, 202,000 states | answers final, one use each, no blocked task but for a lost answer |

Bounds. `MaxCrashes` bounds deaths of the process; one crash already puts a
restart between any two steps, and the invariants used in the proofs were also checked
with one crash more. `MaxOps` is a parameter of the system itself. `MaxParallel` is
1 in the graph's run, against two nodes that need no other, so the limit binds; the
theorems cover every value. The branching workflow has
each kind of edge, of risk and of retry that the code tells apart: a branch
not taken, an external write with a retry setting, a step whose failure is ignored,
and a join. The graph has a remote node, a join, and a late node behind it,
which is stranded when the join is blocked.

`MaxFaults` bounds what the environment does out of turn (crashes, and in the
queue, cron and inbox modules also requests of the user): one fault falls
between any two steps, and the inbox has two so that a crash meets a
change of the routine or a second crash. The queue has as many tasks as a
parent, its child and a competitor need, and a limit that can be raised and
lowered across the number of running tasks; its ceiling is reached. `Flaky` is a
task of the user (see the behaviour of flaky sub-tasks below). `MaxTasks` bounds
the tasks that cron runs create; a run beyond it ends without one. The cron
horizon has an occurrence of the recurring job and the one-shot at the same time, so
that the batch has two jobs, and it ends between two occurrences, so that no
job is left due for lack of time; with `Intervals = {daily}` and no fault the same properties hold,
with a fault the run takes too long. The reply of `tools_run` has three
duplicates of a read on either side of a write. Three requests of one scope let
answers before and after a restart meet the same grant; a third restart is
what it takes to use a grant, crash, and use it again.

No run bounds a counter by a state constraint: every behaviour of these
instances is finite. Deadlock is not checked: all of these systems come to
rest when there is nothing left to do.

### Fairness

Workflow: `WF(Section)`: code that holds the thread runs to its next await.
`SF(Settle)`, `SF(Wake)`: an operation settles because `withTimeout` races it
against a timer; a sleep ends. They are strong because these callbacks are
enabled only when the thread is free, which other handlers keep taking; the
event loop serves its queues in order. Nothing is assumed of the user, of the
clock, of deliveries or of recovery: `RunSettles` speaks of the runs a process
has taken up, and its end excuses it.

Graph: `WF(Tick)` is the 1.5 s timer, `WF(TickStep)` an awaited promise that
settles. Delegated work ends (`WF(WorkEnds)`): tasks have the queue's timeout.
`SF(ReadWork(n))`: a remote agent that is polled for ever answers once, so it is
not unregistered for ever; `RemoteSilent` is the other outcome of the same poll.
It is enabled only for work that is linked and has a row.

Inbox: a run ends or comes to wait (from the engine's `RunSettles`), its worker
goes on, recovery takes one run after the other. Nothing says that the host starts
the runtime. `SF(Claim(k))`: the workers may be busy whenever the event is looked
at, but the oldest pending event is claimed first, so no event is passed over for ever.

Queue: starts, cancellations and sweeps settle, timers fire, and an executor ends
unless it waits for its sub-agents (`GoesOn`). `SF(TimeOut)`: a task that stays in
its slot is older than the timeout at some sweep, although sweeps of other tasks
come between.

Cron: time goes on to the horizon, timers fire, a run reaches its deadline, the
search for a task at work and a call to a channel return. Nothing is assumed of
the tasks or of the user.

Tools: each await settles, with a value or with an exception; that none hangs is
what the tools' own time limits are for.

Approvals: timers fire, an executor that waits for nobody ends, and the user
answers what a blocked task asks after a restart; of answers that somebody
waits for nothing is assumed, as the timer answers for the user.

### Findings

1. A cancellation during a retry delay does not stop the run: the controller it
   fires belongs to the attempt that has failed, the sleep is not woken, and
   the next attempt runs (`routine_cancel`).
2. The pipeline looks its second phase up by an id that no lookup knows, so
   with every phase healthy the executor does the task itself next to the
   running graph (`pipeline_doc`).
3. A run that catches its own error writes its row through `updateTask`, which
   does not free the slot; the slot stays taken until the timeout sweep finds
   it (`queue_slots`).
4. The timer starts a job although the task of its previous run is still at
   work, when that run was left by its deadline or at a pause: only `run` and
   `reconcileLoadedJobs` look for it. No crash and no user is needed
   (`cron_overlap`).
5. Nothing calls `startWorkflowRuntime`, so neither recovery nor the inbox runs
   in this commit: a run left by a crash stays queued or running although the
   documentation says that it is recovered (`routine_recovery`).

Behaviour found while modelling that no run states as a property:

* Workflow: a run that finishes with exactly the last allowed operation fails
  for exceeding the limit, as the loop's condition ends it before `finishRun`
  (`engine.ts:159`). "Approve once" on an interrupted step with one allowed
  attempt fails the step without trying it (`engine.ts:384`). A crash between the
  two writes of an approval leaves a run that waits with nothing to approve;
  one inside `cancel`, or before the steps are inserted, leads to a run that
  recovery reports as completed.
* Inbox: a run whose loop throws after an approval, or whose routine is
  disabled before the next attempt, stays running with nobody to drive it until
  the next boot (`stranded`).
* Graph: a crash between the creation of a task and the write of its id
  dispatches the node again; a node behind a blocked node keeps its run running
  for ever (`Stranded`), and so do a child task that is deleted while it runs and
  a remote reply without an id (`Lost`); nodes appended to an ended run are never
  dispatched.
* Queue: a start that was cancelled, timed out or cleared meanwhile goes on and
  writes its row again (`revived`); a task that was still pending when the
  process died, or whose start was refused before it was queued with no caller to
  fail it, is never looked for; "clear stuck tasks" leaves the rows as they are
  (`dropped`), and an executor whose cancellation throws there goes on without
  a slot. A sub-task with a transient error whose restart outlasts the timeout
  again and again is retried without end, because `failTask` resets its retry count,
  and its parent waits for it.
* Cron: a job of kind "every" started at the very time of its occurrence is
  due again at once, because `computeNextRunAtMs` returns that time; a crash
  between lease and task gives the occurrence up; a crash between the
  end of a run and its delivery loses the delivery; a run that ends after
  `stop()` saves an empty store; a job removed or disabled while it waits in a
  timer's batch is run; what is being sent from the outbox is sent again after
  a crash.
* Tools: a callback that throws makes `executeBatch` reject with calls
  unanswered, while the other workers of the batch go on to run its calls.
* Approvals: a process that dies between the write of an answer and that of the
  task leaves the task blocked with no request to answer: neither `initialize`
  nor `recoverPersistedApproval` frees it, only a follow-up or a cancellation
  (`AnswerLost`). A task whose executor fails keeps its requests open until their
  timers deny them. A snapshot taken before a grant was used brings it back after
  a restart (`replayed`); denying one of several requests after a restart leaves the
  others pending and unanswerable; answers given after a restart are held in
  memory and are asked again after the next; `resumeTask` sets a task executing
  while it waits for an approval.

The properties say where they except these.

## What is proved

For all constants that satisfy the module's one assumption
(`WorkflowAssumption`, `GraphAssumption`, `InboxAssumption`,
`QueueAssumption`, `CronAssumption`, `SchedulerAssumption`, `ApprovalAssumption`); no other assumption is made.

Workflow engine (`RoutineWorkflowEngine_proofs`):

* `TypeCorrect`, and `ShapeCorrect`: the section on the thread and the loop's
  locals agree (`LoopShape`), the step rows exist together (`StepsTogether`).
* `WritesApprovedAlways`. `execs[n] <= grants[n]` is not inductive: the
  strengthening `ApprovalCredit` says that wherever a start of `n` may still
  come from (a pending approved step, the batch, the section of an approval, an
  attempt) an approval is left for it. That a retry never spends it is
  `LoopShape`'s conjunct that only safe nodes are in a retry delay.
* `InterruptedVerifiedAlways`, from `UnverifiedHeld`: an interrupted node is
  neither pending nor in the hands of the loop.
* `DependenciesAlways`, from `SuccessorsFresh`: whatever the loop holds or may
  still run has no started successor.
* `BudgetAlways`, from `BudgetLedger`: what the loop has left and what it
  stored account for every operation started.
* `AttendedAlways`, from `Owned`, which also covers the sections on the thread. Both
  except a run left by a crash of a host that starts no recovery.
* `AnswerableAlways`, from `AskedFor`: until the process has died once, a run
  waits for approval with its loop gone, and only the section on the thread
  takes its last waiting step away; that section then writes the run.

Delegation graph (`OrchestrationGraph_proofs`):

* `TypeCorrect`, with `TickShape`.
* `PredecessorsAlways`, from `Order`: ready, queued and dispatched nodes are
  behind completed sources, though a source's row may be rewritten later.
* `ParallelAlways` and, with `WorkAlways`, `BoundsAlways`, from `SlotsBound`: running nodes, queued nodes and the node
  being dispatched fit the limit together; only scheduling adds to them.
* `OnceAlways`, from `Once`: how a local node's row, its task and the tick
  agree while the process lives; `WorkAlways` follows from it and `SlotsBound`,
  `QuietAlways` from it and `Verdict`.
* `CompleteAlways`, from `Order` and `Verdict`.
* `GraphSafety`: the graph implements `TaskGraph`, step by step (`GraphStep`).
  Handing out needs `Order`, completing needs `Handed` (only work that was
  created has a status to be told of), the verdict needs `Order`, `Handed` (what
  was handed out has a row) and `Verdict` (a tick only works on a running run).
  `TaskGraph` has no fairness, so this is all of it.

Workflow runtime (`RoutineInbox_proofs`), from `IInv`:

* `TypeCorrect`: the attempts of an event are bounded, although a crash takes
  one without a verdict (`AttemptsLeft`).
* `DrivenAlways`: with `ProcessShape` (an event is being processed exactly when it has a
  worker, and a process that has not started holds nothing) `RunningIsDriven`
  is inductive. Its exception are the runs in `stranded`.
* `LedgerSafety`: initial states map to initial states of the ledger, and each
  action to one of its steps or to none. The step that needs the invariant is
  an event's settling, which must have been open.

Task queue (`TaskQueue_proofs`):

* `CeilingAlways`, from `IInv`: the slots are finitely many, they are within
  the ceiling, and what the limit counts among them is within the highest limit
  (`SlotsOK`). Each operation of the queue manager keeps this (`GoodProcess`,
  `GoodFinish`, `GoodSettle`, ...), so that each handler is a chain of them. That a set of
  limits has a highest one rests on the well-foundedness of the naturals.
* `TypeCorrect`, `OneOwnerAlways`, `RowsAgreeAlways` and `NoIdleSlotAlways`, together,
  from `Inductive`: none is inductive alone. A task is put into the queue by its
  retry or its resumption as well, so one owner needs that what
  waits for a timer or to be resumed is nowhere else (`Waits`), and the rows that a
  start whose task has ended holds no slot (`Owners`). `ProcessMoves` says what `processQueue` does to any
  queue: some queued tasks get a slot and a start, in the queue's order, and it stops only without room or without
  such a task (`ProcessKeeps`, `BusyStays`); the handlers are
  chains of it. The lemmas on sequences (`Removed`, `Prefixed`, `Appended`, ...)
  and the existence of an order of creation (`InOrderOf`) carry them.

Cron service (`CronService_proofs`):

* `TypeCorrect`; that an entry's attempts are bounded needs `QueuedTryable`
  (what is queued has an attempt left).
* `SentOnceAlways`: a result travels from a run to the outbox, to the pass that
  tries it, to the file and back. `RunsHoldTheirs` says that the result of a run
  in progress is nowhere else, `OneEntry` that the outbox has it once, `QueuedUnsent`
  that what is queued has not been sent but for what a process sent and did not save.
  No bound on the clock, the jobs, the stops or the restarts is used.
* `OncePerOccurrenceAlways`, from `OnceInv`: the next time of a job is over the
  times its runs were for (`Behind`). It is computed from the lease, from the start of a
  run, from the time the timer read or from the clock, so none of these may fall behind a run
  (`LeaseLatest`, `RunLatest`, `BatchLatest`); `NextRunAfter` says that what is computed is
  not before what it is computed from. A one-shot keeps its time: `Spent` says that
  it is being run or off the list, and that `start()` will see that
  it has been run. `Exclusive` is why the exception for jobs run across each
  other is the only one needed besides that of intervals.

Tool scheduler (`ToolScheduler_proofs`):

* `TypeCorrect` and `NothingAfterCancelAlways`, from `BatchShape` (what is
  before, in and behind the batch), `CacheShape` (the owner of a key ran on its
  own and only reads have come since) and `JoinShape`.
* `BoundedAlways`, by counting: a call enters flight only when fewer than the
  workers are in it.
* `ReadsInOrderAlways`: `WriteLog` says that the world is the writes that have
  been run, `Sees` that a read saw those before it, for reads answered
  by others with nothing but reads in between.
* `SharedOnceAlways`: `Shared` adds that an owner keeps its key for as long as
  its batch lasts, unless it failed.

Approvals (`Approvals_proofs`):

* `AnswerFinalAlways`, from the type invariant, as only a request that is still
  pending has a promise.
* `AnsweredAlways`: an answer travels from a row to a remembered row, a
  grant, a snapshot and back, and is used long after it was given. `Credit`
  says that every scope that can still be used without asking, wherever its grant is,
  has an answer left; `Handed` that a task with an executor has no remembered
  answers, so that no answer is handed over twice.

The strengthenings were checked with TLC before they were proved, those of the cron
service with two faults, `OnceInv` with one, on cron schedules and on intervals.

Only model-checked: `InsteadOfGuidance` and the other violations, and the
liveness properties, among them the ledger's, which need fairness and ENABLED.
Every invariant a run checks is proved.

## Not modelled

* Inside the models: the store of cron is written in one step and in the order of
  the calls, while `saveCronStore` has three awaits (`store.ts:142`), so saves can
  reorder; a call to a channel that throws after it has sent counts as not sent;
  a `cancel()` that throws in `cancelTask` or in the timeout callback; approvals
  for a bundle of operations, which let several through with one answer
  (`daemon.ts:5772`, 5949, 6345); the later runs that `resumeRunningRuns` does not
  reach when a remote agent is silent; workers left by an exception while the
  next `executeBatch` runs.
* In modelled components: follow-ups to finished tasks, collaborative
  (multi-agent) launches, pauses for the user and turn-limit continuations in
  the daemon; workspaces, prompts, statistics, history and the webhook server
  of cron; rules for a session, a workspace or a profile, and the cache of
  repeated responses, in approvals; versions, drafts and publishing of
  workflows; `retryWorkflowRun`, which starts a run under a new key.
* The executor's turn loop, planning and prompts, the turn kernel, the
  permission engine's policy, actions of workflows and their validation: model
  calls, third-party services or conversion of data, with little control state
  of their own.
* Heartbeat, triggers, mailbox, memory, MCP, gateway, hooks, tunnels, managed
  sessions, control plane: independent services, mostly I/O.
* Concurrency helpers and computer use sessions: a lock or an owner each,
  reached by unit tests.
* Renderer, CLI, mobile apps, connectors, skills, native helpers: user
  interface, assets and separate programs, which are most of the repository.

## What could come next

`Approvals` composed with `TaskQueue`, whose tasks then block and resume.
