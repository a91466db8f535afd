----------------------- MODULE RoutineWorkflowEngine -----------------------
(***************************************************************************)
(* One run of an Automation Studio workflow: the two database tables that  *)
(* hold it (the run row and its step rows), the engine that drives it in   *)
(* the Electron main process, the user who approves, rejects or cancels,   *)
(* and the crash and recovery of that process.                             *)
(*                                                                         *)
(* JavaScript runs a synchronous section to its end before another handler *)
(* gets the thread, but the process may die between two database writes of *)
(* a section.  "job" names the section that holds the thread: every action *)
(* that starts a handler needs job = "idle", every database write of a     *)
(* section is a step of its own, and Crash is possible after each.         *)
(***************************************************************************)
EXTENDS Naturals, FiniteSets

CONSTANTS
  Nodes,            \* workflow.nodes, the starter included
  Starter,          \* workflow.starterNodeId
  Edges,            \* workflow.edges, records [src, port, dst]
  OutPorts,         \* the __port values the operation of a node may return
  Risk,             \* the highest catalog risk of a node and its children
  ApprovalMode,     \* node.approvalMode
  Policy,           \* routine.approvalPolicy.mode
  OnErrorContinue,  \* the nodes with onError = "continue"
  RetryLimit,       \* node.retry.maxAttempts after clamping
  Foreach,          \* the control.foreach nodes: one attempt, several operations
  MaxOps,           \* settings.maxStepCount
  DryRun,           \* context.dryRun
  RuntimeWired,     \* the host calls startWorkflowRuntime() when it boots
  MaxCrashes        \* bound of the model: process deaths

NoNode == "none"   \* the loop is at no node

RiskLevels == {"read", "local_write", "external_write", "data_export"}
ApprovalModes == {"inherit", "always_confirm", "never_confirm_safe"}
Policies == {"inherit", "auto_safe", "confirm_external", "strict_confirm"}
Ports == {"success", "error", "true", "false", "always"}

ASSUME WorkflowAssumption ==
  /\ Starter \in Nodes /\ NoNode \notin Nodes
  /\ Edges \subseteq [src : Nodes, port : Ports, dst : Nodes \ {Starter}]
  /\ OutPorts \in [Nodes -> (SUBSET Ports) \ {{}}]
  /\ Risk \in [Nodes -> RiskLevels]
  /\ ApprovalMode \in [Nodes -> ApprovalModes]
  /\ Policy \in Policies
  /\ OnErrorContinue \subseteq Nodes
  /\ RetryLimit \in [Nodes -> 1..10]
  /\ Foreach \subseteq Nodes
  /\ MaxOps \in Nat
  /\ {DryRun, RuntimeWired} \subseteq BOOLEAN
  /\ MaxCrashes \in Nat

VARIABLES
  (* The run row and the step rows: they survive a crash. *)
  runStatus, startedAt, approved, opCount, stepStatus, attempts, port,
  (* The main process. *)
  job,         \* the synchronous section on the thread
  jobNodes,    \* the steps that section still has to name in the run row
  recovering,  \* recoverWorkflowRuns() has listed this run, not reached it
  phase,       \* the continueRun() loop: none, busy, op or backoff
  node,        \* the node executeNode() is at
  batch,       \* ready candidates not executed yet
  skips,       \* ready candidates to be skipped
  ctx,         \* context.approvedStepIds as executeNode() read it
  left,        \* budget.remaining
  aborted,     \* the attempt's AbortController has fired
  (* The clock: the run's deadline has passed. *)
  expired,
  (* History, for the properties. *)
  execs,       \* how often each node's operation was started
  grants,      \* how often the user approved each node
  unverified,  \* nodes interrupted by a crash and not approved since
  spent,       \* operations started, nested ones included
  crashes

Active == {"running", "retrying"}
TerminalStep == {"completed", "failed", "skipped", "cancelled"}
StepStatuses == {"none", "pending", "waiting_for_approval"} \cup Active \cup TerminalStep
TerminalRun == {"completed", "partial_success", "failed", "cancelled"}
RunStatuses == {"none", "queued", "running", "waiting_for_approval"} \cup TerminalRun
LoopJobs == {"top", "next", "ask", "attempt", "refused", "complete", "afterOk", "giveUp",
             "afterFail"}
Jobs == {"idle", "init", "starter", "open", "continue", "approve", "reject", "cancel", "recover"}
          \cup LoopJobs

runRow  == <<runStatus, startedAt, approved, opCount>>
stepRows == <<stepStatus, attempts, port>>
loop    == <<phase, node, batch, skips, ctx, left, aborted>>
history == <<execs, grants, unverified, spent, crashes>>
vars == <<runRow, stepRows, job, jobNodes, recovering, loop, expired, history>>

-----------------------------------------------------------------------------
(* Approval and retry rules.                                               *)

IsExternal(n) == Risk[n] \in {"external_write", "data_export"}

NodeNeedsApproval(n) ==
  \/ ApprovalMode[n] = "always_confirm"
  \/ Risk[n] = "data_export"
  \/ /\ ~(ApprovalMode[n] = "never_confirm_safe" /\ Risk[n] \in {"read", "local_write"})
     /\ IF Policy = "strict_confirm" THEN Risk[n] # "read" ELSE Risk[n] = "external_write"

(* maxAttempts is attemptCount + 1 for external work, so executeNode always *)
(* has a first attempt for it and never a second.                           *)
MayAttempt(n) == IsExternal(n) \/ attempts[n] < RetryLimit[n]
(* Mutant: the retry setting also governs external work. *)
MayRetryExternal(n) == attempts[n] < RetryLimit[n]

MayRetry(n) == ~IsExternal(n) /\ attempts[n] < RetryLimit[n]

-----------------------------------------------------------------------------
(* Ready nodes.                                                            *)

Incoming(n) == {e \in Edges : e.dst = n}

EdgeActive(e) ==
  stepStatus[e.src] = "completed" /\ e.port \in {"always", port[e.src]}

(* Mutant: a join waits for one of its sources only. *)
CandidatesAnySource ==
  {n \in Nodes \ {Starter} :
     /\ stepStatus[n] = "pending"
     /\ \E e \in Incoming(n) : stepStatus[e.src] \in TerminalStep}

(* Mutant: a step left running is picked up again. *)
CandidatesRestartRunning ==
  {n \in Nodes \ {Starter} :
     /\ stepStatus[n] \in {"pending", "running"}
     /\ \A e \in Incoming(n) : stepStatus[e.src] \in TerminalStep}

Candidates ==
  {n \in Nodes \ {Starter} :
     /\ stepStatus[n] = "pending"
     /\ \A e \in Incoming(n) : stepStatus[e.src] \in TerminalStep}

ReadyToRun == {n \in Candidates : \E e \in Incoming(n) : EdgeActive(e)}
Unfinished == {n \in Nodes : stepStatus[n] \notin TerminalStep \cup {"none"}}
Waiting == {n \in Nodes : stepStatus[n] = "waiting_for_approval"}

-----------------------------------------------------------------------------
Init ==
  /\ runStatus = "none" /\ startedAt = FALSE /\ approved = {} /\ opCount = 0
  /\ stepStatus = [n \in Nodes |-> "none"]
  /\ attempts = [n \in Nodes |-> 0]
  /\ port = [n \in Nodes |-> "success"]
  /\ job = "idle" /\ jobNodes = {} /\ recovering = FALSE
  /\ phase = "none" /\ node = NoNode /\ batch = {} /\ skips = {} /\ ctx = {}
  /\ left = 0 /\ aborted = FALSE
  /\ expired = FALSE
  /\ execs = [n \in Nodes |-> 0] /\ grants = [n \in Nodes |-> 0]
  /\ unverified = {} /\ spent = 0 /\ crashes = 0

-----------------------------------------------------------------------------
(* start(): create the run or find it by its idempotency key.              *)

CreateRun ==
  /\ job = "idle"
  /\ runStatus = "none"
  /\ runStatus' = "queued"
  /\ job' = "init"
  /\ UNCHANGED <<startedAt, approved, opCount, stepRows, jobNodes, recovering, loop,
                 expired, history>>

(* A second delivery of the key: the inbox draining the event again after a *)
(* restart, or a repeated webhook, which does not wait for the recovery.    *)
FindRun ==
  /\ job = "idle"
  /\ runStatus # "none"
  /\ \/ /\ \A n \in Nodes : stepStatus[n] = "none"
        /\ job' = "init"
     \/ /\ \E n \in Nodes : stepStatus[n] # "none"
        /\ runStatus \notin TerminalRun \cup {"waiting_for_approval"}
        /\ job' = "continue"
  /\ UNCHANGED <<runRow, stepRows, jobNodes, recovering, loop, expired, history>>

InitializeSteps ==
  /\ job = "init"
  /\ stepStatus' = [n \in Nodes |-> "pending"]
  /\ attempts' = [n \in Nodes |-> 0]
  /\ port' = [n \in Nodes |-> "success"]
  /\ job' = "starter"
  /\ UNCHANGED <<runRow, jobNodes, recovering, loop, expired, history>>

CompleteStarter ==
  /\ job = "starter"
  /\ stepStatus' = [stepStatus EXCEPT ![Starter] = "completed"]
  /\ attempts' = [attempts EXCEPT ![Starter] = 1]
  /\ job' = "open"
  /\ UNCHANGED <<runRow, port, jobNodes, recovering, loop, expired, history>>

OpenRun ==
  /\ job = "open"
  /\ runStatus' = "running"
  /\ startedAt' = TRUE
  /\ job' = "continue"
  /\ UNCHANGED <<approved, opCount, stepRows, jobNodes, recovering, loop, expired, history>>

-----------------------------------------------------------------------------
(* continueRun(): one loop per run, guarded by the "running" set.          *)

(* The loop returns: its locals are gone and the thread is free. *)
LeaveLoop ==
  /\ phase' = "none" /\ node' = NoNode /\ batch' = {} /\ skips' = {} /\ ctx' = {}
  /\ left' = 0 /\ aborted' = FALSE
  /\ job' = "idle"

ContinueRefused ==
  /\ job = "continue"
  /\ phase # "none" \/ runStatus \in {"completed", "failed", "cancelled"}
  /\ job' = "idle"
  /\ UNCHANGED <<runRow, stepRows, jobNodes, recovering, loop, expired, history>>

(* A run that has no startedAt gets a new deadline with each loop. *)
ContinueRun ==
  /\ job = "continue"
  /\ phase = "none"
  /\ runStatus \notin {"completed", "failed", "cancelled"}
  /\ phase' = "busy"
  /\ left' = MaxOps - opCount
  /\ expired' = (expired /\ startedAt)
  /\ job' = "top"
  /\ UNCHANGED <<runRow, stepRows, jobNodes, recovering, node, batch, skips, ctx, aborted,
                 history>>

(* The return statements at the top of the loop; r is the status written.  *)
LoopReturns(r) ==
  /\ job = "top"
  /\ runStatus' = r
  /\ LeaveLoop
  /\ UNCHANGED <<startedAt, approved, opCount, stepRows, jobNodes, recovering, expired, history>>

LoopLive == left > 0 /\ runStatus \notin {"waiting_for_approval", "cancelled"}

LoopOutOfBudget == left = 0 /\ LoopReturns("failed")
LoopPaused ==
  /\ left > 0
  /\ runStatus \in {"waiting_for_approval", "cancelled"}
  /\ LoopReturns(runStatus)
LoopPastDeadline == LoopLive /\ expired /\ LoopReturns("failed")
LoopWaits ==
  /\ LoopLive /\ ~expired /\ Candidates = {} /\ Waiting # {}
  /\ LoopReturns("waiting_for_approval")
LoopStalls ==
  /\ LoopLive /\ ~expired /\ Candidates = {} /\ Waiting = {} /\ Unfinished # {}
  /\ LoopReturns("failed")
FinishRun ==
  /\ LoopLive /\ ~expired /\ Unfinished = {}
  /\ LoopReturns(IF \E n \in Nodes : stepStatus[n] = "failed"
                   THEN "partial_success" ELSE "completed")

FindReadyNodes ==
  /\ job = "top"
  /\ LoopLive /\ ~expired
  /\ Candidates # {}
  /\ batch' = ReadyToRun
  /\ skips' = Candidates \ ReadyToRun
  /\ job' = "next"
  /\ UNCHANGED <<runRow, stepRows, jobNodes, recovering, phase, node, ctx, left, aborted,
                 expired, history>>

SkipNode(n) ==
  /\ job = "next"
  /\ n \in skips
  /\ stepStatus' = [stepStatus EXCEPT ![n] = "skipped"]
  /\ skips' = skips \ {n}
  /\ UNCHANGED <<runRow, attempts, port, job, jobNodes, recovering, phase, node, batch, ctx,
                 left, aborted, expired, history>>

BatchDone ==
  /\ job = "next"
  /\ batch = {} /\ skips = {}
  /\ job' = "top"
  /\ UNCHANGED <<runRow, stepRows, jobNodes, recovering, loop, expired, history>>

-----------------------------------------------------------------------------
(* executeNode(): the approval gate, then the attempts.                    *)

MustAsk(n) == ~DryRun /\ n \notin approved /\ NodeNeedsApproval(n)

AskApproval(n) ==
  /\ job = "next"
  /\ n \in batch
  /\ MustAsk(n)
  /\ stepStatus' = [stepStatus EXCEPT ![n] = "waiting_for_approval"]
  /\ job' = "ask"
  /\ UNCHANGED <<runRow, attempts, port, jobNodes, recovering, loop, expired, history>>

PauseRun ==
  /\ job = "ask"
  /\ runStatus' = "waiting_for_approval"
  /\ LeaveLoop
  /\ UNCHANGED <<startedAt, approved, opCount, stepRows, jobNodes, recovering, expired, history>>

EnterNode(n) ==
  /\ job = "next"
  /\ n \in batch
  /\ ~MustAsk(n)
  /\ batch' = batch \ {n}
  /\ node' = n
  /\ ctx' = approved
  /\ job' = IF MayAttempt(n) THEN "attempt" ELSE "giveUp"
  /\ UNCHANGED <<runRow, stepRows, jobNodes, recovering, phase, skips, left, aborted,
                 expired, history>>

(* The head of the attempt loop, up to the first await of the operation:   *)
(* the step row, a fresh controller, then the deadline and budget checks   *)
(* of executeOperation, which make the attempt fail without an effect.     *)
MarkAttempt ==
  /\ job = "attempt"
  /\ attempts' = [attempts EXCEPT ![node] = @ + 1]
  /\ stepStatus' = [stepStatus EXCEPT ![node] = IF attempts[node] = 0 THEN "running" ELSE "retrying"]
  /\ aborted' = FALSE
  /\ UNCHANGED <<runRow, port, jobNodes, recovering, node, batch, skips, ctx, expired,
                 grants, unverified, crashes>>

(* Mutant: the operation-count check is missing. *)
StartOperationUncounted ==
  /\ MarkAttempt
  /\ ~expired
  /\ left' = left - 1
  /\ spent' = spent + 1
  /\ execs' = [execs EXCEPT ![node] = @ + 1]
  /\ phase' = "op"
  /\ job' = "idle"

StartOperation ==
  /\ MarkAttempt
  /\ ~expired /\ left > 0
  /\ left' = left - 1
  /\ spent' = spent + 1
  /\ execs' = [execs EXCEPT ![node] = @ + 1]
  /\ phase' = "op"
  /\ job' = "idle"

RefuseOperation ==
  /\ MarkAttempt
  /\ expired \/ left = 0
  /\ job' = "refused"
  /\ UNCHANGED <<phase, left, spent, execs>>

(* A nested action of a for-each starts: executeOperation recursing. *)
StartChildOperation ==
  /\ job = "idle" /\ phase = "op"
  /\ node \in Foreach
  /\ ~aborted /\ ~expired /\ left > 0
  /\ left' = left - 1
  /\ spent' = spent + 1
  /\ UNCHANGED <<runRow, stepRows, job, jobNodes, recovering, phase, node, batch, skips, ctx,
                 aborted, expired, execs, grants, unverified, crashes>>

(* Mutant: the operation count is not written back. *)
SettleContextUncounted ==
  /\ approved' = ctx
  /\ UNCHANGED <<runStatus, startedAt, opCount, stepRows, jobNodes, recovering, node, batch,
                 skips, ctx, left, aborted, expired, history>>

(* The operation settled; both paths first write the context they read     *)
(* before the operation back to the run row, with the operation count.     *)
SettleContext ==
  /\ approved' = ctx
  /\ opCount' = MaxOps - left
  /\ UNCHANGED <<runStatus, startedAt, stepRows, jobNodes, recovering, node, batch, skips,
                 ctx, left, aborted, expired, history>>

OperationSucceeds ==
  /\ job = "idle" /\ phase = "op"
  /\ SettleContext
  /\ ~aborted
  /\ phase' = "busy"
  /\ job' = "complete"

(* Rejected by the action, or by the timeout (which fires the controller), *)
(* or aborted by cancel(). An attempt whose controller fired is not retried *)
(* and a backoff delay may be 0.                                            *)
OperationFails ==
  /\ SettleContext
  /\ \/ /\ job = "idle" /\ phase = "op"
        /\ phase' = "busy" /\ job' = "giveUp"
     \/ /\ job = "refused" /\ ~MayRetry(node)
        /\ phase' = "busy" /\ job' = "giveUp"
     \/ /\ job = "refused" \/ (job = "idle" /\ phase = "op" /\ ~aborted)
        /\ MayRetry(node)
        /\ \/ phase' = "backoff" /\ job' = "idle"
           \/ phase' = "busy" /\ job' = "attempt"

CompleteStep(p) ==
  /\ job = "complete"
  /\ p \in OutPorts[node]
  /\ stepStatus' = [stepStatus EXCEPT ![node] = "completed"]
  /\ port' = [port EXCEPT ![node] = p]
  /\ job' = "afterOk"
  /\ UNCHANGED <<runRow, attempts, jobNodes, recovering, loop, expired, history>>

(* The sleep ends and the loop makes its next attempt; nothing looks at the *)
(* run here.                                                                *)
BackoffEnds ==
  /\ job = "idle" /\ phase = "backoff"
  /\ phase' = "busy"
  /\ job' = "attempt"
  /\ UNCHANGED <<runRow, stepRows, jobNodes, recovering, node, batch, skips, ctx, left, aborted,
                 expired, history>>

GiveUp ==
  /\ job = "giveUp"
  /\ \/ /\ runStatus = "cancelled"
        /\ UNCHANGED <<stepStatus, port>>
     \/ /\ runStatus # "cancelled"
        /\ stepStatus' = [stepStatus EXCEPT ![node] = "failed"]
        /\ port' = [port EXCEPT ![node] = "error"]
  /\ job' = "afterFail"
  /\ UNCHANGED <<runRow, attempts, jobNodes, recovering, loop, expired, history>>

(* Back in continueRun() after executeNode(). *)
NextCandidate ==
  /\ runStatus # "cancelled"
  /\ job = "afterOk" \/ (job = "afterFail" /\ node \in OnErrorContinue)
  /\ job' = "next"
  /\ node' = NoNode
  /\ UNCHANGED <<runRow, stepRows, jobNodes, recovering, phase, batch, skips, ctx, left, aborted,
                 expired, history>>

StopAfterNode ==
  /\ job \in {"afterOk", "afterFail"}
  /\ \/ /\ runStatus = "cancelled"
        /\ UNCHANGED runStatus
     \/ /\ runStatus # "cancelled"
        /\ job = "afterFail" /\ node \notin OnErrorContinue
        /\ runStatus' = "failed"
  /\ LeaveLoop
  /\ UNCHANGED <<startedAt, approved, opCount, stepRows, jobNodes, recovering, expired, history>>

-----------------------------------------------------------------------------
(* respondToApproval(), both ways, and cancel().                           *)

Approve(n) ==
  /\ job = "idle"
  /\ stepStatus[n] = "waiting_for_approval"
  /\ stepStatus' = [stepStatus EXCEPT ![n] = "pending"]
  /\ grants' = [grants EXCEPT ![n] = @ + 1]
  /\ unverified' = unverified \ {n}
  /\ jobNodes' = {n}
  /\ job' = "approve"
  /\ UNCHANGED <<runRow, attempts, port, recovering, loop, expired, execs, spent, crashes>>

(* Mutant: an approval does not continue the run. *)
RecordApprovalOnly ==
  /\ job = "approve"
  /\ runStatus' = "running"
  /\ approved' = approved \cup jobNodes
  /\ jobNodes' = {}
  /\ job' = "idle"
  /\ UNCHANGED <<startedAt, opCount, stepRows, recovering, loop, expired, history>>

RecordApproval ==
  /\ job = "approve"
  /\ runStatus' = "running"
  /\ approved' = approved \cup jobNodes
  /\ jobNodes' = {}
  /\ job' = "continue"
  /\ UNCHANGED <<startedAt, opCount, stepRows, recovering, loop, expired, history>>

Reject(n) ==
  /\ job = "idle"
  /\ stepStatus[n] = "waiting_for_approval"
  /\ stepStatus' = [stepStatus EXCEPT ![n] = "failed"]
  /\ job' = "reject"
  /\ UNCHANGED <<runRow, attempts, port, jobNodes, recovering, loop, expired, history>>

(* Mutant: a rejection is written to the step and not to the run. *)
RecordRejectionStepOnly ==
  /\ job = "reject"
  /\ job' = "idle"
  /\ UNCHANGED <<runRow, stepRows, jobNodes, recovering, loop, expired, history>>

RecordRejection ==
  /\ job = "reject"
  /\ runStatus' = "failed"
  /\ job' = "idle"
  /\ UNCHANGED <<startedAt, approved, opCount, stepRows, jobNodes, recovering, loop, expired,
                 history>>

Cancel ==
  /\ job = "idle"
  /\ runStatus \notin {"none", "completed", "failed", "cancelled"}
  /\ aborted' = (aborted \/ phase \in {"op", "backoff"})
  /\ job' = "cancel"
  /\ UNCHANGED <<runRow, stepRows, jobNodes, recovering, phase, node, batch, skips, ctx, left,
                 expired, history>>

CancelStep(n) ==
  /\ job = "cancel"
  /\ n \in Unfinished
  /\ stepStatus' = [stepStatus EXCEPT ![n] = "cancelled"]
  /\ UNCHANGED <<runRow, attempts, port, job, jobNodes, recovering, loop, expired, history>>

RecordCancel ==
  /\ job = "cancel"
  /\ Unfinished = {}
  /\ runStatus' = "cancelled"
  /\ job' = "idle"
  /\ UNCHANGED <<startedAt, approved, opCount, stepRows, jobNodes, recovering, loop, expired,
                 history>>

-----------------------------------------------------------------------------
(* The process dies and boots; recoverWorkflowRuns() takes its list of     *)
(* queued and running runs at boot and reaches this one later.             *)

InFlight == {n \in Nodes : stepStatus[n] \in Active}

(* Mutant: recovery lists the running runs and forgets the queued ones. *)
CrashForgetsQueued ==
  /\ crashes < MaxCrashes
  /\ crashes' = crashes + 1
  /\ unverified' = unverified \cup InFlight
  /\ job' = "idle" /\ jobNodes' = {}
  /\ phase' = "none" /\ node' = NoNode /\ batch' = {} /\ skips' = {} /\ ctx' = {}
  /\ left' = 0 /\ aborted' = FALSE
  /\ recovering' = (RuntimeWired /\ runStatus = "running")
  /\ expired' = (expired /\ startedAt)
  /\ UNCHANGED <<runRow, stepRows, execs, grants, spent>>

Crash ==
  /\ crashes < MaxCrashes
  /\ crashes' = crashes + 1
  /\ unverified' = unverified \cup InFlight
  /\ job' = "idle" /\ jobNodes' = {}
  /\ phase' = "none" /\ node' = NoNode /\ batch' = {} /\ skips' = {} /\ ctx' = {}
  /\ left' = 0 /\ aborted' = FALSE
  /\ recovering' = (RuntimeWired /\ runStatus \in {"queued", "running"})
  /\ expired' = (expired /\ startedAt)
  /\ UNCHANGED <<runRow, stepRows, execs, grants, spent>>

RecoverRun ==
  /\ job = "idle"
  /\ recovering
  /\ recovering' = FALSE
  /\ jobNodes' = InFlight
  /\ job' = CASE InFlight # {} -> "recover"
              [] InFlight = {} /\ runStatus = "waiting_for_approval" -> "idle"
              [] OTHER -> "continue"
  /\ UNCHANGED <<runRow, stepRows, loop, expired, history>>

InterruptStep(n) ==
  /\ job = "recover"
  /\ n \in InFlight
  /\ stepStatus' = [stepStatus EXCEPT ![n] = "waiting_for_approval"]
  /\ UNCHANGED <<runRow, attempts, port, job, jobNodes, recovering, loop, expired, history>>

InterruptRun ==
  /\ job = "recover"
  /\ InFlight = {}
  /\ runStatus' = "waiting_for_approval"
  /\ approved' = approved \ jobNodes
  /\ jobNodes' = {}
  /\ job' = "idle"
  /\ UNCHANGED <<startedAt, opCount, stepRows, recovering, loop, expired, history>>

DeadlinePasses ==
  /\ ~expired
  /\ startedAt \/ phase # "none"
  /\ expired' = TRUE
  /\ UNCHANGED <<runRow, stepRows, job, jobNodes, recovering, loop, history>>

-----------------------------------------------------------------------------
(* Handlers that take the free thread. *)
Handlers ==
  \/ CreateRun \/ FindRun
  \/ \E n \in Nodes : Approve(n) \/ Reject(n)
  \/ Cancel \/ StartChildOperation

(* What the event loop owes: an operation settles (withTimeout sees to it), *)
(* and a sleep ends. Recovery reaches the run if the host has started it.   *)
Settle == OperationSucceeds \/ OperationFails
Wake == BackoffEnds
Recover == RecoverRun

(* The rest of the section that holds the thread. *)
Section ==
  \/ InitializeSteps \/ CompleteStarter \/ OpenRun
  \/ ContinueRefused \/ ContinueRun
  \/ LoopOutOfBudget \/ LoopPaused \/ LoopPastDeadline \/ LoopWaits \/ LoopStalls
  \/ FinishRun \/ FindReadyNodes \/ BatchDone
  \/ \E n \in Nodes : SkipNode(n) \/ AskApproval(n) \/ EnterNode(n)
  \/ PauseRun \/ StartOperation \/ RefuseOperation
  \/ \E p \in Ports : CompleteStep(p)
  \/ GiveUp \/ NextCandidate \/ StopAfterNode
  \/ RecordApproval \/ RecordRejection
  \/ \E n \in Nodes : CancelStep(n) \/ InterruptStep(n)
  \/ RecordCancel \/ InterruptRun

Next == Handlers \/ Settle \/ Wake \/ Recover \/ Section \/ Crash \/ DeadlinePasses

Spec == Init /\ [][Next]_vars

(* A section runs to its end. Timers and settled promises are taken from    *)
(* FIFO queues, so one that is ready again and again is served even when    *)
(* other handlers keep taking the thread: strong fairness. The user and the *)
(* clock owe nothing, and nor does recovery, which the host may never start.*)
Fairness == WF_vars(Section) /\ SF_vars(Settle) /\ SF_vars(Wake)

FairSpec == Spec /\ Fairness

-----------------------------------------------------------------------------
(* Properties.                                                             *)

FlagsTyped == {startedAt, recovering, aborted, expired} \subseteq BOOLEAN

ValuesTyped ==
  /\ runStatus \in RunStatuses /\ approved \subseteq Nodes /\ opCount \in 0..MaxOps
  /\ stepStatus \in [Nodes -> StepStatuses]
  /\ attempts \in [Nodes -> Nat]
  /\ port \in [Nodes -> Ports]
  /\ job \in Jobs /\ jobNodes \subseteq Nodes
  /\ phase \in {"none", "busy", "op", "backoff"}
  /\ node \in Nodes \cup {NoNode}
  /\ batch \subseteq Nodes /\ skips \subseteq Nodes /\ ctx \subseteq Nodes
  /\ left \in 0..MaxOps
  /\ execs \in [Nodes -> Nat] /\ grants \in [Nodes -> Nat]
  /\ unverified \subseteq Nodes /\ spent \in Nat /\ crashes \in 0..MaxCrashes

TypeOK == FlagsTyped /\ ValuesTyped

(* Every start of an external write or a data export was paid for by an     *)
(* approval of its own, whatever crashes, recoveries, repeated deliveries   *)
(* and cancellations come between: the single automatic attempt of          *)
(* executeNode, the approvedStepIds of the context and the reset of an      *)
(* interrupted step together never let one approval cover two starts.       *)
WritesApproved ==
  ~DryRun => \A n \in Nodes : IsExternal(n) => execs[n] <= grants[n]

(* A step that was in flight when the process died is not started again     *)
(* until the user has approved it, whatever its risk.                       *)
InterruptedVerified ==
  [][\A n \in unverified : execs'[n] = execs[n]]_vars

(* A node runs only downstream of settled work: once its operation started, *)
(* every source of its edges is terminal and stays so, and one of its edges *)
(* is active, also when a late operation or a cancel rewrites step rows.    *)
DependenciesFirst ==
  \A n \in Nodes \ {Starter} : execs[n] > 0 =>
     /\ \A e \in Incoming(n) : stepStatus[e.src] \in TerminalStep
     /\ \E e \in Incoming(n) : EdgeActive(e)

(* The operation budget holds over the whole run, approvals and retries     *)
(* included; only a crash forgets operations, those of the attempt in hand. *)
BudgetRespected == crashes = 0 => spent <= MaxOps

(* A queued or running run is never orphaned: its loop is live, or recovery *)
(* has it on its list, or the section on the thread is about to settle it.  *)
(* The exception is a run left by a crash of a host without the recovery.   *)
Attended ==
  runStatus \in {"queued", "running"} /\ job = "idle"
    => phase # "none" \/ recovering \/ (~RuntimeWired /\ crashes > 0)

(* Without a crash a run that waits for approval has a step to approve.     *)
(* (A crash between the two writes of respondToApproval breaks this.)       *)
WaitingIsAnswerable ==
  crashes = 0 /\ runStatus = "waiting_for_approval" /\ job = "idle" => Waiting # {}

(* A run that the process works on gets to a terminal status or to the user *)
(* unless the process dies. Before the first crash that is every run in     *)
(* progress; after it, every run that a delivery, an approval or a recovery *)
(* has taken up again. That one of these comes is not promised.             *)
RunSettles ==
  \A c \in 0..MaxCrashes :
    /\ runStatus \in {"queued", "running"} /\ crashes = c
    /\ c = 0 \/ phase # "none" \/ job # "idle"
    ~> runStatus \in TerminalRun \cup {"waiting_for_approval"} \/ crashes > c

-----------------------------------------------------------------------------
(* The inductive strengthenings of the properties above.                   *)

(* The loop's section and its locals agree. *)
LoopShape ==
  /\ job \in LoopJobs <=> phase = "busy"
  /\ phase = "none" => node = NoNode /\ batch = {} /\ skips = {} /\ ctx = {}
  /\ job \in {"top", "next", "ask"} => node = NoNode
  /\ phase \in {"op", "backoff"} \/ job \in LoopJobs \ {"top", "next", "ask"} => node \in Nodes
  /\ node \notin batch /\ node \notin skips /\ batch \cap skips = {}
  /\ phase = "backoff" => ~IsExternal(node)

(* The step rows are inserted in one transaction, before anything ran. *)
NoSteps ==
  /\ \A n \in Nodes : stepStatus[n] = "none" /\ execs[n] = 0
  /\ approved = {} /\ ctx = {} /\ jobNodes = {} /\ batch = {} /\ skips = {} /\ unverified = {}
  /\ phase \in {"none", "busy"}
  /\ job \in {"idle", "init", "continue", "top", "cancel"}
  /\ job = "init" => runStatus # "none"

StepsTogether ==
  \/ NoSteps
  \/ (\A n \in Nodes : stepStatus[n] # "none") /\ job # "init" /\ runStatus # "none"

(* An approval that can still start node n has not been used. *)
ApprovalCredit ==
  \A n \in Nodes : IsExternal(n) =>
    /\ execs[n] <= grants[n]
    /\ \/ stepStatus[n] = "pending" /\ n \in approved \cup ctx
       \/ n \in batch /\ n \in approved \cup ctx
       \/ job = "approve" /\ n \in jobNodes
       \/ job = "attempt" /\ node = n
       => execs[n] < grants[n]

(* An interrupted node is neither pending nor in the loop's hands. *)
UnverifiedHeld ==
  \A n \in unverified : stepStatus[n] \notin {"none", "pending"} /\ n \notin batch /\ node # n

(* A run in progress has an owner also while a section is on the thread. *)
Owned ==
  runStatus \in {"queued", "running"} =>
    \/ phase # "none" \/ recovering \/ (~RuntimeWired /\ crashes > 0)
    \/ job \in {"init", "starter", "open", "continue", "recover"}

(* Without a crash a run waits for approval with its loop gone and a step    *)
(* that waits, but for the section that is about to settle it.              *)
AskedFor ==
  crashes = 0 =>
    /\ ~recovering /\ job # "recover"
    /\ job = "ask" => Waiting # {}
    /\ runStatus = "waiting_for_approval" =>
         /\ phase = "none" /\ job \in {"idle", "approve", "reject", "cancel"}
         /\ job = "idle" => Waiting # {}

(* The budget the loop holds accounts for every operation started. *)
BudgetLedger ==
  crashes = 0 =>
    /\ phase \in {"none", "busy", "backoff"} => spent = opCount
    /\ phase \in {"busy", "op", "backoff"} => spent = MaxOps - left

(* What the loop holds, or may still run, has no started successor. *)
Held(n) == n = node \/ n \in batch \/ n \in skips

SuccessorsFresh ==
  /\ \A e \in Edges :
       Held(e.src) \/ stepStatus[e.src] \notin TerminalStep => execs[e.dst] = 0 /\ ~Held(e.dst)
  /\ \A n \in Nodes : Held(n) => n # Starter
  /\ \A n \in Nodes : n \in batch \/ n \in skips => stepStatus[n] # "completed"
  /\ phase \in {"op", "backoff"} \/ job \in {"attempt", "refused", "complete", "giveUp"}
       => stepStatus[node] # "completed"
  /\ \A n \in Nodes : execs[n] > 0 \/ n \in batch \/ n = node =>
       \E e \in Incoming(n) : EdgeActive(e)

-----------------------------------------------------------------------------
(* Claims of the documentation that the code does not meet. *)

(* docs/automation-studio.md: "Cancellation aborts active ... then marks    *)
(* unfinished steps cancelled": no operation starts in a cancelled run.     *)
CancelStopsWork == [][runStatus = "cancelled" => execs' = execs]_vars

(* docs/automation-studio.md: "Runs left in queued or running are recovered *)
(* before normal inbox processing resumes", also after a restart.           *)
RunsRecovered ==
  runStatus \in {"queued", "running"}
    ~> runStatus \in TerminalRun \cup {"waiting_for_approval"}
=============================================================================
