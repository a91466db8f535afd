------------------------- MODULE OrchestrationGraph -------------------------
(***************************************************************************)
(* One run of the delegation graph: the rows of the run and its nodes, the *)
(* tick that reconciles, schedules, dispatches and finalizes under the     *)
(* run's lock, the work it delegates (child tasks of this application or   *)
(* tasks of a remote agent), and the handlers that run between its awaits: *)
(* cancelHandle, appendNodes, the work itself, and the death of the        *)
(* process.                                                                *)
(*                                                                         *)
(* A step is the code between two awaits. The database writes of one such  *)
(* step are repeated harmlessly by the next tick, so a crash is only       *)
(* possible between steps.                                                 *)
(***************************************************************************)
EXTENDS Naturals, FiniteSets

CONSTANTS
  Nodes,        \* the nodes createRun() inserts
  Late,         \* the nodes appendNodes() inserts
  Edges,        \* records [src, dst]
  Remote,       \* the nodes with dispatchTarget = "remote_acp"
  MaxParallel,  \* run.maxParallel
  MaxCrashes    \* bound of the model: process deaths

AllNodes == Nodes \cup Late
NoNode == "none"   \* the tick is at no node

ASSUME GraphAssumption ==
  /\ IsFiniteSet(AllNodes) /\ NoNode \notin AllNodes /\ Nodes \cap Late = {}
  /\ Edges \subseteq [src : AllNodes, dst : AllNodes]
  /\ Remote \subseteq AllNodes
  /\ MaxParallel \in Nat \ {0}
  /\ MaxCrashes \in Nat

VARIABLES
  (* The rows. *)
  run,       \* orchestration_graph_runs.status
  status,    \* orchestration_graph_nodes.status
  linked,    \* the nodes whose row has a task id
  (* The delegated work. *)
  work,      \* the status of the task a node's row will name, or names;
             \* "gone" when the row of the task has been deleted
  (* The main process. *)
  tick,      \* where the holder of the run's lock is
  todo,      \* running nodes of the snapshot it has not looked at
  at,        \* the node it awaits
  seen,      \* the status of that node's work as it was read
  queue,     \* nodes it is about to dispatch
  cancels,   \* how far the cancelHandle() of a node is
  (* History, for the properties. *)
  created,   \* how many tasks were created for each node
  done,      \* the nodes that have been completed
  crashes

WorkEnd == {"completed", "failed", "cancelled"}
TerminalNode == WorkEnd \cup {"blocked"}   \* isTerminalNodeStatus
TerminalRun == {"completed", "failed"}

rows == <<run, status, linked>>
locals == <<tick, todo, at, seen, queue>>
history == <<created, done, crashes>>
vars == <<rows, work, locals, cancels, history>>

Existing == {n \in AllNodes : status[n] # "none"}
With(s) == {n \in AllNodes : status[n] = s}
Sources(n) == {e.src : e \in {d \in Edges : d.dst = n}}

Init ==
  /\ run = "none" /\ status = [n \in AllNodes |-> "none"] /\ linked = {}
  /\ work = [n \in AllNodes |-> "none"]
  /\ tick = "idle" /\ todo = {} /\ at = NoNode /\ seen = "none" /\ queue = {}
  /\ cancels = [n \in AllNodes |-> "none"]
  /\ created = [n \in AllNodes |-> 0] /\ done = {} /\ crashes = 0

-----------------------------------------------------------------------------
(* tickRun(): it returns at once when the lock is held or the run is not    *)
(* running; otherwise it reads a snapshot and starts to reconcile.          *)

(* Mutant: a run that has its verdict is taken up again. *)
TickRunAgain ==
  IF tick = "idle"
    THEN /\ tick' = "reconcile"
         /\ todo' = {n \in AllNodes : status'[n] = "running"}
         /\ UNCHANGED <<at, seen, queue>>
    ELSE UNCHANGED locals

(* Mutant: nothing locks the run. *)
TickRunUnlocked ==
  IF run' = "running"
    THEN /\ tick' = "reconcile"
         /\ todo' = {n \in AllNodes : status'[n] = "running"}
         /\ UNCHANGED <<at, seen, queue>>
    ELSE UNCHANGED locals

TickRun ==
  IF tick = "idle" /\ run' = "running"
    THEN /\ tick' = "reconcile"
         /\ todo' = {n \in AllNodes : status'[n] = "running"}
         /\ UNCHANGED <<at, seen, queue>>
    ELSE UNCHANGED locals

CreateRun ==
  /\ run = "none"
  /\ run' = "running"
  /\ status' = [n \in AllNodes |-> IF n \in Nodes THEN "pending" ELSE "none"]
  /\ TickRun
  /\ UNCHANGED <<linked, work, cancels, history>>

AppendNodes ==
  /\ run # "none"
  /\ Late # {} /\ Late \cap Existing = {}
  /\ status' = [n \in AllNodes |-> IF n \in Late THEN "pending" ELSE status[n]]
  /\ UNCHANGED run
  /\ TickRun
  /\ UNCHANGED <<linked, work, cancels, history>>

(* The 1.5 s timer, and the waitForHandle() of a caller. *)
Tick ==
  /\ tick = "idle" /\ run = "running"
  /\ UNCHANGED rows
  /\ TickRun
  /\ UNCHANGED <<work, cancels, history>>

-----------------------------------------------------------------------------
(* reconcileActiveNodes(): the status of the work is read, then written to  *)
(* the node in another step, over whatever the node has become meanwhile.   *)
(* Of a task whose row is gone there is nothing to write; a remote node     *)
(* without the id of its task is not asked about.                           *)

ReadWork(n) ==
  /\ tick = "reconcile" /\ n \in todo \cap linked
  /\ tick' = "poll" /\ at' = n /\ seen' = work[n]
  /\ todo' = todo \ {n}
  /\ UNCHANGED <<rows, work, queue, cancels, history>>

(* Mutant: work that was cancelled is not noticed. *)
ApplyWorkIgnoresCancelled ==
  /\ tick = "poll"
  /\ IF seen \in {"completed", "failed"}
       THEN /\ status' = [status EXCEPT ![at] = seen]
            /\ done' = IF seen = "completed" THEN done \cup {at} ELSE done
       ELSE UNCHANGED <<status, done>>
  /\ tick' = "reconcile" /\ at' = NoNode /\ seen' = "none"
  /\ UNCHANGED <<run, linked, work, todo, queue, cancels, created, crashes>>

ApplyWork ==
  /\ tick = "poll"
  /\ IF seen \in WorkEnd
       THEN /\ status' = [status EXCEPT ![at] = seen]
            /\ done' = IF seen = "completed" THEN done \cup {at} ELSE done
       ELSE UNCHANGED <<status, done>>
  /\ tick' = "reconcile" /\ at' = NoNode /\ seen' = "none"
  /\ UNCHANGED <<run, linked, work, todo, queue, cancels, created, crashes>>

(* The node has no remote id or its agent is not registered any more: it is *)
(* passed over. The agent does not answer: the exception leaves tickRun().  *)
RemoteSilent(n) ==
  /\ tick = "reconcile" /\ n \in todo \cap Remote
  /\ \/ todo' = todo \ {n} /\ UNCHANGED tick
     \/ n \in linked /\ todo' = {} /\ tick' = "idle"
  /\ UNCHANGED <<rows, work, at, seen, queue, cancels, history>>

-----------------------------------------------------------------------------
(* computeReadyNodes() and the choice of the nodes to dispatch.             *)

Blocked(n) ==
  status[n] = "pending" /\ \E s \in Sources(n) : status[s] \in {"failed", "cancelled"}

(* Mutant: a source only has to be terminal. *)
ReadyAfterTerminal(n) ==
  status[n] = "pending" /\ \A s \in Sources(n) : status[s] \in TerminalNode

Ready(n) ==
  status[n] = "pending" /\ \A s \in Sources(n) : status[s] = "completed"

Scheduled ==
  [n \in AllNodes |->
     CASE Blocked(n) -> "blocked" [] Ready(n) -> "ready" [] OTHER -> status[n]]

(* Mutant: the nodes that run already are not subtracted. *)
ScheduleFull(q) ==
  /\ tick = "reconcile" /\ todo = {}
  /\ status' = Scheduled
  /\ q \subseteq {n \in AllNodes : Scheduled[n] = "ready"}
  /\ Cardinality(q) <= MaxParallel
  /\ queue' = q
  /\ tick' = "dispatch"
  /\ UNCHANGED <<run, linked, work, todo, at, seen, cancels, history>>

Schedule(q) ==
  /\ tick = "reconcile" /\ todo = {}
  /\ status' = Scheduled
  /\ q \subseteq {n \in AllNodes : Scheduled[n] = "ready"}
  /\ LET ready == {n \in AllNodes : Scheduled[n] = "ready"}
         active == Cardinality(With("running"))
     IN  /\ active + Cardinality(q) <= MaxParallel \/ q = {}
         /\ q = ready \/ active + Cardinality(q) >= MaxParallel
  /\ queue' = q
  /\ tick' = "dispatch"
  /\ UNCHANGED <<run, linked, work, todo, at, seen, cancels, history>>

-----------------------------------------------------------------------------
(* dispatchNode(): the work is created, then the node is marked running.    *)

Dispatch(n) ==
  /\ tick = "dispatch" /\ n \in queue
  /\ tick' = "create" /\ at' = n
  /\ queue' = queue \ {n}
  /\ UNCHANGED <<rows, work, todo, seen, cancels, history>>

(* A remote agent may be sent the task twice: "tasks/send" that timed out   *)
(* or was answered with "pending" is followed by "tasks/create".            *)
CreateWork(k) ==
  /\ tick = "create"
  /\ k = 1 \/ (k = 2 /\ at \in Remote)
  /\ work' = [work EXCEPT ![at] = "live"]
  /\ created' = [created EXCEPT ![at] = @ + k]
  /\ tick' = "link"
  /\ UNCHANGED <<rows, todo, at, seen, queue, cancels, done, crashes>>

(* Mutant: the status of the work is copied as it is. *)
LinkWorkRaw(s) ==
  /\ tick = "link"
  /\ s = "running"
  /\ status' = [status EXCEPT ![at] = work[at]]
  /\ linked' = linked \cup {at}
  /\ done' = IF work[at] = "completed" THEN done \cup {at} ELSE done
  /\ tick' = "dispatch" /\ at' = NoNode
  /\ UNCHANGED <<run, work, todo, seen, queue, cancels, created, crashes>>

(* The answer to a remote invocation may already carry the result, and it   *)
(* may be without the id of the task.                                       *)
LinkWork(s) ==
  /\ tick = "link"
  /\ s = "running" \/ (at \in Remote /\ s = work[at] /\ s \in WorkEnd)
  /\ status' = [status EXCEPT ![at] = s]
  /\ linked' = linked \cup {at} \/ (at \in Remote /\ linked' = linked)
  /\ done' = IF s = "completed" THEN done \cup {at} ELSE done
  /\ tick' = "dispatch" /\ at' = NoNode
  /\ UNCHANGED <<run, work, todo, seen, queue, cancels, created, crashes>>

(* Creation threw. A remote agent may have got the task all the same. *)
DispatchFails ==
  /\ tick = "create" \/ (tick = "link" /\ at \in Remote)
  /\ status' = [status EXCEPT ![at] = "failed"]
  /\ tick' = "dispatch" /\ at' = NoNode
  /\ UNCHANGED <<run, linked, work, todo, seen, queue, cancels, history>>

(* Mutant: the first failure ends the run. *)
EndTickFailFast ==
  /\ tick = "dispatch" /\ queue = {}
  /\ run' = CASE \E n \in Existing : status[n] = "failed" -> "failed"
              [] \E n \in Existing : status[n] \notin TerminalNode -> run
              [] \A n \in Existing : status[n] = "completed" -> "completed"
              [] OTHER -> "failed"
  /\ tick' = "idle"
  /\ UNCHANGED <<status, linked, work, todo, at, seen, queue, cancels, history>>

(* Mutant: a cancelled node is no failure of the run. *)
EndTickForgivesCancelled ==
  /\ tick = "dispatch" /\ queue = {}
  /\ run' = CASE \E n \in Existing : status[n] \notin TerminalNode -> run
              [] \A n \in Existing : status[n] \in {"completed", "cancelled"} -> "completed"
              [] OTHER -> "failed"
  /\ tick' = "idle"
  /\ UNCHANGED <<status, linked, work, todo, at, seen, queue, cancels, history>>

(* finalizeRunIfTerminal() and the release of the lock. *)
EndTick ==
  /\ tick = "dispatch" /\ queue = {}
  /\ run' = CASE \E n \in Existing : status[n] \notin TerminalNode -> run
              [] \A n \in Existing : status[n] = "completed" -> "completed"
              [] OTHER -> "failed"
  /\ tick' = "idle"
  /\ UNCHANGED <<status, linked, work, todo, at, seen, queue, cancels, history>>

-----------------------------------------------------------------------------
(* cancelHandle(). Its callers are the agent's cancel tool, for the remote  *)
(* nodes of its graph, and the ACP server, for its runs of one node; both   *)
(* refuse a node that is finished, before the first await.                  *)

Cancellable == IF Cardinality(AllNodes) = 1 THEN AllNodes ELSE Remote

CancelHandle(n) ==
  /\ n \in linked /\ status[n] \notin TerminalNode
  /\ n \in Cancellable
  /\ cancels[n] = "none"
  /\ cancels' = [cancels EXCEPT ![n] = "asked"]
  /\ UNCHANGED <<rows, work, locals, history>>

(* The work is cancelled unless it has ended. A remote agent that is not    *)
(* registered any more is not asked; one that does not answer ends it.      *)
CancelWork(n) ==
  /\ cancels[n] = "asked"
  /\ \/ /\ work' = [work EXCEPT ![n] = IF @ = "live" THEN "cancelled" ELSE @]
        /\ cancels' = [cancels EXCEPT ![n] = "answered"]
     \/ /\ n \in Remote
        /\ cancels' = [cancels EXCEPT ![n] = "answered"]
        /\ UNCHANGED work
     \/ /\ n \in Remote
        /\ cancels' = [cancels EXCEPT ![n] = "none"]
        /\ UNCHANGED work
  /\ UNCHANGED <<rows, locals, history>>

RecordCancel(n) ==
  /\ cancels[n] = "answered"
  /\ status' = [status EXCEPT ![n] = "cancelled"]
  /\ cancels' = [cancels EXCEPT ![n] = "none"]
  /\ UNCHANGED run
  /\ TickRun
  /\ UNCHANGED <<linked, work, history>>

-----------------------------------------------------------------------------
(* The delegated work ends by itself or is stopped by the user. *)
WorkEnds(n, s) ==
  /\ work[n] = "live" /\ s \in WorkEnd
  /\ work' = [work EXCEPT ![n] = s]
  /\ UNCHANGED <<rows, locals, cancels, history>>

(* The user deletes a task: it is cancelled first, and no row of the graph  *)
(* is told.                                                                 *)
DeleteTask(n) ==
  /\ n \notin Remote /\ n \in linked /\ work[n] \in WorkEnd
  /\ work' = [work EXCEPT ![n] = "gone"]
  /\ UNCHANGED <<rows, locals, cancels, history>>

(* The rows and the work survive: the daemon resumes its tasks at boot. *)
Crash ==
  /\ crashes < MaxCrashes
  /\ crashes' = crashes + 1
  /\ tick' = "idle" /\ todo' = {} /\ at' = NoNode /\ seen' = "none" /\ queue' = {}
  /\ cancels' = [n \in AllNodes |-> "none"]
  /\ UNCHANGED <<rows, work, created, done>>

-----------------------------------------------------------------------------
TickStep ==
  \/ ApplyWork \/ DispatchFails \/ EndTick
  \/ \E q \in SUBSET AllNodes : Schedule(q)
  \/ \E n \in AllNodes : ReadWork(n) \/ RemoteSilent(n) \/ Dispatch(n)
  \/ \E k \in 1..2 : CreateWork(k)
  \/ \E s \in WorkEnd \cup {"running"} : LinkWork(s)

Next ==
  \/ CreateRun \/ AppendNodes \/ Tick \/ TickStep \/ Crash
  \/ \E n \in AllNodes :
       \/ CancelHandle(n) \/ CancelWork(n) \/ RecordCancel(n)
       \/ DeleteTask(n)
       \/ \E s \in WorkEnd : WorkEnds(n, s)

Spec == Init /\ [][Next]_vars

(* The timer fires, a tick goes on, an answered cancellation is recorded,   *)
(* work that was delegated ends, and a remote agent that is asked again and *)
(* again answers once.                                                      *)
Fairness ==
  /\ WF_vars(Tick) /\ WF_vars(TickStep)
  /\ \A n \in AllNodes :
       /\ WF_vars(\E s \in WorkEnd : WorkEnds(n, s))
       /\ WF_vars(CancelWork(n) \/ RecordCancel(n))
       /\ SF_vars(ReadWork(n))

FairSpec == Spec /\ Fairness

-----------------------------------------------------------------------------
(* Properties.                                                             *)

TypeOK ==
  /\ run \in {"none", "running"} \cup TerminalRun
  /\ status \in [AllNodes -> {"none", "pending", "ready", "running"} \cup TerminalNode]
  /\ linked \subseteq AllNodes
  /\ work \in [AllNodes -> {"none", "live", "gone"} \cup WorkEnd]
  /\ tick \in {"idle", "reconcile", "poll", "dispatch", "create", "link"}
  /\ todo \subseteq AllNodes /\ at \in AllNodes \cup {NoNode} /\ queue \subseteq AllNodes
  /\ seen \in {"none", "live", "gone"} \cup WorkEnd
  /\ cancels \in [AllNodes -> {"none", "asked", "answered"}]
  /\ created \in [AllNodes -> Nat] /\ done \subseteq AllNodes /\ crashes \in 0..MaxCrashes

(* maxParallel bounds the nodes that are running, though the capacity is    *)
(* computed once and the dispatches are awaited one after the other.        *)
ParallelBound == Cardinality(With("running")) <= MaxParallel

(* Without a crash the child tasks that run are bounded as well: a node     *)
(* gives its slot back only after its task has ended.                       *)
WorkBound ==
  crashes = 0 => Cardinality({n \in AllNodes \ Remote : work[n] = "live"}) <= MaxParallel

(* maxParallel limits what the graph has in hand, as nodes and as tasks. *)
Bounds == ParallelBound /\ WorkBound

(* The lock and the statuses keep two ticks from dispatching a node twice.  *)
(* (A crash between the creation of the task and the write of its id does.) *)
DispatchedOnce == crashes = 0 => \A n \in AllNodes \ Remote : created[n] <= 1

(* Work is delegated only after everything it depends on has completed,     *)
(* whatever crashes and cancellations came between.                         *)
PredecessorsDone ==
  \A n \in AllNodes : created[n] > 0 => Sources(n) \subseteq done

(* A finished run has left no child task running. *)
TerminalIsQuiet ==
  run \in TerminalRun /\ crashes = 0 => \A n \in AllNodes \ Remote : work[n] # "live"

(* A run reported as completed had every node completed, also when a late   *)
(* cancellation has rewritten a node since.                                 *)
CompletedIsComplete ==
  run = "completed" => \A n \in Nodes : n \in done

(* The inductive strengthenings. *)

(* What may still be dispatched has completed sources. *)
Order ==
  /\ \A n \in AllNodes : status[n] = "completed" => n \in done
  /\ \A n \in AllNodes :
       status[n] = "ready" \/ n \in queue \/ created[n] > 0 \/ (tick \in {"create", "link"} /\ at = n)
         => Sources(n) \subseteq done

(* The slots of the run: its running nodes and those being dispatched. *)
Slots == With("running") \cup queue \cup {n \in AllNodes : tick \in {"create", "link"} /\ at = n}
SlotsBound == Cardinality(Slots) <= MaxParallel

(* Where the tick is, and that it has a node to await there. *)
TickShape ==
  /\ tick \in {"poll", "create", "link"} <=> at # NoNode
  /\ at \notin queue
  /\ tick \in {"idle", "reconcile", "poll"} => queue = {}
  /\ tick # "poll" => seen = "none"

(* A node's rows agree on whether it was dispatched. *)
Once ==
  crashes = 0 => \A n \in AllNodes \ Remote :
    /\ created[n] <= 1
    /\ status[n] \in {"none", "pending", "ready"} /\ ~(tick = "link" /\ at = n)
         => created[n] = 0
    /\ n \in queue \/ (tick \in {"create", "link"} /\ at = n) => status[n] = "ready"
    /\ tick = "create" /\ at = n => created[n] = 0
    /\ tick = "link" /\ at = n => created[n] = 1
    /\ created[n] = 0 => work[n] = "none"
    /\ work[n] = "live" => status[n] = "running" \/ (tick = "link" /\ at = n)
    /\ tick = "poll" /\ at = n /\ seen \in WorkEnd => work[n] # "live" /\ created[n] > 0
    /\ status[n] = "running" \/ cancels[n] # "none" \/ n \in todo \cup linked
           \/ (tick = "poll" /\ at = n)
         => created[n] > 0 /\ status[n] \notin {"none", "pending", "ready"}
    /\ cancels[n] = "answered" => work[n] # "live"

(* Only work that was created has a status to be told of, and only nodes    *)
(* that exist get work, whatever crashes came between.                      *)
Handed ==
  /\ \A n \in AllNodes : work[n] # "none" \/ (tick = "link" /\ at = n) => created[n] > 0
  /\ tick = "poll" /\ seen # "none" => created[at] > 0
  /\ \A n \in AllNodes :
       created[n] > 0 \/ n \in queue \/ (tick \in {"create", "link"} /\ at = n)
         => status[n] # "none"

(* The nodes of createRun() exist with the run, and a verdict is final. *)
Verdict ==
  /\ run # "none" => \A n \in Nodes : status[n] # "none"
  /\ run = "none" =>
       linked = {} /\ \A n \in AllNodes : status[n] = "none" /\ cancels[n] = "none"
  /\ run # "running" => tick = "idle"
  /\ run \in TerminalRun /\ crashes = 0 =>
       \A n \in AllNodes \ Remote : status[n] \in TerminalNode \cup {"none", "pending"}

(* A node behind a blocked node: computeReadyNodes() looks for failed and   *)
(* cancelled sources only, so it stays pending and its run stays running.   *)
Stranded == \E e \in Edges : status[e.src] = "blocked" /\ status[e.dst] = "pending"

(* The graph keeps its promise, across crashes, remote agents that are sent *)
(* a task twice, and cancellations recorded after the verdict.              *)
Graph == INSTANCE TaskGraph WITH
  First <- Nodes, Later <- Late, Needs <- Edges,
  given <- {n \in AllNodes : created[n] > 0},
  completed <- done,
  verdict <- IF run \in TerminalRun THEN run ELSE "open"

GraphSpec == Graph!Spec

(* A node that nothing ends: the row of its task was deleted before a tick  *)
(* had seen the task's end, or its remote agent gave no id to ask for.      *)
Lost ==
  \E n \in With("running") : work[n] = "gone" \/ n \notin linked

(* A run ends, through crashes, stale reads, overlapping ticks and agents   *)
(* that are silent for a while, unless it is left for ever with a node that *)
(* is stranded or lost.                                                     *)
RunSettles ==
  []<>(~Stranded /\ ~Lost) => (run = "running" ~> run \in TerminalRun)
=============================================================================
