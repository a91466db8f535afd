--------------------------- MODULE PhasePipeline ---------------------------
(***************************************************************************)
(* The executor's workflow pipeline on top of the delegation graph: the    *)
(* phases of a decomposed prompt are a chain of child tasks, and the       *)
(* executor waits for them one after the other.  A wait that fails throws, *)
(* the exception is swallowed, and the executor goes on to plan and do the *)
(* task itself, with the phases as guidance in its prompt.                 *)
(***************************************************************************)
EXTENDS OrchestrationGraph, Sequences

CONSTANTS Phases   \* the phases in order: the nodes of the graph, a chain

VARIABLES
  client,    \* off, creating, waiting, finished, guidance
  phase,     \* the phase it waits for
  handles,   \* the nodes that had a task id when createRun() returned
  timedOut   \* a wait of 300 s ran out

pipeline == <<client, phase, handles, timedOut>>
pvars == <<vars, pipeline>>

PipelineInit == Init /\ client = "off" /\ phase = 1 /\ handles = {} /\ timedOut = FALSE

StartPipeline ==
  /\ client = "off"
  /\ CreateRun
  /\ client' = "creating"
  /\ UNCHANGED <<phase, handles, timedOut>>

(* createRun() returns with the snapshot taken at the end of its own tick. *)
EndFirstTick ==
  /\ client = "creating"
  /\ EndTick
  /\ client' = "waiting"
  /\ handles' = linked
  /\ UNCHANGED <<phase, timedOut>>

(* waitForHandle() for the next phase. The handle of a node without a task  *)
(* id in that snapshot is the id of the node, which findNodeByHandle() does *)
(* not look for: the answer is "not_found".                                 *)
WaitForPhase ==
  /\ client = "waiting"
  /\ LET n == Phases[phase]
         ends == n \notin handles \/ status[n] \in TerminalNode
         succeeds == n \in handles /\ status[n] = "completed"
     IN  /\ ends
         /\ client' = CASE ~succeeds -> "guidance"
                        [] succeeds /\ phase < Len(Phases) -> "waiting"
                        [] OTHER -> IF run = "completed" THEN "finished" ELSE "guidance"
         /\ phase' = IF succeeds /\ phase < Len(Phases) THEN phase + 1 ELSE phase
  /\ UNCHANGED <<vars, handles, timedOut>>

WaitTimesOut ==
  /\ client = "waiting"
  /\ Phases[phase] \in handles /\ status[Phases[phase]] \notin TerminalNode
  /\ client' = "guidance"
  /\ timedOut' = TRUE
  /\ UNCHANGED <<vars, phase, handles>>

(* The executor dies with the process; the run does not. *)
PipelineCrash ==
  /\ Crash
  /\ client' = IF client = "off" THEN "off" ELSE "dead"
  /\ UNCHANGED <<phase, handles, timedOut>>

GraphStep ==
  /\ \/ Tick
     \/ TickStep /\ (client = "creating" => tick' # "idle")
     \/ \E n \in Nodes, s \in WorkEnd : WorkEnds(n, s)
     \/ \E n \in Nodes : DeleteTask(n)
  /\ UNCHANGED pipeline

PipelineNext ==
  StartPipeline \/ EndFirstTick \/ WaitForPhase \/ WaitTimesOut \/ PipelineCrash \/ GraphStep

PipelineSpec == PipelineInit /\ [][PipelineNext]_pvars /\ Fairness

-----------------------------------------------------------------------------
(* src/shared/types.ts, useWorkflowPipeline: "Execute decomposed workflows  *)
(* as sequential child tasks instead of prompt-only guidance": the executor *)
(* turns to guidance only when a phase failed or took too long.             *)
InsteadOfGuidance ==
  client = "guidance" =>
    timedOut \/ \E n \in Nodes : status[n] \in TerminalNode \ {"completed"}
=============================================================================
