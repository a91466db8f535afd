------------------------ MODULE MCOrchestrationGraph ------------------------
(* A local and a remote node that compete for the one slot, their join, and *)
(* a node behind the join that is appended later.                           *)
EXTENDS OrchestrationGraph

MCNodes == {"local", "remote", "join"}
MCLate == {"last"}
MCEdges ==
  {[src |-> s, dst |-> "join"] : s \in {"local", "remote"}}
    \cup {[src |-> "join", dst |-> "last"]}
=============================================================================
