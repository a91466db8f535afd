-------------------------- MODULE MCPhasePipeline --------------------------
(* Three phases. *)
EXTENDS PhasePipeline

MCPhases == <<"research", "write", "send">>
MCNodes == {"research", "write", "send"}
MCEdges == {[src |-> "research", dst |-> "write"], [src |-> "write", dst |-> "send"]}
=============================================================================
