------------------------- MODULE MCRoutineWorkflow -------------------------
(* Two small workflows for TLC.                                             *)
EXTENDS RoutineWorkflowEngine

Edge(s, p, d) == [src |-> s, port |-> p, dst |-> d]

(* A condition whose branches are an external write and a local for-each,   *)
(* which may both be configured to retry, and a read that joins them.       *)
MCNodes == {"start", "check", "send", "each", "join"}
MCEdges ==
  {Edge("start", "success", "check"),
   Edge("check", "true", "send"),
   Edge("check", "true", "each"), Edge("check", "false", "each"),
   Edge("send", "success", "join"), Edge("each", "always", "join")}
MCOutPorts == [n \in MCNodes |-> IF n = "check" THEN {"true", "false"} ELSE {"success"}]
MCRisk == [n \in MCNodes |->
  CASE n = "send" -> "external_write" [] n = "each" -> "local_write" [] OTHER -> "read"]
MCApprovalMode == [n \in MCNodes |-> "inherit"]
MCOnErrorContinue == {"each"}
MCRetryLimit == [n \in MCNodes |-> IF n \in {"each", "send"} THEN 2 ELSE 1]
MCForeach == {"each"}

(* A local write that may retry, then a data export. *)
ChainNodes == {"start", "store", "export"}
ChainEdges == {Edge("start", "success", "store"), Edge("store", "success", "export")}
ChainOutPorts == [n \in ChainNodes |-> {"success"}]
ChainRisk == [n \in ChainNodes |->
  CASE n = "store" -> "local_write" [] n = "export" -> "data_export" [] OTHER -> "read"]
ChainApprovalMode == [n \in ChainNodes |-> "inherit"]
ChainRetryLimit == [n \in ChainNodes |-> IF n = "store" THEN 2 ELSE 1]
=============================================================================
