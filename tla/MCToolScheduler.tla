-------------------------- MODULE MCToolScheduler --------------------------
(* Two duplicates and another read, a write, an immediate call, the read    *)
(* again, twice, and a call behind an immediate one that stops.             *)
EXTENDS ToolScheduler

MCKind == <<"read", "read", "read", "write", "read", "read", "immediate", "read">>
MCKey == <<1, 1, 2, 0, 1, 1, 0, 1>>
=============================================================================
