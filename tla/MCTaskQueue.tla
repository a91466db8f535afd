---------------------------- MODULE MCTaskQueue ----------------------------
(* Two tasks of the user and a sub-task of the first. *)
EXTENDS TaskQueue

MCParent == <<NoTask, NoTask, 1>>
=============================================================================
