------------------------------ MODULE TaskGraph ------------------------------
(***************************************************************************)
(* What the delegation graph promises an agent that delegates a graph of   *)
(* tasks to it: a task is handed out only when all it needs has completed, *)
(* only what was handed out completes, and the whole gets one verdict, the *)
(* good one when nothing was left undone. Nothing is handed out, completed *)
(* or judged again after the verdict.                                      *)
(***************************************************************************)
CONSTANTS
  First,   \* the tasks of the graph
  Later,   \* tasks that may be added to it
  Needs    \* records [src, dst]: dst needs src

VARIABLES given, completed, verdict

vars == <<given, completed, verdict>>

All == First \cup Later

Init == given = {} /\ completed = {} /\ verdict = "open"

HandOut(t) ==
  /\ verdict = "open" /\ t \notin given
  /\ \A e \in Needs : e.dst = t => e.src \in completed
  /\ given' = given \cup {t}
  /\ UNCHANGED <<completed, verdict>>

Complete(t) ==
  /\ verdict = "open" /\ t \in given \ completed
  /\ completed' = completed \cup {t}
  /\ UNCHANGED <<given, verdict>>

Succeed ==
  /\ verdict = "open" /\ First \cup given \subseteq completed
  /\ verdict' = "completed"
  /\ UNCHANGED <<given, completed>>

Fail ==
  /\ verdict = "open"
  /\ verdict' = "failed"
  /\ UNCHANGED <<given, completed>>

Next == Succeed \/ Fail \/ \E t \in All : HandOut(t) \/ Complete(t)

Spec == Init /\ [][Next]_vars
=============================================================================
