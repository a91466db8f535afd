---------------------------- MODULE EventLedger ----------------------------
(***************************************************************************)
(* What the durable inbox of workflow events promises the starters that    *)
(* put events into it: an accepted event is settled once, stays settled    *)
(* for as long as it is remembered, is not executed again meanwhile, and   *)
(* does not stay open for ever where somebody serves the inbox.            *)
(***************************************************************************)
CONSTANT Keys

VARIABLES
  state,     \* of the event with a key: unknown, open or settled
  executed,  \* whether the workflow has been executed for that event
  serving    \* somebody serves the inbox: this is not promised

vars == <<state, executed, serving>>

Init ==
  /\ state = [k \in Keys |-> "unknown"]
  /\ executed = [k \in Keys |-> FALSE]
  /\ serving = FALSE

Accept(k) ==
  /\ state[k] = "unknown"
  /\ state' = [state EXCEPT ![k] = "open"]
  /\ UNCHANGED <<executed, serving>>

(* The execution begins: at once with a short event's end, or before it. *)
Execute(k) ==
  /\ serving
  /\ state[k] = "open" /\ ~executed[k]
  /\ executed' = [executed EXCEPT ![k] = TRUE]
  /\ UNCHANGED <<state, serving>>

Settle(k) ==
  /\ serving
  /\ state[k] = "open"
  /\ state' = [state EXCEPT ![k] = "settled"]
  /\ UNCHANGED <<executed, serving>>

(* The retention clean-up: of the event, and of what its run has left. *)
ForgetEvent(k) ==
  /\ state[k] = "settled"
  /\ state' = [state EXCEPT ![k] = "unknown"]
  /\ UNCHANGED <<executed, serving>>

ForgetRun(k) ==
  /\ executed[k]
  /\ executed' = [executed EXCEPT ![k] = FALSE]
  /\ UNCHANGED <<state, serving>>

(* Somebody begins to serve the inbox, or dies. *)
Serve ==
  /\ serving' = ~serving
  /\ UNCHANGED <<state, executed>>

Next ==
  \/ Serve
  \/ \E k \in Keys : Accept(k) \/ Execute(k) \/ Settle(k) \/ ForgetEvent(k) \/ ForgetRun(k)

Spec == Init /\ [][Next]_vars /\ \A k \in Keys : WF_vars(Settle(k))
=============================================================================
