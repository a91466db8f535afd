---------------------- MODULE OrchestrationGraph_proofs ----------------------
(* Proofs about the delegation graph, for every graph and every bound.      *)
EXTENDS OrchestrationGraph, FiniteSetTheorems, TLAPS

(* Adding to a counter of a family of counters keeps the family one of      *)
(* natural numbers.                                                         *)
LEMMA CountStep ==
  ASSUME NEW S, NEW f \in [S -> Nat], NEW m, NEW k \in Nat
  PROVE  [f EXCEPT ![m] = @ + k] \in [S -> Nat]
<1>1. CASE m \in S
  BY <1>1
<1>2. CASE m \notin S
  BY <1>2
<1>. QED
  BY <1>1, <1>2

(* The tick awaits a node exactly where it has one. *)
LEMMA TickShapeStep ==
  TypeOK /\ TickShape /\ [Next]_vars => TickShape'
<1>. SUFFICES ASSUME TypeOK, TickShape, [Next]_vars PROVE TickShape'
  OBVIOUS
<1>. USE GraphAssumption
     DEF GraphAssumption, TypeOK, TickShape, WorkEnd, TerminalNode, vars, rows, locals, history
<1>1. CASE CreateRun
  BY <1>1 DEF CreateRun, TickRun
<1>2. CASE AppendNodes
  BY <1>2 DEF AppendNodes, TickRun, Existing
<1>3. CASE Tick
  BY <1>3 DEF Tick, TickRun
<1>4. CASE ApplyWork
  BY <1>4 DEF ApplyWork
<1>5. CASE DispatchFails
  BY <1>5 DEF DispatchFails
<1>6. CASE EndTick
  BY <1>6 DEF EndTick, Existing
<1>7. CASE Crash
  BY <1>7 DEF Crash
<1>8. ASSUME NEW n \in AllNodes, ReadWork(n) PROVE TickShape'
  BY <1>8 DEF ReadWork
<1>9. ASSUME NEW n \in AllNodes, RemoteSilent(n) PROVE TickShape'
  BY <1>9 DEF RemoteSilent
<1>10. ASSUME NEW n \in AllNodes, Dispatch(n) PROVE TickShape'
  BY <1>10 DEF Dispatch
<1>11. ASSUME NEW n \in AllNodes, CancelHandle(n) PROVE TickShape'
  BY <1>11 DEF CancelHandle, Cancellable
<1>12. ASSUME NEW n \in AllNodes, CancelWork(n) PROVE TickShape'
  BY <1>12 DEF CancelWork
<1>13. ASSUME NEW n \in AllNodes, RecordCancel(n) PROVE TickShape'
  BY <1>13 DEF RecordCancel, TickRun
<1>14. ASSUME NEW q \in SUBSET AllNodes, Schedule(q) PROVE TickShape'
  BY <1>14 DEF Schedule, Scheduled, Blocked, Ready
<1>15. ASSUME NEW k \in 1..2, CreateWork(k) PROVE TickShape'
  BY <1>15 DEF CreateWork
<1>16. ASSUME NEW s \in WorkEnd \cup {"running"}, LinkWork(s) PROVE TickShape'
  BY <1>16 DEF LinkWork
<1>17. ASSUME NEW n \in AllNodes, NEW s \in WorkEnd, WorkEnds(n, s) PROVE TickShape'
  BY <1>17 DEF WorkEnds
<1>19. ASSUME NEW n \in AllNodes, DeleteTask(n) PROVE TickShape'
  BY <1>19 DEF DeleteTask
<1>18. CASE UNCHANGED vars
  BY <1>18
<1>. QED
  BY <1>1, <1>2, <1>3, <1>4, <1>5, <1>6, <1>7, <1>8, <1>9, <1>10, <1>11, <1>12, <1>13, <1>14, <1>15, <1>16, <1>17, <1>18, <1>19
  DEF Next, TickStep

(* Every step keeps the types. *)
LEMMA TypeStep ==
  TypeOK /\ TickShape /\ [Next]_vars => TypeOK'
<1>. SUFFICES ASSUME TypeOK, TickShape, [Next]_vars PROVE TypeOK'
  OBVIOUS
<1>. USE GraphAssumption
     DEF GraphAssumption, TypeOK, TickShape, TerminalRun, WorkEnd, TerminalNode, vars, rows, locals, history
<1>1. CASE CreateRun
  BY <1>1 DEF CreateRun, TickRun
<1>2. CASE AppendNodes
  BY <1>2 DEF AppendNodes, TickRun, Existing
<1>3. CASE Tick
  BY <1>3 DEF Tick, TickRun
<1>4. CASE ApplyWork
  BY <1>4 DEF ApplyWork
<1>5. CASE DispatchFails
  BY <1>5 DEF DispatchFails
<1>6. CASE EndTick
  BY <1>6 DEF EndTick, Existing
<1>7. CASE Crash
  BY <1>7 DEF Crash
<1>8. ASSUME NEW n \in AllNodes, ReadWork(n) PROVE TypeOK'
  BY <1>8 DEF ReadWork
<1>9. ASSUME NEW n \in AllNodes, RemoteSilent(n) PROVE TypeOK'
  BY <1>9 DEF RemoteSilent
<1>10. ASSUME NEW n \in AllNodes, Dispatch(n) PROVE TypeOK'
  BY <1>10 DEF Dispatch
<1>11. ASSUME NEW n \in AllNodes, CancelHandle(n) PROVE TypeOK'
  BY <1>11 DEF CancelHandle, Cancellable
<1>12. ASSUME NEW n \in AllNodes, CancelWork(n) PROVE TypeOK'
  BY <1>12 DEF CancelWork
<1>13. ASSUME NEW n \in AllNodes, RecordCancel(n) PROVE TypeOK'
  BY <1>13 DEF RecordCancel, TickRun
<1>14. ASSUME NEW q \in SUBSET AllNodes, Schedule(q) PROVE TypeOK'
  BY <1>14 DEF Schedule, Scheduled, Blocked, Ready
<1>15. ASSUME NEW k \in 1..2, CreateWork(k) PROVE TypeOK'
  <2>1. created' \in [AllNodes -> Nat]
    BY <1>15, CountStep DEF CreateWork
  <2>. QED
    BY <1>15, <2>1 DEF CreateWork
<1>16. ASSUME NEW s \in WorkEnd \cup {"running"}, LinkWork(s) PROVE TypeOK'
  BY <1>16 DEF LinkWork
<1>17. ASSUME NEW n \in AllNodes, NEW s \in WorkEnd, WorkEnds(n, s) PROVE TypeOK'
  BY <1>17 DEF WorkEnds
<1>19. ASSUME NEW n \in AllNodes, DeleteTask(n) PROVE TypeOK'
  BY <1>19 DEF DeleteTask
<1>18. CASE UNCHANGED vars
  BY <1>18
<1>. QED
  BY <1>1, <1>2, <1>3, <1>4, <1>5, <1>6, <1>7, <1>8, <1>9, <1>10, <1>11, <1>12, <1>13, <1>14, <1>15, <1>16, <1>17, <1>18, <1>19
  DEF Next, TickStep

(* The variables keep their types, and the tick its shape. *)
THEOREM TypeCorrect == Spec => [](TypeOK /\ TickShape)
<1>1. Init => TypeOK /\ TickShape
  BY GraphAssumption DEF GraphAssumption, Init, TypeOK, TickShape, WorkEnd, TerminalNode, TerminalRun
<1>. QED
  BY <1>1, TypeStep, TickShapeStep, PTL DEF Spec

(* What was handed out stays behind completed sources. *)
LEMMA OrderStep ==
  TypeOK /\ TickShape /\ Order /\ [Next]_vars => Order'
<1>. SUFFICES ASSUME TypeOK, TickShape, Order, [Next]_vars PROVE Order'
  OBVIOUS
<1>. USE GraphAssumption
     DEF GraphAssumption, TypeOK, TickShape, Order, Sources, WorkEnd, TerminalNode, vars, rows, locals, history
<1>1. CASE CreateRun
  BY <1>1 DEF CreateRun, TickRun
<1>2. CASE AppendNodes
  BY <1>2 DEF AppendNodes, TickRun, Existing
<1>3. CASE Tick
  BY <1>3 DEF Tick, TickRun
<1>4. CASE ApplyWork
  BY <1>4 DEF ApplyWork
<1>5. CASE DispatchFails
  BY <1>5 DEF DispatchFails
<1>6. CASE EndTick
  BY <1>6 DEF EndTick, Existing
<1>7. CASE Crash
  BY <1>7 DEF Crash
<1>8. ASSUME NEW n \in AllNodes, ReadWork(n) PROVE Order'
  BY <1>8 DEF ReadWork
<1>9. ASSUME NEW n \in AllNodes, RemoteSilent(n) PROVE Order'
  BY <1>9 DEF RemoteSilent
<1>10. ASSUME NEW n \in AllNodes, Dispatch(n) PROVE Order'
  BY <1>10 DEF Dispatch
<1>11. ASSUME NEW n \in AllNodes, CancelHandle(n) PROVE Order'
  BY <1>11 DEF CancelHandle, Cancellable
<1>12. ASSUME NEW n \in AllNodes, CancelWork(n) PROVE Order'
  BY <1>12 DEF CancelWork
<1>13. ASSUME NEW n \in AllNodes, RecordCancel(n) PROVE Order'
  BY <1>13 DEF RecordCancel, TickRun
<1>14. ASSUME NEW q \in SUBSET AllNodes, Schedule(q) PROVE Order'
  <2>. SUFFICES ASSUME NEW m \in AllNodes,
                       status'[m] = "ready" \/ m \in queue' \/ created[m] > 0
                PROVE  Sources(m) \subseteq done
    BY <1>14 DEF Schedule, Scheduled, Blocked, Ready
  <2>1. CASE created[m] > 0
    BY <2>1
  <2>2. CASE status'[m] = "ready" \/ m \in queue'
    <3>1. status[m] = "ready" \/ Ready(m)
      BY <1>14, <2>2 DEF Schedule, Scheduled
    <3>2. Sources(m) \subseteq AllNodes
      BY DEF GraphAssumption
    <3>. QED
      BY <3>1, <3>2 DEF Ready
  <2>. QED
    BY <2>1, <2>2
<1>15. ASSUME NEW k \in 1..2, CreateWork(k) PROVE Order'
  BY <1>15 DEF CreateWork
<1>16. ASSUME NEW s \in WorkEnd \cup {"running"}, LinkWork(s) PROVE Order'
  BY <1>16 DEF LinkWork
<1>17. ASSUME NEW n \in AllNodes, NEW s \in WorkEnd, WorkEnds(n, s) PROVE Order'
  BY <1>17 DEF WorkEnds
<1>19. ASSUME NEW n \in AllNodes, DeleteTask(n) PROVE Order'
  BY <1>19 DEF DeleteTask
<1>18. CASE UNCHANGED vars
  BY <1>18
<1>. QED
  BY <1>1, <1>2, <1>3, <1>4, <1>5, <1>6, <1>7, <1>8, <1>9, <1>10, <1>11, <1>12, <1>13, <1>14, <1>15, <1>16, <1>17, <1>18, <1>19
  DEF Next, TickStep

(* No task is created for a node before everything it depends on has        *)
(* completed, for every graph and through every crash and cancellation.     *)
THEOREM PredecessorsAlways == Spec => []PredecessorsDone
<1>1. Init => Order
  BY GraphAssumption DEF GraphAssumption, Init, Order
<1>2. Order => PredecessorsDone
  BY DEF Order, PredecessorsDone
<1>. QED
  BY <1>1, <1>2, TypeCorrect, OrderStep, PTL DEF Spec

(* Only the scheduling takes slots. *)
LEMMA SlotsShrink ==
  TypeOK /\ TickShape /\ [Next]_vars /\ ~(\E q \in SUBSET AllNodes : Schedule(q)) => Slots' \subseteq Slots
<1>. SUFFICES ASSUME TypeOK, TickShape, [Next]_vars, ~(\E q \in SUBSET AllNodes : Schedule(q)) PROVE Slots' \subseteq Slots
  OBVIOUS
<1>. USE GraphAssumption
     DEF GraphAssumption, TypeOK, TickShape, Slots, With, WorkEnd, TerminalNode, vars, rows, locals, history
<1>1. CASE CreateRun
  BY <1>1 DEF CreateRun, TickRun
<1>2. CASE AppendNodes
  BY <1>2 DEF AppendNodes, TickRun, Existing
<1>3. CASE Tick
  BY <1>3 DEF Tick, TickRun
<1>4. CASE ApplyWork
  BY <1>4 DEF ApplyWork
<1>5. CASE DispatchFails
  BY <1>5 DEF DispatchFails
<1>6. CASE EndTick
  BY <1>6 DEF EndTick, Existing
<1>7. CASE Crash
  BY <1>7 DEF Crash
<1>8. ASSUME NEW n \in AllNodes, ReadWork(n) PROVE Slots' \subseteq Slots
  BY <1>8 DEF ReadWork
<1>9. ASSUME NEW n \in AllNodes, RemoteSilent(n) PROVE Slots' \subseteq Slots
  BY <1>9 DEF RemoteSilent
<1>10. ASSUME NEW n \in AllNodes, Dispatch(n) PROVE Slots' \subseteq Slots
  BY <1>10 DEF Dispatch
<1>11. ASSUME NEW n \in AllNodes, CancelHandle(n) PROVE Slots' \subseteq Slots
  BY <1>11 DEF CancelHandle, Cancellable
<1>12. ASSUME NEW n \in AllNodes, CancelWork(n) PROVE Slots' \subseteq Slots
  BY <1>12 DEF CancelWork
<1>13. ASSUME NEW n \in AllNodes, RecordCancel(n) PROVE Slots' \subseteq Slots
  BY <1>13 DEF RecordCancel, TickRun
<1>14. ASSUME NEW q \in SUBSET AllNodes, Schedule(q) PROVE Slots' \subseteq Slots
  BY <1>14 DEF Schedule, Scheduled, Blocked, Ready
<1>15. ASSUME NEW k \in 1..2, CreateWork(k) PROVE Slots' \subseteq Slots
  BY <1>15 DEF CreateWork
<1>16. ASSUME NEW s \in WorkEnd \cup {"running"}, LinkWork(s) PROVE Slots' \subseteq Slots
  BY <1>16 DEF LinkWork
<1>17. ASSUME NEW n \in AllNodes, NEW s \in WorkEnd, WorkEnds(n, s) PROVE Slots' \subseteq Slots
  BY <1>17 DEF WorkEnds
<1>19. ASSUME NEW n \in AllNodes, DeleteTask(n) PROVE Slots' \subseteq Slots
  BY <1>19 DEF DeleteTask
<1>18. CASE UNCHANGED vars
  BY <1>18
<1>. QED
  BY <1>1, <1>2, <1>3, <1>4, <1>5, <1>6, <1>7, <1>8, <1>9, <1>10, <1>11, <1>12, <1>13, <1>14, <1>15, <1>16, <1>17, <1>18, <1>19
  DEF Next, TickStep

(* The capacity is what the running nodes leave, so the slots taken by the  *)
(* scheduling fit beside them.                                              *)
LEMMA SlotsStep ==
  TypeOK /\ TickShape /\ SlotsBound /\ [Next]_vars => SlotsBound'
<1>. SUFFICES ASSUME TypeOK, TickShape, SlotsBound, [Next]_vars PROVE SlotsBound'
  OBVIOUS
<1>0. IsFiniteSet(AllNodes) /\ MaxParallel \in Nat
  BY GraphAssumption DEF GraphAssumption
<1>1. ASSUME NEW q \in SUBSET AllNodes, Schedule(q) PROVE SlotsBound'
  <2>1. Slots = With("running") /\ Slots' = With("running") \cup q /\ With("running") \cap q = {}
    BY <1>1 DEF Schedule, Scheduled, Slots, With, TickShape, TypeOK, Blocked, Ready
  <2>2. IsFiniteSet(With("running")) /\ IsFiniteSet(q)
    BY <1>0, FS_Subset DEF With
  <2>3. Cardinality(With("running") \cup q) = Cardinality(With("running")) + Cardinality(q)
    <3>1. Cardinality(With("running") \cup q)
            = Cardinality(With("running")) + Cardinality(q) - Cardinality(With("running") \cap q)
      BY <2>2, FS_Union
    <3>2. Cardinality(With("running") \cap q) = 0
      BY <2>1, FS_EmptySet
    <3>3. Cardinality(With("running")) \in Nat /\ Cardinality(q) \in Nat
      BY <2>2, FS_CardinalityType
    <3>. QED
      BY <3>1, <3>2, <3>3
  <2>4. CASE q = {}
    BY <2>1, <2>4 DEF SlotsBound
  <2>5. CASE Cardinality(With("running")) + Cardinality(q) <= MaxParallel
    BY <2>1, <2>3, <2>5 DEF SlotsBound
  <2>. QED
    BY <1>1, <2>4, <2>5 DEF Schedule
<1>2. ASSUME ~(\E q \in SUBSET AllNodes : Schedule(q)) PROVE SlotsBound'
  <2>1. Slots' \subseteq Slots
    BY <1>2, SlotsShrink
  <2>2. IsFiniteSet(Slots)
    BY <1>0, FS_Subset DEF Slots, With, TypeOK
  <2>3. Cardinality(Slots') <= Cardinality(Slots)
    BY <2>1, <2>2, FS_Subset
  <2>4. Cardinality(Slots) \in Nat /\ Cardinality(Slots') \in Nat
    BY <2>1, <2>2, FS_Subset, FS_CardinalityType
  <2>. QED
    BY <1>0, <2>3, <2>4 DEF SlotsBound
<1>. QED
  BY <1>1, <1>2

(* No interleaving of ticks, cancellations and crashes lets a run have more *)
(* than maxParallel running nodes.                                          *)
THEOREM ParallelAlways == Spec => []ParallelBound
<1>0. IsFiniteSet(AllNodes) /\ MaxParallel \in Nat
  BY GraphAssumption DEF GraphAssumption
<1>1. Init => SlotsBound
  <2>. SUFFICES ASSUME Init PROVE SlotsBound
    OBVIOUS
  <2>1. Slots = {}
    BY DEF Init, Slots, With
  <2>. QED
    BY <1>0, <2>1, FS_EmptySet DEF SlotsBound
<1>2. TypeOK /\ SlotsBound => ParallelBound
  <2>. SUFFICES ASSUME TypeOK, SlotsBound PROVE ParallelBound
    OBVIOUS
  <2>1. IsFiniteSet(Slots) /\ With("running") \subseteq Slots
    BY <1>0, FS_Subset DEF Slots, With, TypeOK
  <2>2. Cardinality(With("running")) <= Cardinality(Slots)
    BY <2>1, FS_Subset
  <2>3. Cardinality(Slots) \in Nat /\ Cardinality(With("running")) \in Nat
    BY <2>1, FS_Subset, FS_CardinalityType
  <2>. QED
    BY <1>0, <2>2, <2>3 DEF SlotsBound, ParallelBound
<1>. QED
  BY <1>1, <1>2, TypeCorrect, SlotsStep, PTL DEF Spec

(* A verdict is given once, to a run whose nodes have all ended. *)
LEMMA VerdictStep ==
  TypeOK /\ TickShape /\ Verdict /\ [Next]_vars => Verdict'
<1>. SUFFICES ASSUME TypeOK, TickShape, Verdict, [Next]_vars PROVE Verdict'
  OBVIOUS
<1>. USE GraphAssumption
     DEF GraphAssumption, TypeOK, TickShape, Verdict, AllNodes, TerminalRun, Existing, WorkEnd, TerminalNode, vars, rows, locals, history
<1>1. CASE CreateRun
  <2>1. run' = "running" /\ \A n \in Nodes : status'[n] # "none"
    BY <1>1 DEF CreateRun
  <2>. QED
    BY <2>1
<1>2. CASE AppendNodes
  <2>1. run' = run /\ (tick' = tick \/ run' = "running") /\ linked' = linked /\ cancels' = cancels
        /\ run # "none" /\ crashes' = crashes
    BY <1>2 DEF AppendNodes, TickRun
  <2>2. \A n \in AllNodes : status'[n] = status[n] \/ status'[n] = "pending"
    BY <1>2 DEF AppendNodes
  <2>. QED
    BY <2>1, <2>2
<1>3. CASE Tick
  <2>1. run' = run /\ run = "running" /\ status' = status
    BY <1>3 DEF Tick
  <2>. QED
    BY <2>1
<1>4. CASE ApplyWork
  BY <1>4 DEF ApplyWork
<1>5. CASE DispatchFails
  BY <1>5 DEF DispatchFails
<1>6. CASE EndTick
  BY <1>6 DEF EndTick, Existing
<1>7. CASE Crash
  BY <1>7 DEF Crash
<1>8. ASSUME NEW n \in AllNodes, ReadWork(n) PROVE Verdict'
  BY <1>8 DEF ReadWork
<1>9. ASSUME NEW n \in AllNodes, RemoteSilent(n) PROVE Verdict'
  BY <1>9 DEF RemoteSilent
<1>10. ASSUME NEW n \in AllNodes, Dispatch(n) PROVE Verdict'
  BY <1>10 DEF Dispatch
<1>11. ASSUME NEW n \in AllNodes, CancelHandle(n) PROVE Verdict'
  BY <1>11 DEF CancelHandle, Cancellable
<1>12. ASSUME NEW n \in AllNodes, CancelWork(n) PROVE Verdict'
  BY <1>12 DEF CancelWork
<1>13. ASSUME NEW n \in AllNodes, RecordCancel(n) PROVE Verdict'
  <2>1. run' = run /\ (tick' = tick \/ run' = "running") /\ linked' = linked /\ run # "none"
        /\ crashes' = crashes
    BY <1>13 DEF RecordCancel, TickRun
  <2>2. \A m \in AllNodes : status'[m] = status[m] \/ status'[m] = "cancelled"
    BY <1>13 DEF RecordCancel
  <2>. QED
    BY <2>1, <2>2
<1>14. ASSUME NEW q \in SUBSET AllNodes, Schedule(q) PROVE Verdict'
  BY <1>14 DEF Schedule, Scheduled, Blocked, Ready
<1>15. ASSUME NEW k \in 1..2, CreateWork(k) PROVE Verdict'
  BY <1>15 DEF CreateWork
<1>16. ASSUME NEW s \in WorkEnd \cup {"running"}, LinkWork(s) PROVE Verdict'
  BY <1>16 DEF LinkWork
<1>17. ASSUME NEW n \in AllNodes, NEW s \in WorkEnd, WorkEnds(n, s) PROVE Verdict'
  BY <1>17 DEF WorkEnds
<1>19. ASSUME NEW n \in AllNodes, DeleteTask(n) PROVE Verdict'
  BY <1>19 DEF DeleteTask
<1>18. CASE UNCHANGED vars
  BY <1>18
<1>. QED
  BY <1>1, <1>2, <1>3, <1>4, <1>5, <1>6, <1>7, <1>8, <1>9, <1>10, <1>11, <1>12, <1>13, <1>14, <1>15, <1>16, <1>17, <1>18, <1>19
  DEF Next, TickStep

(* Without a crash a child task belongs to one dispatch of one node. *)
LEMMA OnceStep ==
  TypeOK /\ TickShape /\ Verdict /\ Once /\ [Next]_vars => Once'
<1>. SUFFICES ASSUME TypeOK, TickShape, Verdict, Once, [Next]_vars PROVE Once'
  OBVIOUS
<1>. USE GraphAssumption
     DEF GraphAssumption, TypeOK, TickShape, Once, WorkEnd, TerminalNode, vars, rows, locals, history
<1>1. CASE CreateRun
  <2>1. /\ \A m \in AllNodes : status[m] = "none" /\ status'[m] \in {"none", "pending"} /\ cancels[m] = "none"
        /\ tick = "idle" /\ linked = {}
        /\ UNCHANGED <<linked, work, cancels, created, crashes, at, seen, queue>>
    BY <1>1 DEF CreateRun, TickRun, Verdict
  <2>2. (tick' = tick /\ todo' = todo)
        \/ (tick' = "reconcile" /\ tick = "idle" /\ todo' = {m \in AllNodes : status'[m] = "running"})
    BY <1>1 DEF CreateRun, TickRun
  <2>3. \A m \in AllNodes : m \in todo' => m \in todo \/ status[m] = "running"
    BY <2>1, <2>2
  <2>4. SUFFICES ASSUME crashes = 0, NEW m \in AllNodes \ Remote
               PROVE  created[m] = 0 /\ work[m] = "none" /\ m \notin todo' /\ m \notin queue
                      /\ tick' \notin {"poll", "create", "link"}
    BY <2>1
  <2>. QED
    BY <2>1, <2>2, <2>3, <2>4
<1>2. CASE AppendNodes
  <2>1. /\ \A m \in AllNodes : status'[m] = status[m] \/ (status[m] = "none" /\ status'[m] = "pending")
        /\ UNCHANGED <<linked, work, cancels, created, crashes, at, seen, queue>>
    BY <1>2 DEF AppendNodes, Existing, TickRun
  <2>2. (tick' = tick /\ todo' = todo)
        \/ (tick' = "reconcile" /\ tick = "idle" /\ todo' = {m \in AllNodes : status'[m] = "running"})
    BY <1>2 DEF AppendNodes, TickRun
  <2>3. \A m \in AllNodes : m \in todo' => m \in todo \/ status[m] = "running"
    BY <2>1, <2>2
  <2>. QED
    BY <1>2, <2>1, <2>2, <2>3
<1>3. CASE Tick
  <2>1. UNCHANGED <<status, linked, work, cancels, created, crashes, at, seen, queue>>
    BY <1>3 DEF Tick, TickRun
  <2>2. (tick' = tick /\ todo' = todo)
        \/ (tick' = "reconcile" /\ tick = "idle" /\ todo' = {m \in AllNodes : status'[m] = "running"})
    BY <1>3 DEF Tick, TickRun
  <2>3. \A m \in AllNodes : m \in todo' => m \in todo \/ status[m] = "running"
    BY <2>1, <2>2
  <2>. QED
    BY <1>3, <2>1, <2>2, <2>3
<1>4. CASE ApplyWork
  BY <1>4 DEF ApplyWork
<1>5. CASE DispatchFails
  BY <1>5 DEF DispatchFails
<1>6. CASE EndTick
  BY <1>6 DEF EndTick, Existing
<1>7. CASE Crash
  BY <1>7 DEF Crash
<1>8. ASSUME NEW n \in AllNodes, ReadWork(n) PROVE Once'
  BY <1>8 DEF ReadWork
<1>9. ASSUME NEW n \in AllNodes, RemoteSilent(n) PROVE Once'
  BY <1>9 DEF RemoteSilent
<1>10. ASSUME NEW n \in AllNodes, Dispatch(n) PROVE Once'
  BY <1>10 DEF Dispatch
<1>11. ASSUME NEW n \in AllNodes, CancelHandle(n) PROVE Once'
  BY <1>11 DEF CancelHandle, Cancellable
<1>12. ASSUME NEW n \in AllNodes, CancelWork(n) PROVE Once'
  BY <1>12 DEF CancelWork
<1>13. ASSUME NEW n \in AllNodes, RecordCancel(n) PROVE Once'
  <2>1. cancels[n] = "answered" /\ status' = [status EXCEPT ![n] = "cancelled"]
        /\ cancels' = [cancels EXCEPT ![n] = "none"]
        /\ UNCHANGED <<linked, work, created, crashes, at, seen, queue>>
    BY <1>13 DEF RecordCancel, TickRun
  <2>2. (tick' = tick /\ todo' = todo)
        \/ (tick' = "reconcile" /\ tick = "idle" /\ todo' = {m \in AllNodes : status'[m] = "running"})
    BY <1>13 DEF RecordCancel, TickRun
  <2>3. \A m \in AllNodes : m \in todo' => m \in todo \/ status[m] = "running"
    BY <2>1, <2>2
  <2>4. ASSUME crashes = 0, n \notin Remote
        PROVE  /\ created[n] = 1 /\ work[n] # "live" /\ n \notin queue
               /\ ~(tick \in {"create", "link"} /\ at = n)
    BY <2>1, <2>4
  <2>. QED
    BY <2>1, <2>2, <2>3, <2>4
<1>14. ASSUME NEW q \in SUBSET AllNodes, Schedule(q) PROVE Once'
  BY <1>14 DEF Schedule, Scheduled, Blocked, Ready
<1>15. ASSUME NEW k \in 1..2, CreateWork(k) PROVE Once'
  BY <1>15 DEF CreateWork
<1>16. ASSUME NEW s \in WorkEnd \cup {"running"}, LinkWork(s) PROVE Once'
  BY <1>16 DEF LinkWork
<1>17. ASSUME NEW n \in AllNodes, NEW s \in WorkEnd, WorkEnds(n, s) PROVE Once'
  BY <1>17 DEF WorkEnds
<1>19. ASSUME NEW n \in AllNodes, DeleteTask(n) PROVE Once'
  BY <1>19 DEF DeleteTask
<1>18. CASE UNCHANGED vars
  BY <1>18
<1>. QED
  BY <1>1, <1>2, <1>3, <1>4, <1>5, <1>6, <1>7, <1>8, <1>9, <1>10, <1>11, <1>12, <1>13, <1>14, <1>15, <1>16, <1>17, <1>18, <1>19
  DEF Next, TickStep

(* Two ticks never create a child task for the same node, for every graph   *)
(* and every interleaving in which the process lives.                       *)
THEOREM OnceAlways == Spec => []DispatchedOnce
<1>1. Init => Once /\ Verdict
  BY GraphAssumption DEF GraphAssumption, Init, Once, Verdict, WorkEnd, TerminalRun
<1>2. Once => DispatchedOnce
  BY DEF Once, DispatchedOnce
<1>. QED
  BY <1>1, <1>2, TypeCorrect, VerdictStep, OnceStep, PTL DEF Spec

(* While the process lives, the child tasks that run are the slots' tasks.  *)
LEMMA LiveInSlots ==
  ASSUME TypeOK, Once, crashes = 0
  PROVE  {n \in AllNodes \ Remote : work[n] = "live"} \subseteq Slots
BY DEF Once, Slots, With

(* While the process lives, maxParallel bounds the child tasks themselves,  *)
(* not only the rows that say running.                                      *)
THEOREM WorkAlways == Spec => []WorkBound
<1>0. IsFiniteSet(AllNodes) /\ MaxParallel \in Nat
  BY GraphAssumption DEF GraphAssumption
<1>1. Init => Once /\ Verdict /\ SlotsBound
  <2>. SUFFICES ASSUME Init PROVE Once /\ Verdict /\ SlotsBound
    OBVIOUS
  <2>1. Slots = {}
    BY DEF Init, Slots, With
  <2>2. SlotsBound
    BY <1>0, <2>1, FS_EmptySet DEF SlotsBound
  <2>3. Once /\ Verdict
    BY GraphAssumption DEF GraphAssumption, Init, Once, Verdict, WorkEnd, TerminalRun
  <2>. QED
    BY <2>2, <2>3
<1>2. TypeOK /\ Once /\ SlotsBound => WorkBound
  <2>. SUFFICES ASSUME TypeOK, Once, SlotsBound, crashes = 0
                PROVE  Cardinality({n \in AllNodes \ Remote : work[n] = "live"}) <= MaxParallel
    BY DEF WorkBound
  <2>. DEFINE Live == {n \in AllNodes \ Remote : work[n] = "live"}
  <2>1. Live \subseteq Slots
    BY LiveInSlots
  <2>2. IsFiniteSet(Slots)
    BY <1>0, FS_Subset DEF Slots, With, TypeOK
  <2>. HIDE DEF Live
  <2>3. Cardinality(Live) <= Cardinality(Slots) /\ IsFiniteSet(Live)
    BY <2>1, <2>2, FS_Subset
  <2>4. Cardinality(Slots) \in Nat /\ Cardinality(Live) \in Nat
    BY <2>2, <2>3, FS_CardinalityType
  <2>5. Cardinality(Live) <= MaxParallel
    BY <1>0, <2>3, <2>4 DEF SlotsBound
  <2>. QED
    BY <2>5 DEF Live
<1>. QED
  BY <1>1, <1>2, TypeCorrect, VerdictStep, OnceStep, SlotsStep, PTL DEF Spec

(* maxParallel limits the running nodes in every state, and the running     *)
(* child tasks as long as the process lives.                                *)
THEOREM BoundsAlways == Spec => []Bounds
<1>1. ParallelBound /\ WorkBound => Bounds
  BY DEF Bounds
<1>. QED
  BY <1>1, ParallelAlways, WorkAlways, PTL

(* A run that has its verdict leaves no child task behind.                  *)
THEOREM QuietAlways == Spec => []TerminalIsQuiet
<1>1. Init => Once /\ Verdict
  BY GraphAssumption DEF GraphAssumption, Init, Once, Verdict, WorkEnd, TerminalRun
<1>2. Once /\ Verdict => TerminalIsQuiet
  BY DEF Once, Verdict, TerminalIsQuiet, TerminalNode, WorkEnd, TerminalRun
<1>. QED
  BY <1>1, <1>2, TypeCorrect, OnceStep, VerdictStep, PTL DEF Spec

(* The nodes that have been completed stay so in the history, and a run is  *)
(* only completed by the end of a tick.                                     *)
LEMMA CompleteStep ==
  TypeOK /\ Order /\ Verdict /\ CompletedIsComplete /\ [Next]_vars => CompletedIsComplete'
<1>. SUFFICES ASSUME TypeOK, Order, Verdict, CompletedIsComplete, [Next]_vars
              PROVE  CompletedIsComplete'
  OBVIOUS
<1>1. CASE EndTick
  <2>. SUFFICES ASSUME run' = "completed", NEW n \in Nodes PROVE n \in done
    BY <1>1 DEF EndTick, CompletedIsComplete, history
  <2>1. CASE run = "completed"
    BY <2>1 DEF CompletedIsComplete
  <2>2. CASE run # "completed"
    <3>1. \A m \in Existing : status[m] = "completed"
      BY <1>1, <2>2 DEF EndTick
    <3>2. run = "running"
      BY <1>1, <2>2 DEF EndTick, Verdict
    <3>3. n \in Existing
      BY <3>2 DEF Verdict, Existing, AllNodes
    <3>. QED
      BY <3>1, <3>3 DEF Order, Existing
  <2>. QED
    BY <2>1, <2>2
<1>2. CASE ~EndTick
  <2>1. done \subseteq done'
    BY <1>2 DEF Next, TickStep, CreateRun, AppendNodes, Tick, Crash, ApplyWork, DispatchFails,
       Schedule, ReadWork, RemoteSilent, Dispatch, CreateWork, LinkWork, CancelHandle,
       CancelWork, RecordCancel, WorkEnds, DeleteTask, vars, rows, locals, history
  <2>2. run' = run \/ run' = "running"
    BY <1>2 DEF Next, TickStep, CreateRun, AppendNodes, Tick, Crash, ApplyWork, DispatchFails,
       Schedule, ReadWork, RemoteSilent, Dispatch, CreateWork, LinkWork, CancelHandle,
       CancelWork, RecordCancel, WorkEnds, DeleteTask, vars, rows, locals, history
  <2>. QED
    BY <2>1, <2>2 DEF CompletedIsComplete
<1>. QED
  BY <1>1, <1>2

(* A run reported as completed has completed every node of createRun(),     *)
(* whatever a late cancellation writes over one of them.                    *)
THEOREM CompleteAlways == Spec => []CompletedIsComplete
<1>1. Init => Order /\ Verdict /\ CompletedIsComplete
  BY GraphAssumption DEF GraphAssumption, Init, Order, Verdict, CompletedIsComplete, TerminalRun
<1>. QED
  BY <1>1, TypeCorrect, OrderStep, VerdictStep, CompleteStep, PTL DEF Spec

(* Only created work has a status to be told of, and a node keeps its row,  *)
(* so what was handed out is among the nodes a verdict looks at.            *)
LEMMA HandedStep ==
  TypeOK /\ TickShape /\ Verdict /\ Handed /\ [Next]_vars => Handed'
<1>. SUFFICES ASSUME TypeOK, TickShape, Verdict, Handed, [Next]_vars PROVE Handed'
  OBVIOUS
<1>. USE GraphAssumption
     DEF GraphAssumption, TypeOK, TickShape, Handed, WorkEnd, TerminalNode, vars, rows, locals, history
<1>1. CASE CreateRun
  <2>1. /\ \A n \in AllNodes : status[n] = "none"
        /\ tick = "idle" /\ tick' \in {"idle", "reconcile"}
        /\ UNCHANGED <<work, at, queue, created>>
    BY <1>1 DEF CreateRun, TickRun, Verdict
  <2>2. \A n \in AllNodes : ~(created[n] > 0) /\ n \notin queue
    BY <2>1
  <2>. QED
    BY <2>1, <2>2
<1>2. CASE AppendNodes
  BY <1>2 DEF AppendNodes, TickRun, Existing
<1>3. CASE Tick
  BY <1>3 DEF Tick, TickRun
<1>4. CASE ApplyWork
  BY <1>4 DEF ApplyWork
<1>5. CASE DispatchFails
  BY <1>5 DEF DispatchFails
<1>6. CASE EndTick
  BY <1>6 DEF EndTick, Existing
<1>7. CASE Crash
  BY <1>7 DEF Crash
<1>8. ASSUME NEW n \in AllNodes, ReadWork(n) PROVE Handed'
  BY <1>8 DEF ReadWork
<1>9. ASSUME NEW n \in AllNodes, RemoteSilent(n) PROVE Handed'
  BY <1>9 DEF RemoteSilent
<1>10. ASSUME NEW n \in AllNodes, Dispatch(n) PROVE Handed'
  BY <1>10 DEF Dispatch
<1>11. ASSUME NEW n \in AllNodes, CancelHandle(n) PROVE Handed'
  BY <1>11 DEF CancelHandle, Cancellable
<1>12. ASSUME NEW n \in AllNodes, CancelWork(n) PROVE Handed'
  BY <1>12 DEF CancelWork
<1>13. ASSUME NEW n \in AllNodes, RecordCancel(n) PROVE Handed'
  BY <1>13 DEF RecordCancel, TickRun
<1>14. ASSUME NEW q \in SUBSET AllNodes, Schedule(q) PROVE Handed'
  BY <1>14 DEF Schedule, Scheduled, Blocked, Ready
<1>15. ASSUME NEW k \in 1..2, CreateWork(k) PROVE Handed'
  BY <1>15 DEF CreateWork
<1>16. ASSUME NEW s \in WorkEnd \cup {"running"}, LinkWork(s) PROVE Handed'
  BY <1>16 DEF LinkWork
<1>17. ASSUME NEW n \in AllNodes, NEW s \in WorkEnd, WorkEnds(n, s) PROVE Handed'
  BY <1>17 DEF WorkEnds
<1>19. ASSUME NEW n \in AllNodes, DeleteTask(n) PROVE Handed'
  BY <1>19 DEF DeleteTask
<1>18. CASE UNCHANGED vars
  BY <1>18
<1>. QED
  BY <1>1, <1>2, <1>3, <1>4, <1>5, <1>6, <1>7, <1>8, <1>9, <1>10, <1>11, <1>12, <1>13, <1>14, <1>15, <1>16, <1>17, <1>18, <1>19
  DEF Next, TickStep

(* A step about one task of the graph is a step of the promise. *)
LEMMA TaskMaps ==
  ASSUME NEW t \in AllNodes, Graph!HandOut(t) \/ Graph!Complete(t)
  PROVE  Graph!Next
BY DEF AllNodes, Graph!All, Graph!Next

(* Every step of the graph is a step of its promise, or none: a task is     *)
(* handed out when the first work is created for its node, completed when   *)
(* the tick writes that its work has completed, and judged by the end of a  *)
(* tick.                                                                    *)
LEMMA GraphStep ==
  TypeOK /\ TickShape /\ Order /\ Verdict /\ Handed /\ [Next]_vars
    => [Graph!Next]_(Graph!vars)
<1>. SUFFICES ASSUME TypeOK, TickShape, Order, Verdict, Handed, [Next]_vars
              PROVE  Graph!Next \/ UNCHANGED Graph!vars
  OBVIOUS
<1>. USE GraphAssumption
     DEF GraphAssumption, TypeOK, TickShape, TerminalRun, WorkEnd, TerminalNode, vars, rows, locals, history,
         Graph!vars
<1>1. CASE CreateRun
  BY <1>1 DEF CreateRun, TickRun
<1>2. CASE AppendNodes
  BY <1>2 DEF AppendNodes, TickRun, Existing
<1>3. CASE Tick
  BY <1>3 DEF Tick, TickRun
<1>4. CASE ApplyWork
  <2>1. CASE seen = "completed" /\ at \notin done
    <3>1. at \in AllNodes /\ created[at] > 0 /\ run = "running"
      BY <1>4, <2>1 DEF ApplyWork, Handed, Verdict
    <3>2. /\ done' = done \cup {at} /\ at \in {n \in AllNodes : created[n] > 0} \ done
          /\ UNCHANGED <<created, run>>
      BY <1>4, <2>1, <3>1 DEF ApplyWork
    <3>3. Graph!Complete(at)
      BY <3>1, <3>2 DEF Graph!Complete
    <3>. QED
      BY <3>1, <3>3, TaskMaps
  <2>2. CASE ~(seen = "completed" /\ at \notin done)
    BY <1>4, <2>2 DEF ApplyWork
  <2>. QED
    BY <2>1, <2>2
<1>5. CASE DispatchFails
  BY <1>5 DEF DispatchFails
<1>6. CASE EndTick
  <2>1. run = "running" /\ UNCHANGED <<created, done>>
    BY <1>6 DEF EndTick, Verdict
  <2>2. CASE run' = "completed"
    <3>1. \A n \in Existing : status[n] = "completed"
      BY <1>6, <2>1, <2>2 DEF EndTick
    <3>2. Nodes \cup {n \in AllNodes : created[n] > 0} \subseteq done
      <4>1. Nodes \subseteq Existing
        BY <2>1 DEF Existing, Verdict, AllNodes
      <4>2. {n \in AllNodes : created[n] > 0} \subseteq Existing
        BY DEF Existing, Handed
      <4>3. Existing \subseteq done
        BY <3>1 DEF Existing, Order
      <4>. QED
        BY <4>1, <4>2, <4>3
    <3>3. Graph!Succeed
      BY <2>1, <2>2, <3>2 DEF Graph!Succeed
    <3>. QED
      BY <3>3 DEF Graph!Next
  <2>3. CASE run' = "failed"
    <3>1. Graph!Fail
      BY <2>1, <2>3 DEF Graph!Fail
    <3>. QED
      BY <3>1 DEF Graph!Next
  <2>4. CASE run' = run
    BY <2>1, <2>4
  <2>. QED
    BY <1>6, <2>2, <2>3, <2>4 DEF EndTick
<1>7. CASE Crash
  BY <1>7 DEF Crash
<1>8. ASSUME NEW n \in AllNodes, ReadWork(n) PROVE Graph!Next \/ UNCHANGED Graph!vars
  BY <1>8 DEF ReadWork
<1>9. ASSUME NEW n \in AllNodes, RemoteSilent(n) PROVE Graph!Next \/ UNCHANGED Graph!vars
  BY <1>9 DEF RemoteSilent
<1>10. ASSUME NEW n \in AllNodes, Dispatch(n) PROVE Graph!Next \/ UNCHANGED Graph!vars
  BY <1>10 DEF Dispatch
<1>11. ASSUME NEW n \in AllNodes, CancelHandle(n) PROVE Graph!Next \/ UNCHANGED Graph!vars
  BY <1>11 DEF CancelHandle, Cancellable
<1>12. ASSUME NEW n \in AllNodes, CancelWork(n) PROVE Graph!Next \/ UNCHANGED Graph!vars
  BY <1>12 DEF CancelWork
<1>13. ASSUME NEW n \in AllNodes, RecordCancel(n) PROVE Graph!Next \/ UNCHANGED Graph!vars
  BY <1>13 DEF RecordCancel, TickRun
<1>14. ASSUME NEW q \in SUBSET AllNodes, Schedule(q) PROVE Graph!Next \/ UNCHANGED Graph!vars
  BY <1>14 DEF Schedule, Scheduled, Blocked, Ready
<1>15. ASSUME NEW k \in 1..2, CreateWork(k) PROVE Graph!Next \/ UNCHANGED Graph!vars
  <2>1. /\ at \in AllNodes /\ k \in Nat \ {0} /\ run = "running"
        /\ created' = [created EXCEPT ![at] = @ + k] /\ UNCHANGED <<run, done>>
    BY <1>15 DEF CreateWork, Verdict
  <2>2. {n \in AllNodes : created'[n] > 0} = {n \in AllNodes : created[n] > 0} \cup {at}
    BY <2>1
  <2>3. CASE created[at] > 0
    BY <2>1, <2>2, <2>3
  <2>4. CASE ~(created[at] > 0)
    <3>1. \A e \in Edges : e.dst = at => e.src \in done
      BY <1>15, <2>1 DEF CreateWork, Order, Sources
    <3>2. PICK t \in AllNodes : t = at
      BY <2>1
    <3>3. Graph!HandOut(t)
      BY <2>1, <2>2, <2>4, <3>1, <3>2 DEF Graph!HandOut
    <3>. QED
      BY <3>3, TaskMaps
  <2>. QED
    BY <2>3, <2>4
<1>16. ASSUME NEW s \in WorkEnd \cup {"running"}, LinkWork(s) PROVE Graph!Next \/ UNCHANGED Graph!vars
  <2>1. CASE s = "completed" /\ at \notin done
    <3>1. at \in AllNodes /\ created[at] > 0 /\ run = "running"
      BY <1>16, <2>1 DEF LinkWork, Handed, Verdict
    <3>2. /\ done' = done \cup {at} /\ at \in {n \in AllNodes : created[n] > 0} \ done
          /\ UNCHANGED <<created, run>>
      BY <1>16, <2>1, <3>1 DEF LinkWork
    <3>3. Graph!Complete(at)
      BY <3>1, <3>2 DEF Graph!Complete
    <3>. QED
      BY <3>1, <3>3, TaskMaps
  <2>2. CASE ~(s = "completed" /\ at \notin done)
    BY <1>16, <2>2 DEF LinkWork
  <2>. QED
    BY <2>1, <2>2
<1>17. ASSUME NEW n \in AllNodes, NEW s \in WorkEnd, WorkEnds(n, s) PROVE Graph!Next \/ UNCHANGED Graph!vars
  BY <1>17 DEF WorkEnds
<1>19. ASSUME NEW n \in AllNodes, DeleteTask(n) PROVE Graph!Next \/ UNCHANGED Graph!vars
  BY <1>19 DEF DeleteTask
<1>18. CASE UNCHANGED vars
  BY <1>18
<1>. QED
  BY <1>1, <1>2, <1>3, <1>4, <1>5, <1>6, <1>7, <1>8, <1>9, <1>10, <1>11, <1>12, <1>13, <1>14, <1>15, <1>16, <1>17, <1>18, <1>19
  DEF Next, TickStep

(* The delegation graph implements the promise, for every graph, through    *)
(* every crash, every remote agent that is sent a task twice and every      *)
(* cancellation that is recorded after the verdict.                         *)
THEOREM GraphSafety == Spec => GraphSpec
<1>1. Init => Graph!Init
  BY DEF Init, Graph!Init, TerminalRun
<1>2. Init => Order /\ Verdict /\ Handed
  BY GraphAssumption DEF GraphAssumption, Init, Order, Verdict, Handed, TerminalRun
<1>. QED
  BY <1>1, <1>2, TypeCorrect, OrderStep, VerdictStep, HandedStep, GraphStep, PTL
  DEF Spec, GraphSpec, Graph!Spec

==============================================================================
