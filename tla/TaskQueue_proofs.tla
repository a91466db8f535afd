-------------------------- MODULE TaskQueue_proofs --------------------------
(***************************************************************************)
(* Proofs about the task queue, for every number of tasks, every family of *)
(* them and every set of limits, in two parts.                             *)
(*                                                                         *)
(* That the limits hold (IInv) is inductive once it is said that the slots *)
(* are finitely many and that the limit in force is one the user may set:  *)
(* each slot is taken when it was counted that there is room. Nothing need *)
(* be known of the queue, the executors or the rows.                       *)
(*                                                                         *)
(* That a task has one owner, that the rows agree with who works and that  *)
(* no slot stays free beside a waiting task (Inductive) need each other,   *)
(* and two facts more: what waits for a timer or to be resumed is nowhere  *)
(* else, and a start whose task has ended holds no slot.                   *)
(***************************************************************************)
EXTENDS TaskQueue, FiniteSetTheorems, FunctionTheorems, SequenceTheorems,
        WellFoundedInduction, TLAPS

(* What the limits count: the tasks of the user, and the sub-tasks that     *)
(* were created to wait for their turn.                                     *)
Counted(s, b) == {t \in s : Parent[t] = NoTask \/ t \notin b}

SlotsOK(s, b) ==
  /\ IsFiniteSet(s)
  /\ Cardinality(s) <= Ceiling
  /\ Cardinality(Counted(s, b)) <= MaxLimit

(* A state of the queue manager with slots within the limits. *)
Good(m, b) == DOMAIN m = {"queue", "slots", "starting"} /\ SlotsOK(m.slots, b)

IInv == limit \in Limits /\ SlotsOK(slots, bypass)

-----------------------------------------------------------------------------
(* A set of limits has a largest one, as it has a bound.                    *)
LEMMA MaxLimitBounds ==
  MaxLimit \in Limits /\ \A n \in Limits : n <= MaxLimit
<1> DEFINE Gaps == {Ceiling - n : n \in Limits}
<1>1. Gaps \subseteq Nat /\ Gaps # {} BY QueueAssumption
<1>2. PICK g \in Gaps : \A h \in Gaps : ~ (<<h, g>> \in OpToRel(<, Nat))
  BY <1>1, NatLessThanWellFounded, WFMin
<1>3. \A h \in Gaps : ~ (h < g) BY <1>1, <1>2 DEF OpToRel
<1>4. PICK n \in Limits : g = Ceiling - n OBVIOUS
<1>5. \A m \in Limits : m <= n
  <2> SUFFICES ASSUME NEW m \in Limits PROVE m <= n OBVIOUS
  <2>1. ~ (Ceiling - m < Ceiling - n) BY <1>3, <1>4
  <2> QED BY <2>1, QueueAssumption
<1> QED BY <1>5 DEF MaxLimit

(* Fewer slots, or more tasks that are not counted, are within the limits   *)
(* as well.                                                                 *)
LEMMA FewerSlots ==
  ASSUME NEW s, NEW u, u \subseteq s, NEW b, NEW c, b \subseteq c, SlotsOK(s, b)
  PROVE  SlotsOK(u, c)
<1>1. IsFiniteSet(s) BY DEF SlotsOK
<1>2. IsFiniteSet(u) /\ Cardinality(u) <= Cardinality(s) BY <1>1, FS_Subset
<1>3. Counted(u, c) \subseteq Counted(s, b) /\ Counted(s, b) \subseteq s BY DEF Counted
<1>4. IsFiniteSet(Counted(s, b)) BY <1>1, <1>3, FS_Subset
<1>5. IsFiniteSet(Counted(u, c)) /\ Cardinality(Counted(u, c)) <= Cardinality(Counted(s, b))
  BY <1>3, <1>4, FS_Subset
<1>6. /\ Cardinality(s) \in Nat /\ Cardinality(u) \in Nat
      /\ Cardinality(Counted(s, b)) \in Nat /\ Cardinality(Counted(u, c)) \in Nat
  BY <1>1, <1>2, <1>4, <1>5, FS_CardinalityType
<1> QED BY <1>2, <1>5, <1>6, QueueAssumption, MaxLimitBounds DEF SlotsOK

(* A slot that is taken while there is room under a limit. *)
LEMMA TakenWithRoom ==
  ASSUME NEW s, NEW x, NEW b, NEW max \in Limits, SlotsOK(s, b), Cardinality(s) < max
  PROVE  SlotsOK(s \cup {x}, b)
<1>1. IsFiniteSet(s) BY DEF SlotsOK
<1>2. /\ IsFiniteSet(s \cup {x})
      /\ Cardinality(s \cup {x}) = IF x \in s THEN Cardinality(s) ELSE Cardinality(s) + 1
  BY <1>1, FS_AddElement
<1>3. Counted(s \cup {x}, b) \subseteq s \cup {x} BY DEF Counted
<1>4. /\ IsFiniteSet(Counted(s \cup {x}, b))
      /\ Cardinality(Counted(s \cup {x}, b)) <= Cardinality(s \cup {x})
  BY <1>2, <1>3, FS_Subset
<1>5. /\ Cardinality(s) \in Nat /\ Cardinality(s \cup {x}) \in Nat
      /\ Cardinality(Counted(s \cup {x}, b)) \in Nat
  BY <1>1, <1>2, <1>4, FS_CardinalityType
<1>6. max \in Nat /\ max <= Ceiling /\ max <= MaxLimit /\ MaxLimit \in Nat /\ Ceiling \in Nat
  BY QueueAssumption, MaxLimitBounds
<1>7. Cardinality(s \cup {x}) <= max BY <1>2, <1>5, <1>6
<1> QED BY <1>2, <1>4, <1>5, <1>6, <1>7 DEF SlotsOK

(* A slot that a sub-agent takes past the limit, but under the ceiling. *)
LEMMA TakenUnderCeiling ==
  ASSUME NEW s, NEW x, NEW b, SlotsOK(s, b), Cardinality(s) < Ceiling,
         Parent[x] # NoTask, x \in b
  PROVE  SlotsOK(s \cup {x}, b)
<1>1. IsFiniteSet(s) BY DEF SlotsOK
<1>2. /\ IsFiniteSet(s \cup {x})
      /\ Cardinality(s \cup {x}) = IF x \in s THEN Cardinality(s) ELSE Cardinality(s) + 1
  BY <1>1, FS_AddElement
<1>3. Cardinality(s) \in Nat BY <1>1, FS_CardinalityType
<1>4. Counted(s \cup {x}, b) = Counted(s, b) BY DEF Counted
<1> QED BY <1>2, <1>3, <1>4, QueueAssumption DEF SlotsOK

-----------------------------------------------------------------------------
(* The operations of the queue manager keep its slots within the limits.    *)

LEMMA GoodLess ==
  ASSUME NEW m, NEW b, NEW t, Good(m, b)
  PROVE  Good([m EXCEPT !.slots = @ \ {t}], b)
<1>1. SlotsOK(m.slots \ {t}, b) BY FewerSlots DEF Good
<1> QED BY <1>1 DEF Good

LEMMA GoodStarting ==
  ASSUME NEW m, NEW b, NEW t, NEW how, Good(m, b)
  PROVE  Good([m EXCEPT !.starting[t] = how], b)
BY DEF Good

LEMMA GoodQueue ==
  ASSUME NEW m, NEW b, NEW q, Good(m, b)
  PROVE  Good([m EXCEPT !.queue = q], b)
BY DEF Good

LEMMA GoodProcess ==
  ASSUME NEW m, NEW b, NEW r, NEW max \in Limits, Good(m, b)
  PROVE  Good(ProcessQueue(m, r, max), b)
<1> DEFINE waits == {i \in DOMAIN m.queue : r[m.queue[i]] = "queued"}
           first == CHOOSE i \in waits : \A j \in waits : i <= j
           rest == [m EXCEPT !.queue = SubSeq(@, first + 1, Len(@))]
           x == m.queue[first]
<1>1. CASE Cardinality(m.slots) >= max
  BY <1>1 DEF ProcessQueue
<1>2. CASE ~ (Cardinality(m.slots) >= max) /\ waits = {}
  BY <1>2, GoodQueue DEF ProcessQueue
<1>3. CASE ~ (Cardinality(m.slots) >= max) /\ waits # {}
  <2>1. IsFiniteSet(m.slots) BY DEF Good, SlotsOK
  <2>2. Cardinality(m.slots) < max
    BY <1>3, <2>1, FS_CardinalityType, QueueAssumption
  <2>3. SlotsOK(m.slots \cup {x}, b) BY <2>2, TakenWithRoom DEF Good
  <2>4. ProcessQueue(m, r, max) = Take(rest, x, "loop")
    BY <1>3 DEF ProcessQueue
  <2> HIDE DEF x, first, waits
  <2>5. Good(Take(rest, x, "loop"), b) BY <2>3 DEF Good, Take
  <2> QED BY <2>4, <2>5
<1> QED BY <1>1, <1>2, <1>3

LEMMA GoodFinish ==
  ASSUME IInv, NEW m, NEW b, NEW t, NEW r, Good(m, b)
  PROVE  Good(Finish(m, t, r), b)
BY GoodLess, GoodProcess DEF Finish, IInv

LEMMA GoodFail ==
  ASSUME IInv, NEW m, NEW b, NEW t, Good(m, b)
  PROVE  Good(FailTask(m, t), b)
BY GoodFinish DEF FailTask

LEMMA GoodSettle ==
  ASSUME IInv, NEW m, NEW b, NEW t, NEW r, Good(m, b)
  PROVE  Good(Settle(t, m, r), b)
BY GoodStarting, GoodProcess DEF Settle, IInv

LEMMA GoodMgr == ASSUME IInv PROVE Good(Mgr, bypass)
BY DEF IInv, Good, Mgr

LEMMA ManagerKeeps ==
  ASSUME NEW m, Good(m, bypass), Manager(m), UNCHANGED <<limit, bypass>>, IInv
  PROVE  IInv'
BY DEF Good, Manager, IInv

(* A task that goes straight to its slot had room. *)
LEMMA EnqueueKeeps ==
  ASSUME IInv, NEW t, NEW r, NEW b, bypass \subseteq b, Enqueue(t, r, b)
  PROVE  SlotsOK(slots', b)
<1>1. SlotsOK(slots, b) BY FewerSlots DEF IInv
<1>2. CASE Goes(t, b)
  <2>1. slots' = slots \cup {t}
    BY <1>2 DEF Enqueue, Take, Mgr, Manager
  <2>2. CASE Parent[t] # NoTask /\ t \in b
    BY <1>1, <1>2, <2>1, <2>2, TakenUnderCeiling DEF Goes
  <2>3. CASE ~ (Parent[t] # NoTask /\ t \in b)
    BY <1>1, <1>2, <2>1, <2>3, TakenWithRoom DEF Goes, IInv
  <2> QED BY <2>2, <2>3
<1>3. CASE ~ Goes(t, b)
  <2>1. slots' = slots BY <1>3 DEF Enqueue, Mgr, Manager
  <2> QED BY <1>1, <2>1
<1> QED BY <1>2, <1>3

-----------------------------------------------------------------------------
LEMMA InitIInv == Init => IInv
<1> SUFFICES ASSUME Init PROVE IInv OBVIOUS
<1>1. slots = {} /\ limit \in Limits BY QueueAssumption DEF Init
<1>2. Counted({}, bypass) = {} BY DEF Counted
<1>3. IsFiniteSet({}) /\ Cardinality({}) = 0 BY FS_EmptySet
<1>4. 0 <= Ceiling /\ 0 <= MaxLimit BY QueueAssumption, MaxLimitBounds
<1> QED BY <1>1, <1>2, <1>3, <1>4 DEF IInv, SlotsOK

(* The steps of a task. *)
LEMMA StepIInv ==
  ASSUME IInv, NEW t \in Tasks, Step(t)
  PROVE  IInv'
<1> USE GoodMgr
<1>1. ASSUME NEW b, Submit(t, b) PROVE IInv'
  <2>1. bypass \subseteq bypass' BY <1>1 DEF Submit
  <2>2. SlotsOK(slots', bypass') BY <1>1, <2>1, EnqueueKeeps DEF Submit
  <2> QED BY <1>1, <2>2 DEF Submit, IInv
<1>2. CASE Launch(t)
  <2>1. Good(Settle(t, Mgr, row'), bypass) BY GoodSettle
  <2> QED BY <1>2, <2>1, ManagerKeeps DEF Launch
<1>3. CASE StartFails(t)
  <2> DEFINE m == FailTask(Mgr, t)
             n == Settle(t, [m EXCEPT !.slots = @ \ {t}], row')
  <2>1. Good(m, bypass) BY GoodFail
  <2>2. Good([m EXCEPT !.slots = @ \ {t}], bypass) BY <2>1, GoodLess
  <2>3. Good(n, bypass) BY <2>2, GoodSettle
  <2>4. Manager(n) /\ UNCHANGED <<limit, bypass>> BY <1>3 DEF StartFails
  <2> HIDE DEF n
  <2> QED BY <2>3, <2>4, ManagerKeeps
<1>4. CASE Complete(t) \/ RunThrows(t)
  <2>1. Good(FailTask(Mgr, t), bypass) BY GoodFail
  <2>2. Manager(FailTask(Mgr, t)) /\ UNCHANGED <<limit, bypass>>
    BY <1>4 DEF Complete, RunThrows
  <2> QED BY <2>1, <2>2, ManagerKeeps
<1>5. CASE \/ RunFails(t) \/ CancelLive(t) \/ SweepLive(t) \/ ClearTakes(t)
           \/ \E ok \in BOOLEAN : ClearHalted(t, ok)
  BY <1>5 DEF RunFails, CancelLive, SweepLive, ClearTakes, ClearHalted, manager, IInv
<1>6. CASE RunFailsTransiently(t)
  <2>1. Good(Finish(Mgr, t, row'), bypass) BY GoodFinish
  <2> QED BY <1>6, <2>1, ManagerKeeps DEF RunFailsTransiently
<1>7. CASE RetryFires(t)
  <2>1. CASE t \in live \cup slots \cup Queued(queue) \/ row[t] # "queued"
    BY <1>7, <2>1 DEF RetryFires, manager, IInv
  <2>2. CASE ~ (t \in live \cup slots \cup Queued(queue) \/ row[t] # "queued")
    <3>1. SlotsOK(slots', bypass) BY <1>7, <2>2, EnqueueKeeps DEF RetryFires
    <3> QED BY <1>7, <3>1 DEF RetryFires, IInv
  <2> QED BY <2>1, <2>2
<1>8. CASE Cancel(t)
  <2>1. CASE t \in Queued(queue)
    <3>1. slots' = slots BY <1>8, <2>1 DEF Cancel, Mgr, Manager
    <3> QED BY <1>8, <3>1 DEF Cancel, IInv
  <2>2. CASE t \notin Queued(queue)
    <3>1. Good(Finish(Mgr, t, row'), bypass) BY GoodFinish
    <3> QED BY <1>8, <2>2, <3>1, ManagerKeeps DEF Cancel
  <2> QED BY <2>1, <2>2
<1>9. CASE CancelEnded(t)
  <2>1. Good(Finish(Mgr, t, row), bypass) BY GoodFinish
  <2> QED BY <1>9, <2>1, ManagerKeeps DEF CancelEnded
<1>10. CASE CancelHalted(t)
  <2>1. Good(Finish(Mgr, t, row'), bypass) BY GoodFinish
  <2> QED BY <1>10, <2>1, ManagerKeeps DEF CancelHalted
<1>11. CASE SweepIdle(t) \/ SweepHalted(t)
  <2> DEFINE m == FailTask(Mgr, t)
             n == [m EXCEPT !.slots = @ \ {t}]
             k == ProcessQueue(n, row', limit)
  <2>1. Good(m, bypass) BY GoodFail
  <2>2. Good(n, bypass) BY <2>1, GoodLess
  <2>3. Good(k, bypass) BY <2>2, GoodProcess DEF IInv
  <2>4. (Manager(k) \/ Manager(n)) /\ UNCHANGED <<limit, bypass>>
    BY <1>11 DEF SweepIdle, SweepHalted, SweepEnds
  <2> HIDE DEF n, k
  <2> QED BY <2>2, <2>3, <2>4, ManagerKeeps
<1>13. CASE Refused(t)
  <2>1. Good(FailTask(Mgr, t), bypass) BY GoodFail
  <2>2. UNCHANGED <<limit, bypass>> /\ (UNCHANGED manager \/ Manager(FailTask(Mgr, t)))
    BY <1>13 DEF Refused
  <2>3. UNCHANGED manager => IInv' BY <2>2 DEF manager, IInv
  <2> QED BY <2>1, <2>2, <2>3, ManagerKeeps
<1>12. CASE Resume(t)
  <2>1. UNCHANGED <<limit, bypass>> BY <1>12 DEF Resume
  <2>2. CASE slots' = slots BY <2>1, <2>2 DEF IInv
  <2>3. CASE Enqueue(t, [row EXCEPT ![t] = "queued"], bypass)
    BY <2>1, <2>3, EnqueueKeeps DEF IInv
  <2>4. CASE Cardinality(slots) < limit /\ slots' = slots \cup {t}
    BY <2>1, <2>4, TakenWithRoom DEF IInv
  <2> QED BY <1>12, <2>2, <2>3, <2>4 DEF Resume, manager
<1> QED
  BY <1>1, <1>2, <1>3, <1>4, <1>5, <1>6, <1>7, <1>8, <1>9, <1>10, <1>11, <1>12, <1>13
  DEF Step

LEMMA NextIInv == IInv /\ [Next]_vars => IInv'
<1> SUFFICES ASSUME IInv, [Next]_vars PROVE IInv' OBVIOUS
<1>1. ASSUME NEW t \in Tasks, Step(t) PROVE IInv' BY <1>1, StepIInv
<1>2. ASSUME NEW s \in SUBSET slots, TimeOut(s) PROVE IInv'
  BY <1>2 DEF TimeOut, manager, IInv
<1>3. ASSUME NEW n \in Limits, SaveSettings(n) PROVE IInv'
  <2>1. Good(ProcessQueue(Mgr, row, n), bypass) BY GoodMgr, GoodProcess
  <2> QED BY <1>3, <2>1 DEF SaveSettings, Manager, Good, IInv
<1>4. CASE Clear BY <1>4 DEF Clear, manager, IInv
<1>5. CASE ClearEnds
  <2>1. SlotsOK({}, bypass) BY FewerSlots DEF IInv
  <2> QED BY <1>5, <2>1 DEF ClearEnds, IInv
<1>6. ASSUME NEW saved \in SUBSET Executing, NEW due \in SUBSET retry, Restart(saved, due)
      PROVE  IInv'
  <2> DEFINE q == InOrder({t \in Tasks \ retry' : row'[t] = "queued"})
             m == [queue |-> q, slots |-> {}, starting |-> [t \in Tasks |-> "no"]]
  <2>1. Manager(ProcessQueue(m, row', limit)) /\ UNCHANGED <<limit, bypass>>
    BY <1>6 DEF Restart
  <2> HIDE DEF q
  <2>2. SlotsOK({}, bypass) BY FewerSlots DEF IInv
  <2>3. Good(m, bypass) BY <2>2 DEF Good
  <2>4. Good(ProcessQueue(m, row', limit), bypass) BY <2>3, GoodProcess DEF IInv
  <2> HIDE DEF m
  <2> QED BY <2>1, <2>4, ManagerKeeps
<1>7. CASE UNCHANGED vars BY <1>7 DEF vars, manager, IInv
<1> QED BY <1>1, <1>2, <1>3, <1>4, <1>5, <1>6, <1>7 DEF Next

(* However tasks are created, started, retried, cancelled, timed out,       *)
(* cleared and recovered, and however the user changes the limit: there are *)
(* never more slots taken than the ceiling, nor more by what does not       *)
(* bypass the limit than the highest limit the user may set.                *)
THEOREM CeilingAlways == Spec => []WithinCeiling
<1>1. IInv => WithinCeiling BY DEF IInv, SlotsOK, Counted, WithinCeiling
<1> QED BY InitIInv, NextIInv, <1>1, PTL DEF Spec

-----------------------------------------------------------------------------
(* Who has a task. Over a state m of the queue manager, the rows r, the     *)
(* executors L and the tasks C a timer or the recovery will bring back.     *)

Shape(m) ==
  m \in [queue : Seq(Tasks), slots : SUBSET Tasks,
         starting : [Tasks -> {"no", "direct", "loop"}]]

Owners(m, r, L, C) ==
  /\ Shape(m) /\ IsInjective(m.queue)
  /\ \A t \in Queued(m.queue) :
       t \notin m.slots \cup L \cup C /\ m.starting[t] = "no" /\ r[t] # "none"
  /\ \A t \in Tasks :
       /\ t \in L \cup C => m.starting[t] = "no"
       /\ t \in C => t \notin m.slots
       /\ r[t] = "none" => t \notin m.slots /\ m.starting[t] = "no"
       /\ m.starting[t] # "no" /\ r[t] \in Ended => t \notin m.slots

(* The rows agree with who works; R are the tasks that wait for a retry, V *)
(* those that were revived and D those the user cleared away.              *)
Agrees(m, r, L, R, V, D) ==
  \A t \in Tasks \ D :
    /\ r[t] = "queued" => t \in Queued(m.queue) \cup R \/ m.starting[t] # "no"
    /\ t \in L => t \in m.slots \cup V

(* A task that waits can rely on a start that will look at the queue. *)
Busy(m, r, max) ==
  Cardinality(m.slots) < max /\ (\E t \in Queued(m.queue) : r[t] = "queued")
    => \E t \in Tasks : m.starting[t] = "loop"

(* From m to p the tasks X, all queued, left the queue for a slot, and     *)
(* tasks that are not queued any more may have left it.                    *)
Moves(m, p, r, X) ==
  /\ X \subseteq Queued(m.queue) /\ \A x \in X : r[x] = "queued"
  /\ Shape(p) /\ IsInjective(p.queue)
  /\ p.slots = m.slots \cup X
  /\ p.starting = [u \in Tasks |-> IF u \in X THEN "loop" ELSE m.starting[u]]
  /\ Queued(p.queue) \subseteq Queued(m.queue) \ X
  /\ \A u \in Queued(m.queue) \ X : r[u] = "queued" => u \in Queued(p.queue)

LEMMA QueuedTasks ==
  ASSUME NEW q \in Seq(Tasks) PROVE Queued(q) \subseteq Tasks
BY DEF Queued, ToSet

(* What follows the place f of a sequence. *)
LEMMA AfterPlace ==
  ASSUME NEW S, NEW q \in Seq(S), IsInjective(q), NEW f \in 1..Len(q)
  PROVE  /\ SubSeq(q, f + 1, Len(q)) \in Seq(S)
         /\ IsInjective(SubSeq(q, f + 1, Len(q)))
         /\ ToSet(SubSeq(q, f + 1, Len(q))) = {q[i] : i \in f+1..Len(q)}
<1> DEFINE s == SubSeq(q, f + 1, Len(q))
<1>1. Len(q) \in Nat /\ \A i \in f+1..Len(q) : q[i] \in S BY LenProperties, ElementOfSeq
<1>2. s \in Seq(S) /\ Len(s) = Len(q) - f /\ \A i \in 1..Len(q)-f : s[i] = q[f + i]
  BY <1>1, SubSeqProperties
<1>3. DOMAIN s = 1..Len(q)-f BY <1>2, LenProperties
<1>4. DOMAIN q = 1..Len(q) BY LenProperties
<1> HIDE DEF s
<1>5. IsInjective(s)
  <2> SUFFICES ASSUME NEW a \in DOMAIN s, NEW b \in DOMAIN s, s[a] = s[b] PROVE a = b
    BY DEF IsInjective
  <2>1. f + a \in DOMAIN q /\ f + b \in DOMAIN q BY <1>1, <1>3, <1>4
  <2>2. q[f + a] = q[f + b] BY <1>2, <1>3
  <2>3. f + a = f + b BY <2>1, <2>2 DEF IsInjective
  <2> QED BY <2>3, <1>1, <1>3
<1>6. ToSet(s) = {q[i] : i \in f+1..Len(q)}
  <2>1. ASSUME NEW x \in ToSet(s) PROVE x \in {q[i] : i \in f+1..Len(q)}
    <3>1. PICK i \in 1..Len(q)-f : x = s[i] BY <1>3 DEF ToSet
    <3>2. x = q[f + i] /\ f + i \in f+1..Len(q) BY <3>1, <1>1, <1>2
    <3> QED BY <3>2
  <2>2. ASSUME NEW i \in f+1..Len(q) PROVE q[i] \in ToSet(s)
    <3>1. i - f \in 1..Len(q)-f /\ f + (i - f) = i BY <1>1
    <3>2. s[i - f] = q[i] BY <3>1, <1>2
    <3> QED BY <3>1, <3>2, <1>3 DEF ToSet
  <2> QED BY <2>1, <2>2
<1> QED BY <1>2, <1>5, <1>6 DEF s

LEMMA FiniteTasks == ASSUME NEW s, s \subseteq Tasks PROVE IsFiniteSet(s)
<1>1. IsFiniteSet(1..N) BY FS_Interval, QueueAssumption
<1> QED BY <1>1, FS_Subset DEF Tasks

(* A new element at the end of a sequence. *)
LEMMA Appended ==
  ASSUME NEW S, NEW q \in Seq(S), IsInjective(q), NEW e \in S, e \notin ToSet(q)
  PROVE  /\ Append(q, e) \in Seq(S) /\ IsInjective(Append(q, e))
         /\ ToSet(Append(q, e)) = ToSet(q) \cup {e}
<1> DEFINE s == Append(q, e)
<1>1. /\ s \in Seq(S) /\ Len(s) = Len(q) + 1 /\ Len(q) \in Nat
      /\ \A i \in 1..Len(q) : s[i] = q[i]
      /\ s[Len(q) + 1] = e
  BY AppendProperties, LenProperties
<1>2. DOMAIN s = 1..Len(q)+1 /\ DOMAIN q = 1..Len(q) BY <1>1, LenProperties
<1> HIDE DEF s
<1>3. \A i \in 1..Len(q) : q[i] # e BY <1>2 DEF ToSet
<1>4. \A i \in DOMAIN s : i \in 1..Len(q) \/ i = Len(q) + 1 BY <1>1, <1>2
<1>5. IsInjective(s) BY <1>1, <1>2, <1>3, <1>4 DEF IsInjective
<1>6. ToSet(s) = ToSet(q) \cup {e}
  <2>1. ASSUME NEW x \in ToSet(s) PROVE x \in ToSet(q) \cup {e}
    BY <1>1, <1>2, <1>4 DEF ToSet
  <2>2. 1..Len(q) \subseteq DOMAIN s /\ Len(q) + 1 \in DOMAIN s BY <1>1, <1>2
  <2>3. ASSUME NEW x \in ToSet(q) \cup {e} PROVE x \in ToSet(s)
    BY <1>1, <1>2, <2>2 DEF ToSet
  <2> QED BY <2>1, <2>3
<1> QED BY <1>1, <1>5, <1>6 DEF s

(* A new element in front of a sequence. *)
LEMMA Prefixed ==
  ASSUME NEW S, NEW q \in Seq(S), IsInjective(q), NEW e \in S, e \notin ToSet(q)
  PROVE  /\ <<e>> \o q \in Seq(S) /\ IsInjective(<<e>> \o q)
         /\ ToSet(<<e>> \o q) = ToSet(q) \cup {e}
<1> DEFINE s == <<e>> \o q
<1>1. <<e>> \in Seq(S) /\ Len(<<e>>) = 1 /\ <<e>>[1] = e /\ Len(q) \in Nat
  BY LenProperties
<1>2. /\ s \in Seq(S) /\ Len(s) = 1 + Len(q)
      /\ \A i \in 1..1+Len(q) : s[i] = IF i <= 1 THEN <<e>>[i] ELSE q[i - 1]
  BY <1>1, ConcatProperties
<1>3. DOMAIN s = 1..1+Len(q) /\ DOMAIN q = 1..Len(q) BY <1>2, LenProperties
<1>4. s[1] = e /\ \A i \in 1..Len(q) : s[i + 1] = q[i]
  <2>1. 1 \in 1..1+Len(q) /\ \A i \in 1..Len(q) : i + 1 \in 1..1+Len(q) /\ ~ (i + 1 <= 1) /\ (i + 1) - 1 = i
    BY <1>1
  <2> QED BY <1>1, <1>2, <2>1
<1>5. \A i \in DOMAIN s : i = 1 \/ \E j \in DOMAIN q : i = j + 1
  <2> SUFFICES ASSUME NEW i \in DOMAIN s, i # 1 PROVE \E j \in DOMAIN q : i = j + 1
    OBVIOUS
  <2>1. i - 1 \in DOMAIN q /\ i = (i - 1) + 1 BY <1>1, <1>3
  <2> QED BY <2>1
<1> HIDE DEF s
<1>6. \A j \in DOMAIN q : q[j] # e BY DEF ToSet
<1>7. IsInjective(s)
  <2> SUFFICES ASSUME NEW a \in DOMAIN s, NEW b \in DOMAIN s, s[a] = s[b] PROVE a = b
    BY DEF IsInjective
  <2> QED BY <1>3, <1>4, <1>5, <1>6 DEF IsInjective
<1>8. ToSet(s) = ToSet(q) \cup {e}
  <2>1. ToSet(s) \subseteq ToSet(q) \cup {e} BY <1>3, <1>4, <1>5 DEF ToSet
  <2>2. 1 \in DOMAIN s /\ \A j \in DOMAIN q : j + 1 \in DOMAIN s BY <1>1, <1>3
  <2>3. ToSet(q) \cup {e} \subseteq ToSet(s) BY <1>3, <1>4, <2>2 DEF ToSet
  <2> QED BY <2>1, <2>3
<1> QED BY <1>2, <1>7, <1>8 DEF s

(* A sequence without one of its elements. *)
LEMMA Removed ==
  ASSUME NEW S, NEW q \in Seq(S), IsInjective(q), NEW e \in ToSet(q)
  PROVE  /\ RemoveFirst(q, e) \in Seq(S) /\ IsInjective(RemoveFirst(q, e))
         /\ ToSet(RemoveFirst(q, e)) = ToSet(q) \ {e}
<1>1. DOMAIN q = 1..Len(q) /\ Len(q) \in Nat BY LenProperties
<1>2. PICK f \in 1..Len(q) : q[f] = e BY <1>1 DEF ToSet
<1>3. \A j \in 1..Len(q) : q[j] = e => j = f BY <1>1, <1>2 DEF IsInjective
<1>4. RemoveFirst(q, e) = SubSeq(q, 1, f - 1) \o SubSeq(q, f + 1, Len(q))
  <2>1. {j \in 1..Len(q) : q[j] = e} = {f} BY <1>2, <1>3
  <2>2. Min({f}) = f BY DEF Min
  <2>3. SelectInSeq(q, LAMBDA v : v = e) = f BY <2>1, <2>2 DEF SelectInSeq
  <2> QED BY <1>2, <2>3 DEF RemoveFirst, RemoveAt
<1> DEFINE a == SubSeq(q, 1, f - 1)
           b == SubSeq(q, f + 1, Len(q))
           s == a \o b
           n == Len(q) - 1
<1>5. \A i \in 1..Len(q) : q[i] \in S BY ElementOfSeq
<1>6. /\ a \in Seq(S) /\ Len(a) = f - 1
      /\ \A i \in 1..f-1 : a[i] = q[i]
  <2>1. /\ a \in Seq(S) /\ Len(a) = IF 1 <= f - 1 THEN (f - 1) - 1 + 1 ELSE 0
        /\ \A i \in 1..(f-1)-1+1 : a[i] = q[1 + i - 1]
    BY <1>1, <1>2, <1>5, SubSeqProperties
  <2> QED BY <1>1, <2>1
<1>7. /\ b \in Seq(S) /\ Len(b) = Len(q) - f
      /\ \A i \in 1..Len(q)-f : b[i] = q[f + i]
  <2>1. /\ b \in Seq(S) /\ Len(b) = IF f + 1 <= Len(q) THEN Len(q) - (f + 1) + 1 ELSE 0
        /\ \A i \in 1..Len(q)-(f+1)+1 : b[i] = q[(f + 1) + i - 1]
    BY <1>1, <1>2, <1>5, SubSeqProperties
  <2> QED BY <1>1, <2>1
<1>8. /\ s \in Seq(S) /\ Len(s) = n
      /\ \A i \in 1..n : s[i] = IF i <= f - 1 THEN a[i] ELSE b[i - (f - 1)]
  <2> HIDE DEF a, b
  <2>1. /\ s \in Seq(S) /\ Len(s) = Len(a) + Len(b)
        /\ \A i \in 1..Len(a)+Len(b) : s[i] = IF i <= Len(a) THEN a[i] ELSE b[i - Len(a)]
    BY <1>6, <1>7, ConcatProperties
  <2>2. Len(a) + Len(b) = n BY <1>1, <1>6, <1>7
  <2> QED BY <1>6, <2>1, <2>2
<1> HIDE DEF a, b, s
<1>9. \A i \in 1..n : s[i] = IF i < f THEN q[i] ELSE q[i + 1]
  <2> SUFFICES ASSUME NEW i \in 1..n PROVE s[i] = IF i < f THEN q[i] ELSE q[i + 1]
    OBVIOUS
  <2>1. CASE i < f
    <3>1. i <= f - 1 /\ i \in 1..f-1 BY <1>1, <2>1
    <3> QED BY <1>6, <1>8, <2>1, <3>1
  <2>2. CASE ~ (i < f)
    <3>1. /\ ~ (i <= f - 1) /\ i - (f - 1) \in 1..Len(q)-f
          /\ f + (i - (f - 1)) = i + 1
      BY <1>1, <2>2
    <3> QED BY <1>7, <1>8, <2>2, <3>1
  <2> QED BY <2>1, <2>2
<1>10. DOMAIN s = 1..n BY <1>8, LenProperties
<1>11. IsInjective(s)
  <2> SUFFICES ASSUME NEW i \in 1..n, NEW j \in 1..n, s[i] = s[j] PROVE i = j
    BY <1>10 DEF IsInjective
  <2>1. i \in DOMAIN q /\ i + 1 \in DOMAIN q /\ j \in DOMAIN q /\ j + 1 \in DOMAIN q BY <1>1
  <2>2. q[IF i < f THEN i ELSE i + 1] = q[IF j < f THEN j ELSE j + 1] BY <1>9
  <2>3. (IF i < f THEN i ELSE i + 1) = (IF j < f THEN j ELSE j + 1)
    BY <2>1, <2>2 DEF IsInjective
  <2> QED BY <1>1, <2>3
<1>12. ToSet(s) = ToSet(q) \ {e}
  <2>1. ASSUME NEW i \in 1..n PROVE s[i] \in ToSet(q) \ {e}
    <3>1. i \in 1..Len(q) /\ i + 1 \in 1..Len(q) /\ (i < f => i # f) /\ (~ (i < f) => i + 1 # f)
      BY <1>1
    <3> QED BY <1>1, <1>3, <1>9, <3>1 DEF ToSet
  <2>2. ASSUME NEW x \in ToSet(q) \ {e} PROVE x \in ToSet(s)
    <3>1. PICK i \in 1..Len(q) : x = q[i] BY <1>1 DEF ToSet
    <3>2. i # f BY <1>2, <3>1
    <3>3. CASE i < f
      <4>1. i \in 1..n /\ s[i] = q[i] BY <1>1, <1>9, <3>3
      <4> QED BY <1>10, <3>1, <4>1 DEF ToSet
    <3>4. CASE ~ (i < f)
      <4>1. i - 1 \in 1..n /\ ~ (i - 1 < f) /\ (i - 1) + 1 = i BY <1>1, <3>2, <3>4
      <4>2. s[i - 1] = q[i] BY <1>9, <4>1
      <4> QED BY <1>10, <3>1, <4>1, <4>2 DEF ToSet
    <3> QED BY <3>3, <3>4
  <2> QED BY <1>10, <2>1, <2>2 DEF ToSet
<1> QED BY <1>4, <1>8, <1>11, <1>12 DEF s, a, b

(* Any tasks can be put in order, and the order has them all, each once. *)
LEMMA InOrderOf ==
  ASSUME NEW S, S \subseteq Tasks
  PROVE  /\ InOrder(S) \in Seq(Tasks) /\ IsInjective(InOrder(S)) /\ ToSet(InOrder(S)) = S
         /\ \A i, j \in DOMAIN InOrder(S) : i < j => InOrder(S)[i] < InOrder(S)[j]
<1> DEFINE n == Cardinality(S)
           upto(t) == {u \in S : u <= t}
           f == [t \in S |-> Cardinality(upto(t))]
           q == [i \in 1..n |-> CHOOSE t \in S : f[t] = i]
<1>1. IsFiniteSet(S) /\ n \in Nat /\ S \subseteq Nat
  <2>1. IsFiniteSet(S) BY FiniteTasks
  <2>2. S \subseteq Nat BY QueueAssumption DEF Tasks
  <2> QED BY <2>1, <2>2, FS_CardinalityType
<1>2. IsFiniteSet(1..n) /\ Cardinality(1..n) = n BY <1>1, FS_Interval
<1>3. \A t \in S : /\ IsFiniteSet(upto(t)) /\ Cardinality(upto(t)) \in Nat
                   /\ Cardinality(upto(t)) <= n
  BY <1>1, FS_Subset, FS_CardinalityType
<1>4. f \in [S -> 1..n]
  <2> SUFFICES ASSUME NEW t \in S PROVE Cardinality(upto(t)) \in 1..n OBVIOUS
  <2>1. t \in upto(t) BY <1>1
  <2>2. Cardinality(upto(t)) # 0 BY <1>3, <2>1, FS_EmptySet
  <2> QED BY <1>1, <1>3, <2>2
<1>5. ASSUME NEW t \in S, NEW u \in S, t < u PROVE f[t] < f[u]
  <2>1. t \in Nat /\ u \in Nat /\ t < u BY <1>1, <1>5
  <2>2. \A x \in S : x <= t => x <= u BY <1>1, <2>1
  <2>3. upto(t) \subseteq upto(u) /\ u \in upto(u) /\ u \notin upto(t)
    <3>1. u <= u /\ ~ (u <= t) BY <2>1
    <3> QED BY <2>2, <3>1
  <2>4. upto(t) # upto(u) BY <2>3
  <2>5. Cardinality(upto(t)) < Cardinality(upto(u)) BY <1>3, <2>3, <2>4, FS_Subset
  <2> QED BY <2>5
<1> HIDE DEF f, n
<1>6. \A t, u \in S : f[t] = f[u] => t = u
  <2> SUFFICES ASSUME NEW t \in S, NEW u \in S, f[t] = f[u], t # u PROVE FALSE OBVIOUS
  <2>1. t < u \/ u < t BY <1>1
  <2>2. f[t] < f[u] \/ f[u] < f[t] BY <1>5, <2>1
  <2>3. f[t] \in Nat /\ f[u] \in Nat BY <1>1, <1>4
  <2> QED BY <2>2, <2>3
<1>7. f \in Injection(S, 1..n) BY <1>4, <1>6, Fun_IsInj
<1>8. f \in Surjection(S, 1..n)
  BY <1>2, <1>7, FS_Injection DEF n
<1>9. \A i \in 1..n : q[i] \in S /\ f[q[i]] = i
  <2> SUFFICES ASSUME NEW i \in 1..n PROVE q[i] \in S /\ f[q[i]] = i OBVIOUS
  <2>1. \E t \in S : f[t] = i BY <1>8 DEF Surjection
  <2> QED BY <2>1
<1>10. q \in [1..n -> S] BY <1>9
<1> HIDE DEF q
<1>11. \A i, j \in 1..n : i < j => q[i] < q[j]
  <2> SUFFICES ASSUME NEW i \in 1..n, NEW j \in 1..n, i < j, ~ (q[i] < q[j]) PROVE FALSE
    OBVIOUS
  <2>0. q[i] \in Nat /\ q[j] \in Nat BY <1>1, <1>9
  <2>1. q[j] < q[i] \/ q[j] = q[i] BY <2>0
  <2>2. j < i \/ j = i BY <1>5, <1>9, <2>1
  <2> QED BY <1>1, <2>2
<1> DEFINE Sorted(s) == \A i, j \in DOMAIN s : i < j => s[i] < s[j]
           o == InOrder(S)
<1>12. o \in [1..n -> S] /\ Sorted(o) BY <1>10, <1>11 DEF InOrder, n
<1> HIDE DEF o
<1>13. DOMAIN o = 1..n BY <1>12
<1>14. \A i, j \in 1..n : o[i] = o[j] => i = j
  <2> SUFFICES ASSUME NEW i \in 1..n, NEW j \in 1..n, o[i] = o[j], i # j PROVE FALSE OBVIOUS
  <2>1. i < j \/ j < i BY <1>1
  <2>2. o[i] < o[j] \/ o[j] < o[i] BY <1>12, <1>13, <2>1
  <2>3. o[i] \in Nat BY <1>1, <1>12
  <2> QED BY <2>2, <2>3
<1>15. o \in Injection(1..n, S) BY <1>12, <1>14, Fun_IsInj
<1>16. o \in Surjection(1..n, S) BY <1>1, <1>2, <1>15, FS_Injection DEF n
<1>17. ToSet(o) = S
  <2>1. \A t \in S : \E i \in 1..n : o[i] = t BY <1>16 DEF Surjection
  <2> QED BY <1>12, <1>13, <2>1 DEF ToSet
<1>18. o \in Seq(Tasks)
  <2>1. o \in [1..n -> Tasks] BY <1>12
  <2>2. [1..n -> Tasks] \in {[1..k -> Tasks] : k \in Nat} BY <1>1
  <2>3. Seq(Tasks) = UNION {[1..k -> Tasks] : k \in Nat} BY SeqDef
  <2> QED BY <2>1, <2>2, <2>3
<1> QED BY <1>12, <1>13, <1>14, <1>17, <1>18 DEF o, IsInjective

(* Numbers have a least one. *)
LEMMA Least ==
  ASSUME NEW S, S \subseteq Nat, S # {}
  PROVE  \E i \in S : \A j \in S : i <= j
<1>1. PICK i \in S : \A j \in S : ~ (<<j, i>> \in OpToRel(<, Nat))
  BY NatLessThanWellFounded, WFMin
<1>2. \A j \in S : ~ (j < i) BY <1>1 DEF OpToRel
<1> QED BY <1>2

(* One turn of the loop of processQueue() moves at most one task, and it    *)
(* leaves no task waiting beside a free slot unless it started one.         *)
LEMMA ProcessMoves ==
  ASSUME NEW m, Shape(m), IsInjective(m.queue), NEW r, NEW max \in Nat
  PROVE  /\ \E X : Moves(m, ProcessQueue(m, r, max), r, X)
         /\ Busy(ProcessQueue(m, r, max), r, max)
<1> DEFINE p == ProcessQueue(m, r, max)
           waits == {i \in DOMAIN m.queue : r[m.queue[i]] = "queued"}
           first == CHOOSE i \in waits : \A j \in waits : i <= j
<1>1. CASE Cardinality(m.slots) >= max
  <2>1. p = m BY <1>1 DEF ProcessQueue
  <2>2. Moves(m, m, r, {}) BY DEF Moves, Shape
  <2>3. IsFiniteSet(m.slots)
    BY FiniteTasks DEF Shape
  <2>4. ~ (Cardinality(m.slots) < max) BY <1>1, <2>3, FS_CardinalityType
  <2> QED BY <2>1, <2>2, <2>4 DEF Busy
<1>2. CASE ~ (Cardinality(m.slots) >= max) /\ waits = {}
  <2>1. p = [m EXCEPT !.queue = <<>>] BY <1>2 DEF ProcessQueue
  <2>2. ToSet(<<>>) = {} BY DEF ToSet
  <2>3. IsInjective(<<>>) BY DEF IsInjective
  <2>4. \A u \in Queued(m.queue) : r[u] # "queued" BY <1>2 DEF Queued, ToSet
  <2>5. p.queue = <<>> /\ p.slots = m.slots /\ p.starting = m.starting /\ Shape(p)
    BY <2>1, EmptySeq DEF Shape
  <2> HIDE DEF p
  <2>6. Moves(m, p, r, {}) BY <2>2, <2>3, <2>4, <2>5 DEF Moves, Queued, Shape
  <2>7. Busy(p, r, max) BY <2>2, <2>5 DEF Busy, Queued
  <2> QED BY <2>6, <2>7 DEF p
<1>3. CASE ~ (Cardinality(m.slots) >= max) /\ waits # {}
  <2>1. /\ m.queue \in Seq(Tasks) /\ DOMAIN m.queue = 1..Len(m.queue)
        /\ Len(m.queue) \in Nat
    BY LenProperties DEF Shape
  <2>2. waits \subseteq Nat BY <2>1
  <2>3. \E i \in waits : \A j \in waits : i <= j BY <2>2, <1>3, Least
  <2>4. first \in waits /\ \A j \in waits : first <= j BY <2>3
  <2> DEFINE x == m.queue[first]
             q == SubSeq(m.queue, first + 1, Len(m.queue))
  <2>5. first \in 1..Len(m.queue) /\ r[x] = "queued" /\ x \in Queued(m.queue)
    BY <2>1, <2>4 DEF Queued, ToSet
  <2>6. p = Take([m EXCEPT !.queue = q], x, "loop") BY <1>3 DEF ProcessQueue
  <2>7. /\ q \in Seq(Tasks) /\ IsInjective(q)
        /\ Queued(q) = {m.queue[i] : i \in first+1..Len(m.queue)}
    BY <2>1, <2>5, AfterPlace DEF Queued
  <2>8. x \in Tasks BY <2>1, <2>5, QueuedTasks
  <2>9. Queued(q) \subseteq Queued(m.queue) \ {x}
    <3>1. ASSUME NEW i \in first+1..Len(m.queue) PROVE m.queue[i] \in Queued(m.queue) \ {x}
      <4> HIDE DEF first, waits
      <4>1. i \in DOMAIN m.queue /\ first \in DOMAIN m.queue /\ i # first BY <2>1, <2>5
      <4>2. m.queue[i] # x BY <4>1 DEF IsInjective
      <4> QED BY <4>1, <4>2 DEF Queued, ToSet
    <3> QED BY <3>1, <2>7
  <2>10. ASSUME NEW u \in Queued(m.queue) \ {x}, r[u] = "queued" PROVE u \in Queued(q)
    <3>1. PICK i \in DOMAIN m.queue : u = m.queue[i] BY DEF Queued, ToSet
    <3>2. i \in waits /\ i # first BY <3>1, <2>10
    <3>3. i \in first+1..Len(m.queue) BY <3>2, <2>1, <2>4, <2>5
    <3> QED BY <3>1, <3>3, <2>7
  <2> HIDE DEF x, first, waits, q
  <2> HIDE DEF p
  <2>11. /\ p.queue = q /\ p.slots = m.slots \cup {x} /\ Shape(p)
         /\ p.starting = [m.starting EXCEPT ![x] = "loop"]
    <3>1. p = [m EXCEPT !.queue = q, !.slots = @ \cup {x}, !.starting[x] = "loop"]
      BY <2>6 DEF Take
    <3> QED BY <3>1, <2>7, <2>8 DEF Shape
  <2>12. p.starting = [u \in Tasks |-> IF u \in {x} THEN "loop" ELSE m.starting[u]]
    BY <2>11, <2>8 DEF Shape
  <2>13. Moves(m, p, r, {x})
    BY <2>5, <2>7, <2>9, <2>10, <2>11, <2>12 DEF Moves
  <2>14. Busy(p, r, max) BY <2>8, <2>12 DEF Busy
  <2> QED BY <2>13, <2>14 DEF p
<1> QED BY <1>1, <1>2, <1>3

(* Nobody gets a second owner by it, and the rows still agree. *)
LEMMA ProcessKeeps ==
  ASSUME NEW m, NEW r, NEW L, NEW C, NEW R, NEW V, NEW D, NEW max \in Nat,
         Owners(m, r, L, C), Agrees(m, r, L, R, V, D)
  PROVE  /\ Owners(ProcessQueue(m, r, max), r, L, C)
         /\ Agrees(ProcessQueue(m, r, max), r, L, R, V, D)
         /\ Busy(ProcessQueue(m, r, max), r, max)
<1> DEFINE p == ProcessQueue(m, r, max)
<1>1. Shape(m) /\ IsInjective(m.queue) BY DEF Owners
<1>2. PICK X : Moves(m, p, r, X) BY <1>1, ProcessMoves
<1>3. Busy(p, r, max) BY <1>1, ProcessMoves
<1>4. X \subseteq Tasks /\ Queued(m.queue) \subseteq Tasks
  BY <1>1, <1>2, QueuedTasks DEF Moves, Shape
<1> HIDE DEF p
<1>5. ASSUME NEW t \in Tasks
      PROVE  p.starting[t] = (IF t \in X THEN "loop" ELSE m.starting[t])
  BY <1>2 DEF Moves
<1>6. Owners(p, r, L, C)
  <2>1. Shape(p) /\ IsInjective(p.queue) BY <1>2 DEF Moves
  <2>2. ASSUME NEW t \in Queued(p.queue)
        PROVE  t \notin p.slots \cup L \cup C /\ p.starting[t] = "no" /\ r[t] # "none"
    <3>1. t \in Queued(m.queue) /\ t \notin X BY <1>2 DEF Moves
    <3>2. t \notin m.slots \cup L \cup C /\ m.starting[t] = "no" /\ r[t] # "none"
      BY <3>1 DEF Owners
    <3> QED BY <3>1, <3>2, <1>2, <1>4, <1>5 DEF Moves
  <2>3. ASSUME NEW t \in Tasks
        PROVE  /\ t \in L \cup C => p.starting[t] = "no"
               /\ t \in C => t \notin p.slots
               /\ r[t] = "none" => t \notin p.slots /\ p.starting[t] = "no"
               /\ p.starting[t] # "no" /\ r[t] \in Ended => t \notin p.slots
    <3>1. CASE t \in X
      <4>1. t \in Queued(m.queue) /\ r[t] = "queued" BY <3>1, <1>2 DEF Moves
      <4> QED BY <4>1 DEF Owners, Ended
    <3>2. CASE t \notin X
      <4>1. p.starting[t] = m.starting[t] /\ (t \in p.slots <=> t \in m.slots)
        BY <3>2, <1>2, <1>5 DEF Moves
      <4> QED BY <4>1 DEF Owners
    <3> QED BY <3>1, <3>2
  <2> QED BY <2>1, <2>2, <2>3 DEF Owners
<1>7. Agrees(p, r, L, R, V, D)
  <2> SUFFICES ASSUME NEW t \in Tasks \ D
               PROVE  /\ r[t] = "queued" => t \in Queued(p.queue) \cup R \/ p.starting[t] # "no"
                      /\ t \in L => t \in p.slots \cup V
    BY DEF Agrees
  <2>1. t \in L => t \in p.slots \cup V BY <1>2 DEF Agrees, Moves
  <2>2. ASSUME r[t] = "queued", t \notin R, t \notin X
        PROVE  t \in Queued(p.queue) \/ p.starting[t] # "no"
    BY <2>2, <1>2, <1>5 DEF Agrees, Moves
  <2> QED BY <2>1, <2>2, <1>5
<1> QED BY <1>3, <1>6, <1>7 DEF p

(* What a turn of the loop does not touch. *)
LEMMA ProcessSpares ==
  ASSUME NEW m, NEW r, Shape(m), IsInjective(m.queue), NEW max \in Nat,
         NEW t \in Tasks, r[t] # "queued"
  PROVE  /\ t \in ProcessQueue(m, r, max).slots <=> t \in m.slots
         /\ ProcessQueue(m, r, max).starting[t] = m.starting[t]
<1> DEFINE p == ProcessQueue(m, r, max)
<1>1. PICK X : Moves(m, p, r, X) BY ProcessMoves
<1> HIDE DEF p
<1>2. t \notin X BY <1>1 DEF Moves
<1>3. (t \in p.slots <=> t \in m.slots) /\ p.starting[t] = m.starting[t]
  BY <1>1, <1>2 DEF Moves
<1> QED BY <1>3 DEF p

(* No slot becomes free, no task begins to wait, no start is forgotten. *)
LEMMA BusyStays ==
  ASSUME NEW m, NEW r, NEW p, NEW k, NEW max \in Nat, Busy(m, r, max),
         m.slots \subseteq p.slots, p.slots \subseteq Tasks,
         \A t \in Queued(p.queue) : k[t] = "queued" => t \in Queued(m.queue) /\ r[t] = "queued",
         \A t \in Tasks : m.starting[t] = "loop" => p.starting[t] = "loop"
  PROVE  Busy(p, k, max)
<1>1. IsFiniteSet(p.slots) /\ IsFiniteSet(m.slots) BY FiniteTasks
<1>2. Cardinality(m.slots) <= Cardinality(p.slots) BY <1>1, FS_Subset
<1>3. Cardinality(m.slots) \in Nat /\ Cardinality(p.slots) \in Nat
  BY <1>1, FS_CardinalityType
<1> QED BY <1>2, <1>3 DEF Busy

(* There is no room anyway. *)
LEMMA BusyWithoutRoom ==
  ASSUME NEW m, NEW r, NEW max \in Nat, m.slots \subseteq Tasks, Cardinality(m.slots) >= max
  PROVE  Busy(m, r, max)
<1>1. Cardinality(m.slots) \in Nat BY FiniteTasks, FS_CardinalityType
<1> QED BY <1>1 DEF Busy

-----------------------------------------------------------------------------
(* The same of the state, and of the state a step leads to.                *)

States == {"none", "pending", "queued", "executing", "interrupted"} \cup Ended

Owned ==
  /\ Owners(Mgr, row, live, retry \cup toResume)
  /\ Agrees(Mgr, row, live, retry, revived, dropped)

Placed(m) ==
  /\ Owners(m, row', live', retry' \cup toResume')
  /\ Agrees(m, row', live', retry', revived', dropped')

(* A task that waits for a timer or to be resumed has no executor. *)
Waits ==
  /\ \A t \in retry : row[t] = "queued" /\ t \notin live
  /\ \A t \in toResume : row[t] \in {"interrupted"} \cup Ended /\ t \notin live
  /\ \A t \in live : row[t] # "none"

Inductive == TypeOK /\ Owned /\ Waits /\ NoIdleSlot

LEMMA LimitNat == ASSUME limit \in Limits PROVE limit \in Nat /\ limit <= Ceiling
BY QueueAssumption

LEMMA MgrShape == TypeOK => Shape(Mgr)
BY DEF TypeOK, Shape, Mgr

LEMMA MgrNext ==
  ASSUME NEW m, Shape(m), Manager(m) PROVE Mgr' = m
BY DEF Shape, Manager, Mgr

LEMMA OwnedNext ==
  ASSUME NEW m, Placed(m), Manager(m) PROVE Owned'
<1>1. Shape(m) BY DEF Placed, Owners
<1>2. Mgr' = m BY <1>1, MgrNext
<1> QED BY <1>2 DEF Owned, Placed

LEMMA PlacedProcess ==
  ASSUME NEW m, Placed(m), NEW max \in Nat
  PROVE  /\ Placed(ProcessQueue(m, row', max))
         /\ Busy(ProcessQueue(m, row', max), row', max)
BY ProcessKeeps DEF Placed

LEMMA PlacedLess ==
  ASSUME NEW m, Placed(m), NEW t \in Tasks, t \notin live'
  PROVE  Placed([m EXCEPT !.slots = @ \ {t}])
<1> DEFINE p == [m EXCEPT !.slots = @ \ {t}]
<1>1. Shape(m) BY DEF Placed, Owners
<1>2. p.queue = m.queue /\ p.starting = m.starting /\ p.slots = m.slots \ {t} /\ Shape(p)
  BY <1>1 DEF Shape
<1> HIDE DEF p
<1>3. Owners(p, row', live', retry' \cup toResume') BY <1>2 DEF Placed, Owners
<1>4. Agrees(p, row', live', retry', revived', dropped') BY <1>2 DEF Placed, Agrees
<1> QED BY <1>3, <1>4 DEF Placed, p

LEMMA PlacedReset ==
  ASSUME NEW m, Placed(m), NEW t \in Tasks, row'[t] # "queued"
  PROVE  Placed([m EXCEPT !.starting[t] = "no"])
<1> DEFINE p == [m EXCEPT !.starting[t] = "no"]
<1>1. Shape(m) BY DEF Placed, Owners
<1>2. /\ p.queue = m.queue /\ p.slots = m.slots /\ Shape(p)
      /\ \A u \in Tasks : p.starting[u] = IF u = t THEN "no" ELSE m.starting[u]
  BY <1>1 DEF Shape
<1>3. Queued(m.queue) \subseteq Tasks BY <1>1, QueuedTasks DEF Shape
<1> HIDE DEF p
<1>4. Owners(p, row', live', retry' \cup toResume') BY <1>2, <1>3 DEF Placed, Owners
<1>5. Agrees(p, row', live', retry', revived', dropped') BY <1>2 DEF Placed, Agrees
<1> QED BY <1>4, <1>5 DEF Placed, p

(* What the code knows of the owners in a state, in plain words. *)
LEMMA OwnedFacts ==
  ASSUME Owned
  PROVE  /\ queue \in Seq(Tasks) /\ IsInjective(queue) /\ Queued(queue) \subseteq Tasks
         /\ slots \subseteq Tasks /\ starting \in [Tasks -> {"no", "direct", "loop"}]
         /\ \A t \in Queued(queue) :
              t \notin slots \cup live \cup retry \cup toResume /\ starting[t] = "no" /\ row[t] # "none"
         /\ \A t \in Tasks :
              /\ t \in live \cup retry \cup toResume => starting[t] = "no"
              /\ t \in retry \cup toResume => t \notin slots
              /\ row[t] = "none" => t \notin slots /\ starting[t] = "no"
              /\ starting[t] # "no" /\ row[t] \in Ended => t \notin slots
         /\ \A t \in Tasks \ dropped :
              /\ row[t] = "queued" => t \in Queued(queue) \cup retry \/ starting[t] # "no"
              /\ t \in live => t \in slots \cup revived
<1>1. Mgr.queue = queue /\ Mgr.slots = slots /\ Mgr.starting = starting BY DEF Mgr
<1>2. Shape(Mgr) BY DEF Owned, Owners
<1>3. queue \in Seq(Tasks) /\ slots \subseteq Tasks /\ starting \in [Tasks -> {"no", "direct", "loop"}]
  BY <1>1, <1>2 DEF Shape
<1> HIDE DEF Mgr
<1>4. Queued(queue) \subseteq Tasks BY <1>3, QueuedTasks
<1> QED BY <1>1, <1>3, <1>4 DEF Owned, Owners, Agrees

(* The row of a task ends, and its executor is gone. *)
LEMMA EndPlaces ==
  ASSUME Owned, TypeOK, NEW t \in Tasks, NEW s \in Ended, EndRow(t, s),
         live' \subseteq live, live \subseteq live' \cup {t}, t \notin live',
         UNCHANGED <<toResume, revived, dropped>>
  PROVE  /\ Placed([Mgr EXCEPT !.slots = @ \ {t}])
         /\ row[t] \in Ended => Placed(Mgr)
         /\ row'[t] \in Ended
<1> DEFINE p == [Mgr EXCEPT !.slots = @ \ {t}]
<1>1. /\ p.queue = queue /\ p.starting = starting /\ p.slots = slots \ {t} /\ Shape(p)
      /\ Mgr.queue = queue /\ Mgr.starting = starting /\ Mgr.slots = slots /\ Shape(Mgr)
  BY MgrShape DEF Mgr, Shape
<1> HIDE DEF p, Mgr
<1>2. /\ row'[t] \in Ended /\ \A u \in Tasks \ {t} : row'[u] = row[u]
      /\ row[t] \in Ended => row' = row /\ retry' = retry
      /\ retry' \subseteq retry /\ retry \subseteq retry' \cup {t}
  BY DEF EndRow, TypeOK, Ended
<1>3. Owners(p, row', live', retry' \cup toResume')
  BY <1>1, <1>2, OwnedFacts DEF Owners, Ended
<1>4. Agrees(p, row', live', retry', revived', dropped')
  BY <1>1, <1>2, OwnedFacts DEF Agrees, Ended
<1>5. ASSUME row[t] \in Ended PROVE Placed(Mgr)
  BY <1>1, <1>2, <1>5, OwnedFacts DEF Placed, Owners, Agrees, Ended
<1> QED BY <1>2, <1>3, <1>4, <1>5 DEF Placed, p

LEMMA FinishPlaces ==
  ASSUME Owned, TypeOK, NEW t \in Tasks, NEW s \in Ended, EndRow(t, s),
         live' \subseteq live, live \subseteq live' \cup {t}, t \notin live',
         UNCHANGED <<toResume, revived, dropped>>
  PROVE  /\ Placed(Finish(Mgr, t, row')) /\ Busy(Finish(Mgr, t, row'), row', limit)
         /\ Placed(FailTask(Mgr, t))
<1>1. limit \in Nat BY LimitNat DEF TypeOK
<1>2. Placed(Finish(Mgr, t, row')) /\ Busy(Finish(Mgr, t, row'), row', limit)
  BY <1>1, EndPlaces, PlacedProcess DEF Finish
<1> QED BY <1>2, EndPlaces DEF FailTask

(* A task that nobody has is handed to enqueue(). *)
LEMMA EnqueuePlaces ==
  ASSUME Owned, TypeOK, NEW t \in Tasks, NEW r \in [Tasks -> States], NEW b, Enqueue(t, r, b),
         t \notin Queued(queue) \cup slots \cup live, starting[t] = "no",
         r[t] \notin Ended \cup {"none"}, \A u \in Tasks \ {t} : r[u] = row[u],
         t \notin retry' \cup toResume',
         retry' \cup toResume' \subseteq retry \cup toResume, retry \subseteq retry' \cup {t},
         UNCHANGED <<live, revived, dropped, limit>>
  PROVE  /\ Owned'
         /\ Busy(Mgr, row, limit) => Busy(Mgr', row', limit')
         /\ row' \in [Tasks -> States] /\ row'[t] \in {r[t], "queued"}
         /\ \A u \in Tasks \ {t} : row'[u] = row[u]
<1>1. limit \in Nat /\ limit <= Ceiling /\ Ceiling \in Nat
  BY LimitNat, QueueAssumption DEF TypeOK
<1>2. Mgr.queue = queue /\ Mgr.starting = starting /\ Mgr.slots = slots /\ Shape(Mgr)
  BY MgrShape DEF Mgr
<1>3. CASE Goes(t, b)
  <2> DEFINE p == Take(Mgr, t, "direct")
  <2>1. row' = r /\ Manager(p) BY <1>3 DEF Enqueue
  <2>2. /\ p.queue = queue /\ p.slots = slots \cup {t} /\ Shape(p)
        /\ \A u \in Tasks : p.starting[u] = IF u = t THEN "direct" ELSE starting[u]
    BY <1>2 DEF Take, Shape
  <2> HIDE DEF p, Mgr
  <2>3. Owners(p, row', live', retry' \cup toResume')
    BY <2>1, <2>2, OwnedFacts DEF Owners
  <2>4. Agrees(p, row', live', retry', revived', dropped')
    BY <2>1, <2>2, OwnedFacts DEF Agrees
  <2>5. Busy(Mgr, row, limit) => Busy(p, row', limit)
    <3> SUFFICES ASSUME Busy(Mgr, row, limit) PROVE Busy(p, row', limit) OBVIOUS
    <3>1. \A u \in Queued(p.queue) : row'[u] = "queued" => u \in Queued(Mgr.queue) /\ row[u] = "queued"
      BY <1>2, <2>1, <2>2, OwnedFacts
    <3>2. \A u \in Tasks : Mgr.starting[u] = "loop" => p.starting[u] = "loop"
      BY <1>2, <2>2
    <3>3. Mgr.slots \subseteq p.slots /\ p.slots \subseteq Tasks BY <1>2, <2>2, OwnedFacts
    <3> QED BY <1>1, <3>1, <3>2, <3>3, BusyStays
  <2>6. Mgr' = p BY <2>1, <2>2, MgrNext
  <2> QED BY <2>1, <2>3, <2>4, <2>5, <2>6, OwnedNext DEF Placed
<1>4. CASE ~ Goes(t, b)
  <2> DEFINE q == Append(queue, t)
             p == [Mgr EXCEPT !.queue = Append(@, t)]
  <2>1. row' = [r EXCEPT ![t] = "queued"] /\ Manager(p) BY <1>4 DEF Enqueue
  <2>2. q \in Seq(Tasks) /\ IsInjective(q) /\ Queued(q) = Queued(queue) \cup {t}
    BY OwnedFacts, Appended DEF Queued
  <2>3. /\ p.queue = q /\ p.slots = slots /\ p.starting = starting /\ Shape(p)
    BY <1>2, <2>2 DEF Shape
  <2>4. /\ row'[t] = "queued" /\ \A u \in Tasks \ {t} : row'[u] = row[u]
        /\ row' \in [Tasks -> States]
    BY <2>1 DEF States
  <2> HIDE DEF p, q, Mgr
  <2>5. Owners(p, row', live', retry' \cup toResume')
    BY <2>2, <2>3, <2>4, OwnedFacts DEF Owners, Ended
  <2>6. Agrees(p, row', live', retry', revived', dropped')
    BY <2>2, <2>3, <2>4, OwnedFacts DEF Agrees
  <2>7. Busy(p, row', limit)
    <3>1. Cardinality(slots) \in Nat BY OwnedFacts, FiniteTasks, FS_CardinalityType
    <3>2. Cardinality(slots) >= limit BY <1>1, <1>4, <3>1 DEF Goes
    <3> QED BY <1>1, <2>3, <3>2, OwnedFacts, BusyWithoutRoom
  <2>8. Mgr' = p BY <2>1, <2>3, MgrNext
  <2> QED BY <2>1, <2>4, <2>5, <2>6, <2>7, <2>8, OwnedNext DEF Placed
<1> QED BY <1>3, <1>4

-----------------------------------------------------------------------------
(* Every step of a task keeps the owners and looks after the queue.        *)

LEMMA IdleBusy == NoIdleSlot <=> Sweeping \/ Busy(Mgr, row, limit)
BY DEF NoIdleSlot, Busy, Mgr

LEMMA Arrives ==
  ASSUME NEW m, Placed(m), Manager(m), Busy(m, row', limit') \/ Sweeping'
  PROVE  Owned' /\ NoIdleSlot'
<1>1. Mgr' = m BY MgrNext DEF Placed, Owners
<1> QED BY <1>1, OwnedNext DEF NoIdleSlot, Busy, Mgr

LEMMA Remains ==
  ASSUME Owned, NoIdleSlot, Placed(Mgr), UNCHANGED <<manager, limit>>, limit \in Limits,
         Sweeping => Sweeping',
         \A t \in Queued(queue) : row'[t] = "queued" => row[t] = "queued"
  PROVE  Owned' /\ NoIdleSlot'
<1>1. Manager(Mgr) BY DEF Manager, Mgr, manager
<1>2. limit \in Nat BY LimitNat
<1>3. Sweeping \/ Busy(Mgr, row, limit) BY IdleBusy
<1>4. Busy(Mgr, row, limit) => Busy(Mgr, row', limit)
  BY DEF Busy, Mgr
<1> QED BY <1>1, <1>3, <1>4, Arrives

LEMMA SubmitKeeps ==
  ASSUME Inductive, NEW t \in Tasks, NEW b, Submit(t, b)
  PROVE  Owned' /\ NoIdleSlot'
<1> DEFINE r == [row EXCEPT ![t] = "pending"]
<1>1. /\ row[t] = "none" /\ Enqueue(t, r, bypass')
      /\ UNCHANGED <<live, revived, dropped, limit, retry, toResume, sweep, halting>>
  BY DEF Submit, Created, daemon, history
<1>2. r \in [Tasks -> States] /\ r[t] = "pending" /\ \A u \in Tasks \ {t} : r[u] = row[u]
  BY DEF Inductive, TypeOK, States
<1>3. t \notin Queued(queue) \cup slots \cup live \cup retry \cup toResume /\ starting[t] = "no"
  BY <1>1, OwnedFacts DEF Inductive, Waits, Ended
<1> HIDE DEF r
<1>4. Owned' /\ (Busy(Mgr, row, limit) => Busy(Mgr', row', limit'))
  BY <1>1, <1>2, <1>3, EnqueuePlaces DEF Inductive, Ended
<1>5. Sweeping => Sweeping' BY <1>1 DEF Sweeping
<1> QED BY <1>4, <1>5, IdleBusy DEF Inductive, NoIdleSlot, Busy, Mgr

LEMMA LaunchKeeps ==
  ASSUME Inductive, NEW t \in Tasks, Launch(t)
  PROVE  Owned' /\ NoIdleSlot'
<1> DEFINE n == [Mgr EXCEPT !.starting[t] = "no"]
<1>1. /\ starting[t] # "no" /\ row' = [row EXCEPT ![t] = "executing"]
      /\ live' = live \cup {t} /\ Manager(Settle(t, Mgr, row'))
      /\ revived' = IF row[t] \in Ended \/ t \notin slots THEN revived \cup {t} ELSE revived
      /\ UNCHANGED <<limit, sweep, halting, retry, toResume, dropped>>
  BY DEF Launch
<1>2. /\ n.queue = queue /\ n.slots = slots /\ Shape(n)
      /\ Mgr.queue = queue /\ Mgr.slots = slots /\ Mgr.starting = starting
      /\ \A u \in Tasks : n.starting[u] = IF u = t THEN "no" ELSE starting[u]
  BY MgrShape DEF Inductive, Mgr, Shape
<1>3. row'[t] = "executing" /\ \A u \in Tasks \ {t} : row'[u] = row[u]
  BY <1>1 DEF Inductive, TypeOK
<1>4. Settle(t, Mgr, row') = IF starting[t] = "loop" THEN ProcessQueue(n, row', limit) ELSE n
  BY DEF Settle
<1>5. limit \in Nat BY LimitNat DEF Inductive, TypeOK
<1> HIDE DEF n, Mgr
<1>6. Owners(n, row', live', retry' \cup toResume')
  BY <1>1, <1>2, <1>3, OwnedFacts DEF Inductive, Owners, Ended
<1>7. Agrees(n, row', live', retry', revived', dropped')
  BY <1>1, <1>2, <1>3, OwnedFacts DEF Inductive, Agrees
<1>8. Placed(n) BY <1>6, <1>7 DEF Placed
<1>9. CASE starting[t] = "loop"
  BY <1>1, <1>4, <1>5, <1>8, <1>9, PlacedProcess, Arrives
<1>10. CASE starting[t] # "loop"
  <2>1. Manager(n) BY <1>1, <1>4, <1>10
  <2>2. Sweeping => Sweeping' BY <1>1 DEF Sweeping
  <2>3. ASSUME Busy(Mgr, row, limit) PROVE Busy(n, row', limit)
    <3>1. \A u \in Queued(n.queue) : row'[u] = "queued" => u \in Queued(Mgr.queue) /\ row[u] = "queued"
      BY <1>2, <1>3, OwnedFacts DEF Inductive
    <3>2. \A u \in Tasks : Mgr.starting[u] = "loop" => n.starting[u] = "loop"
      BY <1>2, <1>10
    <3>3. Mgr.slots \subseteq n.slots /\ n.slots \subseteq Tasks
      BY <1>2, OwnedFacts DEF Inductive
    <3> QED BY <1>5, <2>3, <3>1, <3>2, <3>3, BusyStays
  <2> QED BY <1>1, <1>8, <2>1, <2>2, <2>3, IdleBusy, Arrives DEF Inductive
<1> QED BY <1>9, <1>10

LEMMA StartFailsKeeps ==
  ASSUME Inductive, NEW t \in Tasks, StartFails(t)
  PROVE  Owned' /\ NoIdleSlot'
<1> DEFINE m == FailTask(Mgr, t)
           k == [m EXCEPT !.slots = @ \ {t}]
           n == [k EXCEPT !.starting[t] = "no"]
<1>1. /\ starting[t] # "no" /\ EndRow(t, "failed") /\ Manager(Settle(t, k, row'))
      /\ UNCHANGED <<limit, sweep, live, halting, toResume, revived, dropped>>
  BY DEF StartFails, history
<1>2. Settle(t, k, row') = IF starting[t] = "loop" THEN ProcessQueue(n, row', limit) ELSE n
  BY DEF Settle
<1>3. limit \in Nat BY LimitNat DEF Inductive, TypeOK
<1>4. t \notin live /\ "failed" \in Ended
  BY <1>1, OwnedFacts DEF Inductive, Ended
<1>5. Placed(m) /\ row'[t] \in Ended
  BY <1>1, <1>4, FinishPlaces, EndPlaces DEF Inductive
<1>6. row'[t] # "queued" BY <1>5 DEF Ended
<1> HIDE DEF m
<1>7. Placed(k) BY <1>1, <1>4, <1>5, PlacedLess
<1> HIDE DEF k
<1>8. Placed(n) BY <1>6, <1>7, PlacedReset
<1>9. CASE starting[t] = "loop"
  BY <1>1, <1>2, <1>3, <1>8, <1>9, PlacedProcess, Arrives
<1>10. CASE starting[t] # "loop"
  <2>1. Manager(n) BY <1>1, <1>2, <1>10
  <2>2. Sweeping => Sweeping' BY <1>1 DEF Sweeping
  <2>3. t \notin m.slots /\ m.starting[t] = starting[t]
    <3>1. CASE row[t] \in Ended
      <4>1. m = Mgr BY <3>1 DEF m, FailTask
      <4>2. Mgr.slots = slots /\ Mgr.starting = starting BY DEF Mgr
      <4>3. t \notin slots BY <1>1, <3>1, OwnedFacts DEF Inductive
      <4> QED BY <4>1, <4>2, <4>3
    <3>2. CASE row[t] \notin Ended
      <4> DEFINE l == [Mgr EXCEPT !.slots = @ \ {t}]
      <4>1. m = ProcessQueue(l, row', limit) BY <3>2 DEF m, FailTask, Finish
      <4>2. Placed(l) BY <1>1, <1>4, EndPlaces DEF Inductive
      <4>3. Shape(l) /\ IsInjective(l.queue) BY <4>2 DEF Placed, Owners
      <4>4. t \notin l.slots /\ l.starting = starting BY DEF Mgr
      <4> HIDE DEF l
      <4> QED BY <1>3, <1>6, <4>1, <4>3, <4>4, ProcessSpares
    <3> QED BY <3>1, <3>2
  <2>4. Sweeping' \/ Busy(m, row', limit)
    <3>1. CASE row[t] \in Ended
      <4>1. m = Mgr /\ row' = row BY <1>1, <3>1 DEF m, FailTask, EndRow
      <4> QED BY <2>2, <4>1, IdleBusy DEF Inductive
    <3>2. CASE row[t] \notin Ended
      <4>1. m = Finish(Mgr, t, row') BY <3>2 DEF m, FailTask
      <4> QED BY <1>1, <1>4, <4>1, FinishPlaces DEF Inductive
    <3> QED BY <3>1, <3>2
  <2>5. ASSUME Busy(m, row', limit) PROVE Busy(n, row', limit)
    <3>1. Shape(m) BY <1>5 DEF Placed, Owners
    <3>2. /\ n.queue = m.queue /\ n.slots = m.slots
          /\ \A u \in Tasks : n.starting[u] = IF u = t THEN "no" ELSE m.starting[u]
      BY <2>3, <3>1 DEF Shape, k
    <3>3. m.slots \subseteq Tasks BY <3>1 DEF Shape
    <3> HIDE DEF n
    <3>4. \A u \in Tasks : m.starting[u] = "loop" => n.starting[u] = "loop"
      BY <1>10, <2>3, <3>2
    <3> QED BY <1>3, <2>5, <3>2, <3>3, <3>4, BusyStays
  <2> QED BY <1>1, <1>8, <2>1, <2>4, <2>5, Arrives
<1> QED BY <1>9, <1>10

(* completeTask() and failTask(), when the executor is gone. *)
LEMMA EndKeeps ==
  ASSUME Inductive, NEW t \in Tasks, NEW s \in Ended, EndRow(t, s), Manager(FailTask(Mgr, t)),
         live' = live \ {t}, UNCHANGED <<limit, sweep, halting, toResume, revived, dropped>>
  PROVE  Owned' /\ NoIdleSlot'
<1>2. Placed(FailTask(Mgr, t)) BY FinishPlaces DEF Inductive
<1>3. Busy(FailTask(Mgr, t), row', limit) \/ Sweeping'
  <2>1. CASE row[t] \in Ended
    <3>1. FailTask(Mgr, t) = Mgr /\ row' = row BY <2>1 DEF FailTask, EndRow
    <3>2. Sweeping => Sweeping' BY DEF Sweeping
    <3> QED BY <3>1, <3>2, IdleBusy DEF Inductive
  <2>2. CASE row[t] \notin Ended
    <3>1. FailTask(Mgr, t) = Finish(Mgr, t, row') BY <2>2 DEF FailTask
    <3> QED BY <3>1, FinishPlaces DEF Inductive
  <2> QED BY <2>1, <2>2
<1> QED BY <1>2, <1>3, Arrives

LEMMA RefusedKeeps ==
  ASSUME Inductive, NEW t \in Tasks, Refused(t)
  PROVE  Owned' /\ NoIdleSlot'
<1>1. UNCHANGED <<live, limit, sweep, halting, toResume, revived, dropped>>
  BY DEF Refused, history
<1>2. t \notin live
  <2>1. row[t] = "none" => t \notin live BY DEF Inductive, Waits, Ended
  <2> QED BY <2>1 DEF Refused, Created
<1>3. CASE EndRow(t, "failed") /\ Manager(FailTask(Mgr, t))
  <2>1. "failed" \in Ended /\ live' = live \ {t} BY <1>1, <1>2 DEF Ended
  <2> QED BY <1>1, <1>3, <2>1, EndKeeps
<1>4. CASE row[t] = "none" /\ row' = [row EXCEPT ![t] = "pending"] /\ UNCHANGED <<manager, retry>>
  <2>1. row'[t] = "pending" /\ \A u \in Tasks \ {t} : row'[u] = row[u]
    BY <1>4 DEF Inductive, TypeOK
  <2>2. t \notin Queued(queue) \cup slots \cup live \cup retry \cup toResume /\ starting[t] = "no"
    BY <1>4, OwnedFacts DEF Inductive, Waits, Ended
  <2>3. Mgr.queue = queue /\ Mgr.slots = slots /\ Mgr.starting = starting /\ Shape(Mgr)
    BY MgrShape DEF Mgr, Inductive
  <2> HIDE DEF Mgr
  <2>4. Owners(Mgr, row', live', retry' \cup toResume')
    BY <1>1, <1>4, <2>1, <2>2, <2>3, OwnedFacts DEF Inductive, Owners, Ended
  <2>5. Agrees(Mgr, row', live', retry', revived', dropped')
    BY <1>1, <1>4, <2>1, <2>2, <2>3, OwnedFacts DEF Inductive, Agrees
  <2>6. Sweeping => Sweeping' BY <1>1 DEF Sweeping
  <2> QED BY <1>1, <1>4, <2>1, <2>2, <2>4, <2>5, <2>6, Remains DEF Inductive, TypeOK, Placed
<1> QED BY <1>3, <1>4 DEF Refused

LEMMA RunFailsKeeps ==
  ASSUME Inductive, NEW t \in Tasks, RunFails(t)
  PROVE  Owned' /\ NoIdleSlot'
<1>1. /\ t \in live /\ EndRow(t, "failed") /\ live' = live \ {t}
      /\ UNCHANGED <<manager, limit, sweep, halting, toResume, revived, dropped>>
  BY DEF RunFails, Leaves, history
<1>2. Mgr.queue = queue /\ Mgr.starting = starting /\ Mgr.slots = slots /\ Shape(Mgr)
  BY MgrShape DEF Mgr, Inductive
<1>3. /\ row'[t] \in Ended /\ \A u \in Tasks \ {t} : row'[u] = row[u]
      /\ retry' \subseteq retry /\ retry \subseteq retry' \cup {t}
  BY <1>1 DEF EndRow, Inductive, TypeOK, Ended
<1> HIDE DEF Mgr
<1>4. Placed(Mgr)
  <2>1. Owners(Mgr, row', live', retry' \cup toResume')
    BY <1>1, <1>2, <1>3, OwnedFacts DEF Inductive, Owners, Ended
  <2>2. Agrees(Mgr, row', live', retry', revived', dropped')
    BY <1>1, <1>2, <1>3, OwnedFacts DEF Inductive, Agrees, Ended
  <2> QED BY <2>1, <2>2 DEF Placed
<1>5. \A u \in Queued(queue) : row'[u] = "queued" => row[u] = "queued"
  BY <1>3, OwnedFacts DEF Inductive, Ended
<1>6. Sweeping => Sweeping' BY <1>1 DEF Sweeping
<1> QED BY <1>1, <1>4, <1>5, <1>6, Remains DEF Inductive, TypeOK

LEMMA RunFailsTransientlyKeeps ==
  ASSUME Inductive, NEW t \in Tasks, RunFailsTransiently(t)
  PROVE  Owned' /\ NoIdleSlot'
<1> DEFINE p == [Mgr EXCEPT !.slots = @ \ {t}]
<1>1. /\ t \in live /\ row' = [row EXCEPT ![t] = "queued"] /\ live' = live \ {t}
      /\ retry' = retry \cup {t} /\ Manager(Finish(Mgr, t, row'))
      /\ UNCHANGED <<limit, toResume, revived, dropped>>
  BY DEF RunFailsTransiently, Leaves, history
<1>2. /\ p.queue = queue /\ p.starting = starting /\ p.slots = slots \ {t} /\ Shape(p)
  BY MgrShape DEF Mgr, Shape, Inductive
<1>3. row'[t] = "queued" /\ \A u \in Tasks \ {t} : row'[u] = row[u]
  BY <1>1 DEF Inductive, TypeOK
<1>4. limit \in Nat BY LimitNat DEF Inductive, TypeOK
<1>5. Finish(Mgr, t, row') = ProcessQueue(p, row', limit) BY DEF Finish
<1> HIDE DEF p
<1>6. Owners(p, row', live', retry' \cup toResume')
  BY <1>1, <1>2, <1>3, OwnedFacts DEF Inductive, Owners, Ended
<1>7. Agrees(p, row', live', retry', revived', dropped')
  BY <1>1, <1>2, <1>3, OwnedFacts DEF Inductive, Agrees
<1> QED BY <1>1, <1>4, <1>5, <1>6, <1>7, PlacedProcess, Arrives DEF Placed

LEMMA RetryFiresKeeps ==
  ASSUME Inductive, NEW t \in Tasks, RetryFires(t)
  PROVE  Owned' /\ NoIdleSlot'
<1>1. /\ t \in retry /\ retry' = retry \ {t}
      /\ UNCHANGED <<live, limit, sweep, halting, toResume, revived, dropped>>
  BY DEF RetryFires, history
<1>2. row[t] = "queued" /\ t \notin toResume /\ t \notin live
  BY <1>1 DEF Inductive, Waits, Ended
<1>3. t \notin Queued(queue) \cup slots /\ starting[t] = "no"
  BY <1>1, OwnedFacts DEF Inductive
<1>4. Enqueue(t, row, bypass) BY <1>2, <1>3 DEF RetryFires
<1>5. row \in [Tasks -> States] BY DEF Inductive, TypeOK, States
<1>6. row[t] \notin Ended \cup {"none"} BY <1>2 DEF Ended
<1>7. /\ t \notin retry' \cup toResume' /\ retry \subseteq retry' \cup {t}
      /\ retry' \cup toResume' \subseteq retry \cup toResume
  BY <1>1, <1>2
<1>8. Owned' /\ (Busy(Mgr, row, limit) => Busy(Mgr', row', limit'))
  BY <1>1, <1>2, <1>3, <1>4, <1>5, <1>6, <1>7, EnqueuePlaces DEF Inductive
<1>9. Sweeping => Sweeping' BY <1>1 DEF Sweeping
<1> QED BY <1>8, <1>9, IdleBusy DEF Inductive, NoIdleSlot, Busy, Mgr

LEMMA CancelKeeps ==
  ASSUME Inductive, NEW t \in Tasks, Cancel(t)
  PROVE  Owned' /\ NoIdleSlot'
<1>1. /\ t \notin live /\ EndRow(t, "cancelled") /\ "cancelled" \in Ended
      /\ UNCHANGED <<live, limit, sweep, halting, toResume, revived, dropped>>
  BY DEF Cancel, history, Ended
<1>2. limit \in Nat BY LimitNat DEF Inductive, TypeOK
<1>3. CASE t \notin Queued(queue)
  <2>1. Manager(Finish(Mgr, t, row')) BY <1>3 DEF Cancel
  <2> QED BY <1>1, <2>1, FinishPlaces, Arrives DEF Inductive
<1>4. CASE t \in Queued(queue)
  <2> DEFINE q == RemoveFirst(queue, t)
             p == [Mgr EXCEPT !.queue = RemoveFirst(@, t)]
  <2>1. Manager(p) BY <1>4 DEF Cancel
  <2>2. q \in Seq(Tasks) /\ IsInjective(q) /\ Queued(q) = Queued(queue) \ {t}
    BY <1>4, OwnedFacts, Removed DEF Queued, Inductive
  <2>3. /\ p.queue = q /\ p.slots = slots /\ p.starting = starting /\ Shape(p)
        /\ Mgr.queue = queue /\ Mgr.slots = slots /\ Mgr.starting = starting
    BY <2>2, MgrShape DEF Mgr, Shape, Inductive
  <2>4. /\ row'[t] \in Ended /\ \A u \in Tasks \ {t} : row'[u] = row[u]
        /\ retry' \subseteq retry /\ retry \subseteq retry' \cup {t}
    BY <1>1 DEF EndRow, Inductive, TypeOK, Ended
  <2> HIDE DEF p, q, Mgr
  <2>5. Owners(p, row', live', retry' \cup toResume')
    BY <1>1, <1>4, <2>2, <2>3, <2>4, OwnedFacts DEF Inductive, Owners, Ended
  <2>6. Agrees(p, row', live', retry', revived', dropped')
    BY <1>1, <2>2, <2>3, <2>4, OwnedFacts DEF Inductive, Agrees, Ended
  <2>7. Sweeping => Sweeping' BY <1>1 DEF Sweeping
  <2>8. ASSUME Busy(Mgr, row, limit) PROVE Busy(p, row', limit)
    <3>1. \A u \in Queued(p.queue) : row'[u] = "queued" => u \in Queued(Mgr.queue) /\ row[u] = "queued"
      BY <2>2, <2>3, <2>4, OwnedFacts DEF Inductive
    <3>2. Mgr.slots \subseteq p.slots /\ p.slots \subseteq Tasks
      BY <2>3, OwnedFacts DEF Inductive
    <3> QED BY <1>2, <2>3, <2>8, <3>1, <3>2, BusyStays
  <2> QED BY <1>1, <2>1, <2>5, <2>6, <2>7, <2>8, IdleBusy, Arrives DEF Inductive, Placed
<1> QED BY <1>3, <1>4

LEMMA CancelEndedKeeps ==
  ASSUME Inductive, NEW t \in Tasks, CancelEnded(t)
  PROVE  Owned' /\ NoIdleSlot'
<1>1. /\ t \notin live /\ EndRow(t, "cancelled") /\ "cancelled" \in Ended
      /\ Manager(Finish(Mgr, t, row'))
      /\ UNCHANGED <<live, limit, toResume, revived, dropped>>
  BY DEF CancelEnded, history, Ended, EndRow
<1> QED BY <1>1, FinishPlaces, Arrives DEF Inductive

LEMMA CancelHaltedKeeps ==
  ASSUME Inductive, NEW t \in Tasks, CancelHalted(t)
  PROVE  Owned' /\ NoIdleSlot'
<1>1. /\ live' = live \ {t} /\ EndRow(t, "cancelled") /\ "cancelled" \in Ended
      /\ Manager(Finish(Mgr, t, row'))
      /\ UNCHANGED <<limit, toResume, revived, dropped>>
  BY DEF CancelHalted, Halted, history, Ended
<1> QED BY <1>1, FinishPlaces, Arrives DEF Inductive

LEMMA SweepEndsKeeps ==
  ASSUME Inductive, NEW t \in Tasks, SweepEnds(t), t \notin live',
         live' \subseteq live, live \subseteq live' \cup {t}
  PROVE  Owned' /\ NoIdleSlot'
<1> DEFINE m == FailTask(Mgr, t)
           n == [m EXCEPT !.slots = @ \ {t}]
           k == ProcessQueue(n, row', limit)
<1>1. /\ EndRow(t, "failed") /\ "failed" \in Ended
      /\ Manager(k) \/ (sweep' # {} /\ Manager(n))
      /\ UNCHANGED <<limit, toResume, revived, dropped>>
  BY DEF SweepEnds, history, Ended
<1>2. limit \in Nat BY LimitNat DEF Inductive, TypeOK
<1>3. Placed(m) BY <1>1, FinishPlaces DEF Inductive
<1> HIDE DEF m
<1>4. Placed(n) BY <1>3, PlacedLess
<1> HIDE DEF n
<1>5. CASE Manager(k) BY <1>1, <1>2, <1>4, <1>5, PlacedProcess, Arrives
<1>6. CASE sweep' # {} /\ Manager(n) BY <1>1, <1>4, <1>6, Arrives DEF Sweeping
<1> QED BY <1>1, <1>5, <1>6

LEMMA ClearHaltedKeeps ==
  ASSUME Inductive, NEW t \in Tasks, NEW ok \in BOOLEAN, ClearHalted(t, ok)
  PROVE  Owned' /\ NoIdleSlot'
<1>1. /\ halting[t] = "clear"
      /\ \A u \in Tasks \ {t} : halting'[u] = halting[u]
      /\ live' \subseteq live /\ dropped' = dropped \cup {t}
      /\ UNCHANGED <<row, manager, limit, sweep, retry, toResume, revived>>
  BY DEF ClearHalted, Inductive, TypeOK
<1>2. Placed(Mgr)
  BY <1>1 DEF Inductive, Owned, Placed, Owners, Agrees
<1>3. Sweeping => Sweeping' BY <1>1 DEF Sweeping, Inductive, TypeOK
<1> QED BY <1>1, <1>2, <1>3, Remains DEF Inductive, TypeOK

LEMMA ResumeKeeps ==
  ASSUME Inductive, NEW t \in Tasks, Resume(t)
  PROVE  Owned' /\ NoIdleSlot'
<1>1. /\ t \in toResume /\ toResume' = toResume \ {t}
      /\ UNCHANGED <<limit, sweep, halting, retry, revived, dropped>>
  BY DEF Resume, history
<1>2. /\ t \notin Queued(queue) \cup slots \cup live \cup retry /\ starting[t] = "no"
      /\ row[t] \in {"interrupted"} \cup Ended
  BY <1>1, OwnedFacts DEF Inductive, Waits, Ended
<1>3. limit \in Nat BY LimitNat DEF Inductive, TypeOK
<1>4. Sweeping => Sweeping' BY <1>1 DEF Sweeping
<1>5. Mgr.queue = queue /\ Mgr.slots = slots /\ Mgr.starting = starting /\ Shape(Mgr)
  BY MgrShape DEF Mgr, Inductive
<1>6. CASE row[t] # "interrupted" /\ UNCHANGED <<row, manager, live>>
  <2> HIDE DEF Mgr
  <2>1. Placed(Mgr)
    BY <1>1, <1>5, <1>6, OwnedFacts DEF Inductive, Placed, Owners, Agrees
  <2> QED BY <1>1, <1>4, <1>6, <2>1, Remains DEF Inductive, TypeOK
<1>7. CASE /\ row[t] = "interrupted" /\ UNCHANGED live
           /\ Enqueue(t, [row EXCEPT ![t] = "queued"], bypass)
  <2> DEFINE r == [row EXCEPT ![t] = "queued"]
  <2>1. r \in [Tasks -> States] /\ r[t] = "queued" /\ \A u \in Tasks \ {t} : r[u] = row[u]
    BY DEF Inductive, TypeOK, States
  <2>2. Enqueue(t, r, bypass) BY <1>7
  <2> HIDE DEF r
  <2>3. /\ t \notin retry' \cup toResume' /\ retry \subseteq retry' \cup {t}
        /\ retry' \cup toResume' \subseteq retry \cup toResume
        /\ r[t] \notin Ended \cup {"none"}
    BY <1>1, <1>2, <2>1 DEF Ended
  <2>4. Owned' /\ (Busy(Mgr, row, limit) => Busy(Mgr', row', limit'))
    BY <1>1, <1>2, <1>7, <2>1, <2>2, <2>3, EnqueuePlaces DEF Inductive
  <2> QED BY <1>4, <2>4, IdleBusy DEF Inductive, NoIdleSlot, Busy, Mgr
<1>8. CASE /\ row' = [row EXCEPT ![t] = "executing"]
           /\ slots' = slots \cup {t} /\ live' = live \cup {t}
           /\ UNCHANGED <<queue, starting>>
  <2> DEFINE p == [queue |-> queue, slots |-> slots \cup {t}, starting |-> starting]
  <2>1. Manager(p) BY <1>8 DEF Manager
  <2>2. row'[t] = "executing" /\ \A u \in Tasks \ {t} : row'[u] = row[u]
    BY <1>8 DEF Inductive, TypeOK
  <2>3. p.queue = queue /\ p.slots = slots \cup {t} /\ p.starting = starting /\ Shape(p)
    BY OwnedFacts DEF Inductive, Shape
  <2> HIDE DEF p, Mgr
  <2>4. Owners(p, row', live', retry' \cup toResume')
    BY <1>1, <1>2, <1>8, <2>2, <2>3, OwnedFacts DEF Inductive, Owners, Ended
  <2>5. Agrees(p, row', live', retry', revived', dropped')
    BY <1>1, <1>2, <1>8, <2>2, <2>3, OwnedFacts DEF Inductive, Agrees
  <2>6. ASSUME Busy(Mgr, row, limit) PROVE Busy(p, row', limit)
    <3>1. \A u \in Queued(p.queue) : row'[u] = "queued" => u \in Queued(Mgr.queue) /\ row[u] = "queued"
      BY <1>5, <2>2, <2>3, OwnedFacts DEF Inductive
    <3>2. Mgr.slots \subseteq p.slots /\ p.slots \subseteq Tasks
      BY <1>5, <2>3, OwnedFacts DEF Inductive
    <3> QED BY <1>3, <1>5, <2>3, <2>6, <3>1, <3>2, BusyStays
  <2> QED BY <1>1, <1>4, <2>1, <2>4, <2>5, <2>6, IdleBusy, Arrives DEF Inductive, Placed
<1>9. CASE /\ row' = [row EXCEPT ![t] = "queued"] /\ Cardinality(slots) >= limit
           /\ queue' = <<t>> \o queue /\ UNCHANGED <<slots, starting, live>>
  <2> DEFINE q == <<t>> \o queue
             p == [queue |-> q, slots |-> slots, starting |-> starting]
  <2>1. Manager(p) BY <1>9 DEF Manager
  <2>2. row'[t] = "queued" /\ \A u \in Tasks \ {t} : row'[u] = row[u]
    BY <1>9 DEF Inductive, TypeOK
  <2>3. q \in Seq(Tasks) /\ IsInjective(q) /\ Queued(q) = Queued(queue) \cup {t}
    BY <1>2, OwnedFacts, Prefixed DEF Queued, Inductive
  <2>4. p.queue = q /\ p.slots = slots /\ p.starting = starting /\ Shape(p)
    BY <2>3, OwnedFacts DEF Inductive, Shape
  <2> HIDE DEF p, q, Mgr
  <2>5. Owners(p, row', live', retry' \cup toResume')
    BY <1>1, <1>2, <1>9, <2>2, <2>3, <2>4, OwnedFacts DEF Inductive, Owners, Ended
  <2>6. Agrees(p, row', live', retry', revived', dropped')
    BY <1>1, <1>2, <1>9, <2>2, <2>3, <2>4, OwnedFacts DEF Inductive, Agrees
  <2>7. Busy(p, row', limit)
    BY <1>3, <1>9, <2>4, OwnedFacts, BusyWithoutRoom DEF Inductive
  <2> QED BY <1>1, <2>1, <2>5, <2>6, <2>7, Arrives DEF Placed
<1> QED BY <1>6, <1>7, <1>8, <1>9 DEF Resume

-----------------------------------------------------------------------------
(* The other steps.                                                         *)

LEMMA CancelLiveKeeps ==
  ASSUME Inductive, NEW t \in Tasks, CancelLive(t) \/ SweepLive(t) \/ ClearTakes(t)
  PROVE  Owned' /\ NoIdleSlot'
<1>1. UNCHANGED <<row, manager, limit, live, retry, toResume, revived, dropped>>
  BY DEF CancelLive, SweepLive, ClearTakes, history
<1>2. Placed(Mgr) BY <1>1 DEF Inductive, Owned, Placed
<1>3. Sweeping => Sweeping'
  <2>1. CASE CancelLive(t) \/ ClearTakes(t)
    <3>1. /\ halting[t] \in {"no", "stuck"} /\ sweep' = sweep
          /\ \E who : halting' = [halting EXCEPT ![t] = who]
      BY <2>1 DEF CancelLive, ClearTakes
    <3>2. \A u \in Tasks \ {t} : halting'[u] = halting[u] BY <3>1 DEF Inductive, TypeOK
    <3> QED BY <3>1, <3>2 DEF Sweeping
  <2>2. CASE SweepLive(t)
    <3>1. halting' = [halting EXCEPT ![t] = "timeout"] BY <2>2 DEF SweepLive
    <3>2. halting'[t] = "timeout" BY <3>1 DEF Inductive, TypeOK
    <3> QED BY <3>2 DEF Sweeping
  <2> QED BY <2>1, <2>2
<1> QED BY <1>1, <1>2, <1>3, Remains DEF Inductive, TypeOK

LEMMA TimeOutKeeps ==
  ASSUME Inductive, NEW s \in SUBSET slots, TimeOut(s)
  PROVE  Owned' /\ NoIdleSlot'
<1>1. UNCHANGED <<row, manager, limit, live, retry, toResume, revived, dropped>>
  BY DEF TimeOut, daemon, history
<1>2. Placed(Mgr) BY <1>1 DEF Inductive, Owned, Placed
<1>3. Sweeping' BY DEF TimeOut, Sweeping
<1> QED BY <1>1, <1>2, <1>3, Remains DEF Inductive, TypeOK

LEMMA SaveSettingsKeeps ==
  ASSUME Inductive, NEW n \in Limits, SaveSettings(n)
  PROVE  Owned' /\ NoIdleSlot'
<1>1. /\ limit' = n /\ Manager(ProcessQueue(Mgr, row', n))
      /\ UNCHANGED <<row, live, retry, toResume, revived, dropped>>
  BY DEF SaveSettings, daemon, history
<1>2. Placed(Mgr) BY <1>1 DEF Inductive, Owned, Placed
<1>3. n \in Nat BY QueueAssumption
<1> QED BY <1>1, <1>2, <1>3, PlacedProcess, Arrives

LEMMA ClearKeeps ==
  ASSUME Inductive, Clear
  PROVE  Owned' /\ NoIdleSlot'
<1>1. UNCHANGED <<row, manager, limit, sweep, live, halting, retry, toResume, revived, dropped>>
  BY DEF Clear, daemon, history
<1>2. Placed(Mgr) BY <1>1 DEF Inductive, Owned, Placed
<1>3. Sweeping => Sweeping' BY <1>1 DEF Sweeping
<1> QED BY <1>1, <1>2, <1>3, Remains DEF Inductive, TypeOK

LEMMA ClearEndsKeeps ==
  ASSUME Inductive, ClearEnds
  PROVE  Owned' /\ NoIdleSlot'
<1> DEFINE p == [queue |-> <<>>, slots |-> {}, starting |-> starting]
<1>1. /\ Manager(p) /\ dropped' = dropped \cup Queued(queue) \cup slots
      /\ UNCHANGED <<row, live, retry, toResume, revived>>
  BY DEF ClearEnds, daemon, Manager
<1>2. IsInjective(<<>>) /\ Queued(<<>>) = {} BY DEF IsInjective, Queued, ToSet
<1>3. p.queue = <<>> /\ p.slots = {} /\ p.starting = starting /\ Shape(p)
  BY EmptySeq, OwnedFacts DEF Shape, Inductive
<1> HIDE DEF p
<1>4. Owners(p, row', live', retry' \cup toResume')
  BY <1>1, <1>2, <1>3, OwnedFacts DEF Inductive, Owners
<1>5. Agrees(p, row', live', retry', revived', dropped')
  BY <1>1, <1>2, <1>3, OwnedFacts DEF Inductive, Agrees
<1>6. Busy(p, row', limit') BY <1>2, <1>3 DEF Busy
<1> QED BY <1>1, <1>4, <1>5, <1>6, Arrives DEF Placed

LEMMA RestartKeeps ==
  ASSUME Inductive, NEW saved, NEW due, Restart(saved, due)
  PROVE  Owned' /\ NoIdleSlot'
<1> DEFINE S == {t \in Tasks \ retry' : row'[t] = "queued"}
           q == InOrder(S)
           p == [queue |-> q, slots |-> {}, starting |-> [t \in Tasks |-> "no"]]
<1>0. Manager(ProcessQueue(p, row', limit)) BY DEF Restart
<1>1. /\ toResume' = {t \in Tasks : row'[t] = "interrupted"}
      /\ live' = {} /\ limit' = limit
  BY DEF Restart
<1>2. S \subseteq Tasks OBVIOUS
<1> HIDE DEF S
<1>3. q \in Seq(Tasks) /\ IsInjective(q) /\ Queued(q) = S BY <1>2, InOrderOf DEF Queued
<1> HIDE DEF q
<1>4. /\ p.queue = q /\ p.slots = {} /\ Shape(p)
      /\ \A t \in Tasks : p.starting[t] = "no"
  BY <1>3 DEF Shape
<1>5. limit \in Nat BY LimitNat DEF Inductive, TypeOK
<1> HIDE DEF p
<1>6. Owners(p, row', live', retry' \cup toResume')
  BY <1>1, <1>3, <1>4 DEF Owners, S
<1>7. Agrees(p, row', live', retry', revived', dropped')
  BY <1>1, <1>3, <1>4 DEF Agrees, S
<1> QED BY <1>0, <1>1, <1>5, <1>6, <1>7, PlacedProcess, Arrives DEF Placed

LEMMA NextKeeps ==
  ASSUME Inductive, Next PROVE Owned' /\ NoIdleSlot'
<1>1. ASSUME NEW t \in Tasks, Step(t) PROVE Owned' /\ NoIdleSlot'
  <2> USE <1>1
  <2>1. CASE Submit(t, TRUE) \/ Submit(t, FALSE) BY <2>1, SubmitKeeps
  <2>2. CASE Launch(t) BY <2>2, LaunchKeeps
  <2>3. CASE StartFails(t) BY <2>3, StartFailsKeeps
  <2>4. CASE Complete(t)
    <3>1. t \in live /\ EndRow(t, "completed") /\ "completed" \in Ended
      BY <2>4 DEF Complete, Ended
    <3> QED BY <2>4, <3>1, EndKeeps DEF Complete, Leaves, history
  <2>17. CASE Refused(t) BY <2>17, RefusedKeeps
  <2>5. CASE RunThrows(t)
    <3>1. t \in live /\ EndRow(t, "failed") /\ "failed" \in Ended
      BY <2>5 DEF RunThrows, Ended
    <3> QED BY <2>5, <3>1, EndKeeps DEF RunThrows, Leaves, history
  <2>6. CASE RunFails(t) BY <2>6, RunFailsKeeps
  <2>7. CASE RunFailsTransiently(t) BY <2>7, RunFailsTransientlyKeeps
  <2>8. CASE RetryFires(t) BY <2>8, RetryFiresKeeps
  <2>9. CASE Cancel(t) BY <2>9, CancelKeeps
  <2>10. CASE CancelEnded(t) BY <2>10, CancelEndedKeeps
  <2>11. CASE CancelLive(t) \/ SweepLive(t) \/ ClearTakes(t) BY <2>11, CancelLiveKeeps
  <2>12. CASE CancelHalted(t) BY <2>12, CancelHaltedKeeps
  <2>13. CASE SweepIdle(t) BY <2>13, SweepEndsKeeps DEF SweepIdle
  <2>14. CASE SweepHalted(t) BY <2>14, SweepEndsKeeps DEF SweepHalted, Halted
  <2>15. CASE ClearHalted(t, TRUE) \/ ClearHalted(t, FALSE) BY <2>15, ClearHaltedKeeps
  <2>16. CASE Resume(t) BY <2>16, ResumeKeeps
  <2> QED BY <2>1, <2>2, <2>3, <2>4, <2>5, <2>6, <2>7, <2>8, <2>9, <2>10, <2>11,
             <2>12, <2>13, <2>14, <2>15, <2>16, <2>17 DEF Step
<1> QED BY <1>1, TimeOutKeeps, SaveSettingsKeeps, ClearKeeps, ClearEndsKeeps, RestartKeeps
        DEF Next

-----------------------------------------------------------------------------
(* What waits for a timer or to be resumed has no executor, and the types.  *)

LEMMA EnqueueRow ==
  ASSUME NEW t, NEW r, NEW b, Enqueue(t, r, b)
  PROVE  row' = r \/ row' = [r EXCEPT ![t] = "queued"]
BY DEF Enqueue

LEMMA EnqueueChanged ==
  ASSUME row \in [Tasks -> States], NEW t \in Tasks, NEW s \in States, NEW b,
         Enqueue(t, [row EXCEPT ![t] = s], b)
  PROVE  /\ row' \in [Tasks -> States] /\ row'[t] \in {s, "queued"}
         /\ \A u \in Tasks \ {t} : row'[u] = row[u]
<1> DEFINE r == [row EXCEPT ![t] = s]
<1>1. r \in [Tasks -> States] /\ r[t] = s /\ \A u \in Tasks \ {t} : r[u] = row[u]
  OBVIOUS
<1> HIDE DEF r
<1>2. row' = r \/ row' = [r EXCEPT ![t] = "queued"] BY EnqueueRow DEF r
<1> QED BY <1>1, <1>2 DEF States

LEMMA EndRowFacts ==
  ASSUME TypeOK, NEW t \in Tasks, NEW s \in Ended, EndRow(t, s)
  PROVE  /\ row' \in [Tasks -> States] /\ row'[t] \in Ended
         /\ \A u \in Tasks \ {t} : row'[u] = row[u]
         /\ row[t] \in Ended => row' = row /\ retry' = retry
         /\ retry' \subseteq retry /\ (row[t] \notin Ended => t \notin retry')
         /\ tries' \in [Tasks -> 0..MaxRetries]
<1>1. row \in [Tasks -> States] /\ tries \in [Tasks -> 0..MaxRetries] BY DEF TypeOK, States
<1>2. s \in States BY DEF States
<1>3. CASE row[t] \in Ended
  <2>1. row' = row /\ retry' = retry /\ tries' = tries BY <1>3 DEF EndRow
  <2> QED BY <1>1, <1>3, <2>1
<1>4. CASE row[t] \notin Ended
  <2>1. /\ row' = [row EXCEPT ![t] = s] /\ retry' = retry \ {t}
        /\ tries' = [tries EXCEPT ![t] = 0]
    BY <1>4 DEF EndRow
  <2> QED BY <1>1, <1>2, <1>4, <2>1, QueueAssumption
<1> QED BY <1>3, <1>4

LEMMA StepWaits ==
  ASSUME Inductive, NEW t \in Tasks, Step(t)
  PROVE  Waits'
<1> USE DEF Inductive
<1>1. /\ TypeOK /\ Waits /\ row \in [Tasks -> States]
      /\ retry \subseteq Tasks /\ toResume \subseteq Tasks /\ live \subseteq Tasks
  BY DEF TypeOK, States
<1>2. ASSUME NEW b, Submit(t, b) PROVE Waits'
  <2>1. row[t] = "none" /\ UNCHANGED <<live, retry, toResume>> BY <1>2 DEF Submit, Created, daemon
  <2>2. \A u \in Tasks \ {t} : row'[u] = row[u]
    BY <1>1, <1>2, EnqueueChanged DEF Submit, States
  <2> QED BY <1>1, <2>1, <2>2 DEF Waits, Ended
<1>3. CASE Launch(t)
  <2>1. t \notin retry \cup toResume BY <1>3, OwnedFacts DEF Launch
  <2>2. row'[t] = "executing" /\ \A u \in Tasks \ {t} : row'[u] = row[u]
    BY <1>1, <1>3 DEF Launch, TypeOK
  <2>3. live' = live \cup {t} /\ UNCHANGED <<retry, toResume>> BY <1>3 DEF Launch
  <2> QED BY <1>1, <2>1, <2>2, <2>3 DEF Waits
<1>4. ASSUME NEW s \in Ended, EndRow(t, s), live' \subseteq live, UNCHANGED toResume
      PROVE  Waits'
  <2>1. /\ row'[t] \in Ended /\ \A u \in Tasks \ {t} : row'[u] = row[u]
        /\ retry' \subseteq retry /\ (row[t] \notin Ended => t \notin retry')
    BY <1>1, <1>4, EndRowFacts
  <2>2. row[t] \in Ended => t \notin retry BY DEF Waits, Ended
  <2> QED BY <1>1, <1>4, <2>1, <2>2 DEF Waits, Ended
<1>5. CASE StartFails(t) \/ Complete(t) \/ RunThrows(t) \/ RunFails(t)
  <2>1. /\ EndRow(t, "failed") \/ EndRow(t, "completed")
        /\ live' \subseteq live /\ UNCHANGED toResume
    BY <1>5 DEF StartFails, Complete, RunThrows, RunFails, Leaves
  <2> QED BY <1>4, <2>1 DEF Ended
<1>6. CASE Cancel(t) \/ CancelHalted(t)
  <2>1. EndRow(t, "cancelled") /\ live' \subseteq live /\ UNCHANGED toResume
    BY <1>6 DEF Cancel, CancelHalted, Halted
  <2> QED BY <1>4, <2>1 DEF Ended
<1>7. CASE SweepIdle(t) \/ SweepHalted(t)
  <2>1. EndRow(t, "failed") /\ live' \subseteq live /\ UNCHANGED toResume
    BY <1>7 DEF SweepIdle, SweepHalted, SweepEnds, Halted
  <2> QED BY <1>4, <2>1 DEF Ended
<1>13. CASE Refused(t)
  <2>1. UNCHANGED <<live, toResume>> BY <1>13 DEF Refused
  <2>2. CASE EndRow(t, "failed") BY <1>4, <2>1, <2>2 DEF Ended
  <2>3. CASE row[t] = "none" /\ row' = [row EXCEPT ![t] = "pending"] /\ UNCHANGED retry
    <3>1. \A u \in Tasks \ {t} : row'[u] = row[u] BY <1>1, <2>3 DEF TypeOK
    <3> QED BY <1>1, <2>1, <2>3, <3>1 DEF Waits, Ended
  <2> QED BY <1>13, <2>2, <2>3 DEF Refused
<1>8. CASE RunFailsTransiently(t)
  <2>1. /\ t \in live /\ live' = live \ {t} /\ retry' = retry \cup {t}
        /\ UNCHANGED toResume /\ row' = [row EXCEPT ![t] = "queued"]
    BY <1>8 DEF RunFailsTransiently, Leaves
  <2>2. row'[t] = "queued" /\ \A u \in Tasks \ {t} : row'[u] = row[u]
    BY <1>1, <2>1 DEF TypeOK
  <2> QED BY <1>1, <2>1, <2>2 DEF Waits
<1>9. CASE RetryFires(t)
  <2>1. /\ t \in retry /\ retry' = retry \ {t} /\ UNCHANGED <<live, toResume>>
        /\ row' = row \/ row' = [row EXCEPT ![t] = "queued"]
    BY <1>9, EnqueueRow DEF RetryFires
  <2>2. row' = row BY <1>1, <2>1 DEF Waits, TypeOK
  <2> QED BY <2>1, <2>2 DEF Waits
<1>10. CASE CancelEnded(t) \/ CancelLive(t) \/ SweepLive(t) \/ ClearTakes(t)
  BY <1>10 DEF CancelEnded, CancelLive, SweepLive, ClearTakes, Waits
<1>11. CASE ClearHalted(t, TRUE) \/ ClearHalted(t, FALSE)
  BY <1>11 DEF ClearHalted, Waits
<1>12. CASE Resume(t)
  <2>1. t \in toResume /\ toResume' = toResume \ {t} /\ UNCHANGED retry
    BY <1>12 DEF Resume
  <2>2. t \notin retry BY <2>1 DEF Waits, Ended
  <2>3. CASE UNCHANGED <<row, live>> BY <2>1, <2>3 DEF Waits
  <2>4. CASE live' \subseteq live \cup {t} /\ \E s \in {"queued", "executing"} : row' = [row EXCEPT ![t] = s]
    <3>1. row'[t] \in {"queued", "executing"} /\ \A u \in Tasks \ {t} : row'[u] = row[u]
      BY <1>1, <2>4 DEF TypeOK
    <3> QED BY <1>1, <2>1, <2>2, <2>4, <3>1 DEF Waits
  <2>5. \/ UNCHANGED <<row, live>>
        \/ UNCHANGED live /\ Enqueue(t, [row EXCEPT ![t] = "queued"], bypass)
        \/ live' = live \cup {t} /\ row' = [row EXCEPT ![t] = "executing"]
        \/ UNCHANGED live /\ row' = [row EXCEPT ![t] = "queued"]
    BY <1>12 DEF Resume
  <2>6. Enqueue(t, [row EXCEPT ![t] = "queued"], bypass) => row' = [row EXCEPT ![t] = "queued"]
    <3>1. ASSUME Enqueue(t, [row EXCEPT ![t] = "queued"], bypass)
          PROVE  /\ row' \in [Tasks -> States] /\ row'[t] = "queued"
                 /\ \A u \in Tasks \ {t} : row'[u] = row[u]
      BY <1>1, <3>1, EnqueueChanged DEF States
    <3> QED BY <1>1, <3>1
  <2> QED BY <2>3, <2>4, <2>5, <2>6
<1> QED
  BY <1>2, <1>3, <1>5, <1>6, <1>7, <1>8, <1>9, <1>10, <1>11, <1>12, <1>13 DEF Step

LEMMA NextWaits == ASSUME Inductive, Next PROVE Waits'
<1>1. ASSUME NEW s, TimeOut(s) PROVE Waits' BY <1>1 DEF TimeOut, daemon, Inductive, Waits
<1>2. ASSUME NEW n, SaveSettings(n) PROVE Waits' BY <1>2 DEF SaveSettings, daemon, Inductive, Waits
<1>3. CASE Clear BY <1>3 DEF Clear, daemon, Inductive, Waits
<1>4. CASE ClearEnds BY <1>4 DEF ClearEnds, daemon, Inductive, Waits
<1>5. ASSUME NEW saved, NEW due, Restart(saved, due) PROVE Waits'
  <2>1. live' = {} /\ \A t \in retry' : row'[t] = "queued"
    <3>1. /\ live' = {} /\ row' = Recovered(saved)
          /\ \A t \in retry' : t \in retry /\ row[t] = "queued"
      BY <1>5 DEF Restart
    <3>2. retry \subseteq Tasks BY DEF Inductive, TypeOK
    <3> QED BY <3>1, <3>2 DEF Recovered
  <2>2. \A t \in toResume' : row'[t] = "interrupted" BY <1>5 DEF Restart
  <2> QED BY <2>1, <2>2 DEF Waits
<1> QED BY StepWaits, <1>1, <1>2, <1>3, <1>4, <1>5 DEF Next

(* The types of all but the queue manager. *)
OthersOK ==
  /\ row \in [Tasks -> States] /\ limit \in Limits
  /\ sweep \subseteq Tasks /\ bypass \subseteq Tasks /\ live \subseteq Tasks
  /\ retry \subseteq Tasks /\ doomed \subseteq Tasks /\ toResume \subseteq Tasks
  /\ revived \subseteq Tasks /\ dropped \subseteq Tasks
  /\ halting \in [Tasks -> {"no", "user", "timeout", "clear", "stuck"}]
  /\ tries \in [Tasks -> 0..MaxRetries]
  /\ clearing \in [on : BOOLEAN, left : SUBSET Tasks]
  /\ faults \in 0..MaxFaults

LEMMA Types == TypeOK <=> Shape(Mgr) /\ OthersOK
BY DEF TypeOK, Shape, Mgr, OthersOK, States

LEMMA FaultCounts == ASSUME OthersOK, Fault PROVE faults' \in 0..MaxFaults
BY QueueAssumption DEF OthersOK, Fault

LEMMA AskedCounts == ASSUME OthersOK, NEW t, Asked(t) PROVE faults' \in 0..MaxFaults
BY FaultCounts DEF OthersOK, Asked

LEMMA StepTypes ==
  ASSUME Inductive, NEW t \in Tasks, Step(t)
  PROVE  OthersOK'
<1>1. OthersOK /\ TypeOK BY Types DEF Inductive
<1>2. ASSUME NEW b, Submit(t, b) PROVE OthersOK'
  <2>1. row' \in [Tasks -> States]
    BY <1>1, <1>2, EnqueueChanged DEF Submit, OthersOK, States
  <2> QED BY <1>1, <1>2, <2>1 DEF Submit, daemon, history, OthersOK
<1>3. CASE Launch(t)
  <2>1. row' \in [Tasks -> States] BY <1>1, <1>3 DEF Launch, OthersOK, States
  <2> QED BY <1>1, <1>3, <2>1 DEF Launch, OthersOK
<1>4. ASSUME NEW s \in Ended, EndRow(t, s)
      PROVE  row' \in [Tasks -> States] /\ retry' \subseteq Tasks /\ tries' \in [Tasks -> 0..MaxRetries]
  BY <1>1, <1>4, EndRowFacts DEF OthersOK
<1>5. CASE StartFails(t)
  <2>1. row' \in [Tasks -> States] /\ retry' \subseteq Tasks /\ tries' \in [Tasks -> 0..MaxRetries]
    BY <1>4, <1>5 DEF StartFails, Ended
  <2> QED BY <1>1, <1>5, <2>1 DEF StartFails, history, OthersOK
<1>6. CASE Complete(t) \/ RunThrows(t) \/ RunFails(t)
  <2>1. EndRow(t, "completed") \/ EndRow(t, "failed")
    BY <1>6 DEF Complete, RunThrows, RunFails
  <2>2. row' \in [Tasks -> States] /\ retry' \subseteq Tasks /\ tries' \in [Tasks -> 0..MaxRetries]
    BY <1>4, <2>1 DEF Ended
  <2>3. Leaves(t) /\ UNCHANGED <<limit, sweep, bypass, clearing, history, faults>>
    BY <1>6 DEF Complete, RunThrows, RunFails
  <2> QED BY <1>1, <2>2, <2>3 DEF Leaves, history, OthersOK
<1>7. CASE RunFailsTransiently(t)
  <2>1. row' \in [Tasks -> States] /\ retry' \subseteq Tasks
    BY <1>1, <1>7 DEF RunFailsTransiently, OthersOK, States
  <2>2. tries' \in [Tasks -> 0..MaxRetries]
    BY <1>1, <1>7, QueueAssumption DEF RunFailsTransiently, OthersOK
  <2>3. Leaves(t) /\ UNCHANGED <<limit, sweep, bypass, clearing, history, faults>>
    BY <1>7 DEF RunFailsTransiently
  <2> QED BY <1>1, <2>1, <2>2, <2>3 DEF Leaves, history, OthersOK
<1>8. CASE RetryFires(t)
  <2>1. row' \in [Tasks -> States]
    BY <1>1, <1>8, EnqueueRow DEF RetryFires, OthersOK, States
  <2> QED BY <1>1, <1>8, <2>1 DEF RetryFires, history, OthersOK
<1>9. ASSUME Cascade(t) PROVE doomed' \subseteq Tasks
  BY <1>1, <1>9 DEF Cascade, Children, OthersOK
<1>10. ASSUME NEW who, Halted(t, who)
       PROVE  /\ halting' \in [Tasks -> {"no", "user", "timeout", "clear", "stuck"}]
              /\ live' \subseteq Tasks
  BY <1>1, <1>10 DEF Halted, OthersOK
<1>11. CASE Cancel(t)
  <2>1. row' \in [Tasks -> States] /\ retry' \subseteq Tasks /\ tries' \in [Tasks -> 0..MaxRetries]
    BY <1>4, <1>11 DEF Cancel, Ended
  <2>2. faults' \in 0..MaxFaults /\ doomed' \subseteq Tasks
    BY <1>1, <1>9, <1>11, AskedCounts DEF Cancel
  <2> QED BY <1>1, <1>11, <2>1, <2>2 DEF Cancel, history, OthersOK
<1>12. CASE CancelEnded(t)
  <2>1. faults' \in 0..MaxFaults BY <1>1, <1>12, AskedCounts DEF CancelEnded
  <2> QED BY <1>1, <1>12, <2>1 DEF CancelEnded, history, OthersOK
<1>13. CASE CancelLive(t)
  <2>1. faults' \in 0..MaxFaults BY <1>1, <1>13, AskedCounts DEF CancelLive
  <2> QED BY <1>1, <1>13, <2>1 DEF CancelLive, history, OthersOK
<1>14. CASE CancelHalted(t)
  <2>1. row' \in [Tasks -> States] /\ retry' \subseteq Tasks /\ tries' \in [Tasks -> 0..MaxRetries]
    BY <1>4, <1>14 DEF CancelHalted, Ended
  <2> QED BY <1>1, <1>9, <1>10, <1>14, <2>1 DEF CancelHalted, history, OthersOK
<1>15. CASE SweepLive(t)
  BY <1>1, <1>15 DEF SweepLive, history, OthersOK
<1>16. CASE SweepIdle(t) \/ SweepHalted(t)
  <2>1. row' \in [Tasks -> States] /\ retry' \subseteq Tasks /\ tries' \in [Tasks -> 0..MaxRetries]
    BY <1>4, <1>16 DEF SweepIdle, SweepHalted, SweepEnds, Ended
  <2>2. /\ halting' \in [Tasks -> {"no", "user", "timeout", "clear", "stuck"}]
        /\ live' \subseteq Tasks /\ sweep' \subseteq Tasks
    BY <1>1, <1>10, <1>16 DEF SweepIdle, SweepHalted, OthersOK
  <2>3. UNCHANGED <<limit, bypass, doomed, toResume, clearing, history, faults>>
    BY <1>16 DEF SweepIdle, SweepHalted, SweepEnds
  <2> QED BY <1>1, <2>1, <2>2, <2>3 DEF history, OthersOK
<1>17. CASE ClearHalted(t, TRUE) \/ ClearHalted(t, FALSE)
  BY <1>1, <1>17 DEF ClearHalted, OthersOK
<1>18. CASE Resume(t)
  <2>1. row' \in [Tasks -> States]
    <3>1. row \in [Tasks -> States] /\ {"queued", "executing"} \subseteq States
      BY <1>1 DEF OthersOK, States
    <3>2. \/ row' = row \/ Enqueue(t, [row EXCEPT ![t] = "queued"], bypass)
          \/ row' = [row EXCEPT ![t] = "executing"] \/ row' = [row EXCEPT ![t] = "queued"]
      BY <1>18 DEF Resume
    <3> QED BY <3>1, <3>2, EnqueueChanged
  <2> QED BY <1>1, <1>18, <2>1 DEF Resume, history, OthersOK
<1>20. CASE Refused(t)
  <2>1. faults' \in 0..MaxFaults BY <1>1, <1>20, FaultCounts DEF Refused
  <2>2. CASE EndRow(t, "failed")
    BY <1>1, <1>4, <1>20, <2>1, <2>2 DEF Refused, Ended, history, OthersOK
  <2>3. CASE row' = [row EXCEPT ![t] = "pending"] /\ UNCHANGED <<retry, tries>>
    BY <1>1, <1>20, <2>1, <2>3 DEF Refused, history, OthersOK, States
  <2> QED BY <1>20, <2>2, <2>3 DEF Refused
<1>19. CASE ClearTakes(t)
  BY <1>1, <1>19 DEF ClearTakes, history, OthersOK
<1> QED
  BY <1>2, <1>3, <1>5, <1>6, <1>7, <1>8, <1>11, <1>12, <1>13, <1>14, <1>15, <1>16,
     <1>17, <1>18, <1>19, <1>20 DEF Step

LEMMA NextTypes == ASSUME Inductive, Next PROVE OthersOK'
<1>1. OthersOK BY Types DEF Inductive
<1>0. slots \subseteq Tasks BY OwnedFacts DEF Inductive
<1>2. ASSUME NEW s \in SUBSET slots, TimeOut(s) PROVE OthersOK'
  BY <1>0, <1>1, <1>2 DEF TimeOut, daemon, history, OthersOK
<1>3. ASSUME NEW n \in Limits, SaveSettings(n) PROVE OthersOK'
  <2>1. faults' \in 0..MaxFaults BY <1>1, <1>3, FaultCounts DEF SaveSettings
  <2> QED BY <1>1, <1>3, <2>1 DEF SaveSettings, daemon, history, OthersOK
<1>4. CASE Clear
  <2>1. faults' \in 0..MaxFaults BY <1>1, <1>4, FaultCounts DEF Clear
  <2> QED BY <1>0, <1>1, <1>4, <2>1 DEF Clear, daemon, history, OthersOK
<1>5. CASE ClearEnds
  <2>1. faults' \in 0..MaxFaults BY <1>1, <1>5, FaultCounts DEF ClearEnds, OthersOK
  <2>2. Queued(queue) \subseteq Tasks /\ slots \subseteq Tasks
    BY OwnedFacts DEF Inductive
  <2> QED BY <1>1, <1>5, <2>1, <2>2 DEF ClearEnds, NotClearing, daemon, OthersOK
<1>6. ASSUME NEW saved, NEW due, Restart(saved, due) PROVE OthersOK'
  <2>1. faults' \in 0..MaxFaults BY <1>1, <1>6, FaultCounts DEF Restart
  <2>2. row' \in [Tasks -> States]
    <3>1. row' = Recovered(saved) BY <1>6 DEF Restart
    <3> QED BY <1>1, <3>1 DEF Recovered, OthersOK, States, Ended
  <2>3. retry' \subseteq Tasks BY <1>1, <1>6 DEF Restart, OthersOK
  <2>4. tries' \in [Tasks -> 0..MaxRetries]
    BY <1>1, <1>6, QueueAssumption DEF Restart, OthersOK
  <2> QED BY <1>1, <1>6, <2>1, <2>2, <2>3, <2>4 DEF Restart, NotClearing, OthersOK
<1> QED BY StepTypes, <1>2, <1>3, <1>4, <1>5, <1>6 DEF Next

-----------------------------------------------------------------------------
LEMMA InitInductive == Init => Inductive
<1> SUFFICES ASSUME Init PROVE Inductive OBVIOUS
<1>1. /\ Mgr.queue = <<>> /\ Mgr.slots = {} /\ Mgr.starting = [t \in Tasks |-> "no"]
      /\ Shape(Mgr)
  BY EmptySeq DEF Init, Mgr, Shape
<1>2. IsInjective(<<>>) /\ Queued(<<>>) = {} BY DEF IsInjective, Queued, ToSet
<1>3. OthersOK
  <2>1. 0 \in 0..MaxRetries /\ 0 \in 0..MaxFaults BY QueueAssumption
  <2>2. row \in [Tasks -> States] BY DEF Init, States
  <2>3. limit \in Limits BY QueueAssumption DEF Init
  <2> QED BY <2>1, <2>2, <2>3 DEF Init, NotClearing, OthersOK
<1>4. TypeOK BY <1>1, <1>3, Types
<1>5. Owned
  <2> HIDE DEF Mgr
  <2> QED BY <1>1, <1>2 DEF Init, Owned, Owners, Agrees
<1>6. Waits BY DEF Init, Waits
<1>7. NoIdleSlot BY <1>2 DEF Init, NoIdleSlot
<1> QED BY <1>4, <1>5, <1>6, <1>7 DEF Inductive

LEMMA NextInductive == Inductive /\ [Next]_vars => Inductive'
<1>1. ASSUME Inductive, Next PROVE Inductive'
  <2>1. Owned' /\ NoIdleSlot' BY <1>1, NextKeeps
  <2>2. Waits' BY <1>1, NextWaits
  <2>3. Shape(Mgr)' BY <2>1 DEF Owned, Owners
  <2>4. OthersOK' BY <1>1, NextTypes
  <2>5. TypeOK' BY <2>3, <2>4, Types, PTL
  <2> QED BY <2>1, <2>2, <2>5 DEF Inductive
<1>2. ASSUME Inductive, UNCHANGED vars PROVE Inductive'
  <2>1. /\ Mgr' = Mgr
        /\ UNCHANGED <<row, queue, slots, starting, limit, sweep, bypass, live, halting, retry,
                       tries, doomed, toResume, clearing, revived, dropped, faults>>
    BY <1>2 DEF vars, manager, daemon, history, Mgr
  <2>2. TypeOK' BY <1>2, <2>1 DEF Inductive, TypeOK
  <2>3. Owned' BY <1>2, <2>1 DEF Inductive, Owned
  <2>4. Waits' BY <1>2, <2>1 DEF Inductive, Waits
  <2>5. NoIdleSlot' BY <1>2, <2>1 DEF Inductive, NoIdleSlot, Sweeping
  <2> QED BY <2>2, <2>3, <2>4, <2>5 DEF Inductive
<1> QED BY <1>1, <1>2

LEMMA AlwaysInductive == Spec => []Inductive
BY InitInductive, NextInductive, PTL DEF Spec

(* The variables of the queue and of the daemon have their types. *)
THEOREM TypeCorrect == Spec => []TypeOK
<1>1. Inductive => TypeOK BY DEF Inductive
<1> QED BY <1>1, AlwaysInductive, PTL

(* A task has one owner: the queue, a start, or its executor. *)
THEOREM OneOwnerAlways == Spec => []OneOwner
<1>1. Inductive => OneOwner BY OwnedFacts DEF Inductive, OneOwner, TypeOK
<1> QED BY <1>1, AlwaysInductive, PTL

(* The rows agree with who works. *)
THEOREM RowsAgreeAlways == Spec => []RowsAgree
<1>1. Inductive => RowsAgree BY OwnedFacts DEF Inductive, RowsAgree
<1> QED BY <1>1, AlwaysInductive, PTL

(* No slot stays free beside a task that waits. *)
THEOREM NoIdleSlotAlways == Spec => []NoIdleSlot
<1>1. Inductive => NoIdleSlot BY DEF Inductive
<1> QED BY <1>1, AlwaysInductive, PTL
=============================================================================
