------------------------- MODULE CronService_proofs -------------------------
(***************************************************************************)
(* Proofs about the cron service, for every set of jobs and every clock,   *)
(* in two parts.                                                           *)
(*                                                                         *)
(* SentOnce is not inductive: a result is sent by the run of its task or   *)
(* from the outbox. IInv says that it is in one place only, so that it has *)
(* not been sent wherever it still can be, but for what an earlier process *)
(* sent and did not save.                                                  *)
(*                                                                         *)
(* OncePerOccurrence needs that the next time of a job is over those its   *)
(* runs were for (OnceInv). It is computed from the lease, from the start  *)
(* of a run or from the clock, so none of these may fall behind a run; and *)
(* a one-shot, which keeps its time, must not be run again.                *)
(***************************************************************************)
EXTENDS CronService, SequenceTheorems, TLAPS

(* The entries that are, or are about to be, tried. *)
Pending == mem.outbox \cup sending.left

(* There is one queued entry of the result of a task. *)
OneEntry(es) ==
  \A e, f \in es :
    e.key = f.key /\ e.key[3] # 0 /\ e.state = "queued" /\ f.state = "queued" => e = f

(* What is still queued may be tried once more. *)
QueuedTryable ==
  \A e \in Pending \cup disk.outbox : e.state = "queued" => e.tries < MaxAttempts

(* What is still queued has not been sent. *)
QueuedUnsent ==
  \A e \in Pending : e.state = "queued" /\ e.key \in sent => e.key \in exposed

(* Results are those of tasks there have been. *)
Known(k) == k[3] <= Len(tasks)
KnownResults ==
  /\ \A e \in Pending \cup disk.outbox : Known(e.key)
  /\ \A k \in sent : k[3] # 0 /\ Known(k)

(* The result of a run that is not over is nowhere else. *)
RunsHoldTheirs ==
  \A w \in Runners : exec[w].task # 0 =>
    /\ exec[w].task <= Len(tasks)
    /\ \A k \in sent : k[3] # exec[w].task
    /\ \A e \in Pending : e.key[3] # exec[w].task
    /\ \A v \in Runners : v # w => exec[v].task # exec[w].task

(* A run has no task before it has created one. *)
NoTaskYet == \A w \in Runners : exec[w].phase \in {"idle", "asking", "leased"} => exec[w].task = 0

IInv ==
  /\ TypeOK
  /\ OneEntry(Pending) /\ OneEntry(disk.outbox)
  /\ \A e \in sending.left : e.state = "queued"
  /\ QueuedTryable /\ QueuedUnsent /\ KnownResults /\ RunsHoldTheirs /\ NoTaskYet
  /\ SentOnce

-----------------------------------------------------------------------------
(* The helpers and their types.                                             *)

LEMMA NextRunType == ASSUME NEW j, NEW now \in Nat PROVE NextRun(j, now) \in Nat
<1>1. At \in Nat /\ Every \in Nat /\ Every > 0 BY CronAssumption
<1>2. now \div Every \in Nat BY <1>1
<1>3. ASSUME now > Every PROVE (now + Every - 1) \div Every \in Nat
  <2>1. now + Every - 1 \in Nat BY <1>1
  <2> QED BY <1>1, <2>1
<1> DEFINE n == IF now <= Every THEN 1 ELSE (now + Every - 1) \div Every
<1>4. n \in Nat BY <1>1, <1>3
<1>5. now \div Every + 1 \in Nat BY <1>2
<1>6. ASSUME NEW a \in Nat PROVE Every * a \in Nat BY <1>1
<1>7. Every * n \in Nat /\ Every * (now \div Every + 1) \in Nat
  <2> HIDE DEF n
  <2> QED BY <1>4, <1>5, <1>6
<1> QED BY <1>1, <1>7 DEF NextRun

LEMMA WithType ==
  ASSUME NEW s \in StoreType, NEW j \in Jobs, NEW r \in JobType
  PROVE  With(s, j, r) \in StoreType /\ With(s, j, r).outbox = s.outbox
BY DEF With, StoreType

LEMMA LeasedType ==
  ASSUME TypeOK, NEW j \in Jobs, NEW at \in Nat
  PROVE  Leased(j, at) \in StoreType /\ Leased(j, at).outbox = mem.outbox
<1> DEFINE r == mem.job[j]
           q == [r EXCEPT !.lease = at, !.last = at,
                          !.next = IF j \in OneShots THEN @
                                   ELSE IF r.on THEN NextRun(j, at) ELSE 0]
<1>1. r \in JobType BY DEF TypeOK, StoreType
<1>2. q \in JobType BY <1>1, NextRunType DEF JobType
<1>3. mem \in StoreType BY DEF TypeOK
<1>4. Leased(j, at) = With(mem, j, q) BY DEF Leased
<1> HIDE DEF q
<1> QED BY <1>2, <1>3, <1>4, WithType

LEMMA ReconciledType ==
  ASSUME TypeOK, NEW j \in Jobs, NEW r \in JobType, NEW lapsed, NEW found
  PROVE  Reconciled(r, j, lapsed, found) \in JobType
<1> DEFINE lease == IF r.lease = 0 THEN clock ELSE r.lease
<1>1. clock \in Nat BY CronAssumption DEF TypeOK
<1>2. lease \in Nat BY <1>1 DEF JobType
<1>3. /\ NextRun(j, lease) \in Nat /\ NextRun(j, clock) \in Nat
      /\ NextRun(j, r.next) \in Nat
  BY <1>1, <1>2, NextRunType DEF JobType
<1>4. CASE ~ r.on BY <1>4 DEF Reconciled, JobType
<1>5. CASE r.on /\ j \in found
  BY <1>2, <1>3, <1>5 DEF Reconciled, JobType
<1>6. CASE r.on /\ j \notin found
  BY <1>3, <1>6 DEF Reconciled, JobType
<1> QED BY <1>4, <1>5, <1>6

(* executeJob() keeps the types and the outbox; its run has no task yet.     *)
LEMMA ExecuteType ==
  ASSUME TypeOK, NEW w \in Runners, NEW j \in Jobs, NEW at \in Nat, ExecuteJob(w, j, at)
  PROVE  /\ mem' \in StoreType /\ disk' = mem' /\ mem'.outbox = mem.outbox
         /\ exec' \in [Runners -> RunType] /\ busy' \subseteq Jobs
         /\ exec'[w].task = 0 /\ exec'[w].phase = "leased"
         /\ \A v \in Runners : v # w => exec'[v] = exec[v]
<1> DEFINE run == [phase |-> "leased", job |-> j, at |-> at, task |-> 0,
                   occ |-> IF mem.job[j].next <= at THEN mem.job[j].next ELSE 0]
<1>1. exec' = [exec EXCEPT ![w] = run] BY DEF ExecuteJob
<1>2. mem.job[j].next \in Nat BY DEF TypeOK, StoreType, JobType
<1>3. run \in RunType /\ run.task = 0 /\ run.phase = "leased" BY <1>2 DEF RunType
<1>4. exec \in [Runners -> RunType] /\ busy \subseteq Jobs BY DEF TypeOK
<1>5. mem' = Leased(j, at) /\ disk' = Leased(j, at) /\ busy' = busy \cup {j}
  BY DEF ExecuteJob, Persist
<1> HIDE DEF run
<1> QED BY <1>1, <1>3, <1>4, <1>5, LeasedType

LEMMA BatchType ==
  ASSUME NEW js \in Seq(Jobs), js # <<>>
  PROVE  Head(js) \in Jobs /\ Tail(js) \in Seq(Jobs)
OBVIOUS

LEMMA TimedType ==
  ASSUME NEW s \in StoreType, NEW j \in Jobs, NEW n \in Nat
  PROVE  [s EXCEPT !.job[j].next = n] \in StoreType
BY DEF StoreType, JobType

LEMMA ToggledType ==
  ASSUME NEW s \in StoreType, NEW j \in Jobs, NEW b \in BOOLEAN, NEW n \in Nat
  PROVE  [s EXCEPT !.job[j].on = b, !.job[j].next = n] \in StoreType
<1> DEFINE t == [s EXCEPT !.job[j].on = b]
<1>1. t \in StoreType BY DEF StoreType, JobType
<1>2. [t EXCEPT !.job[j].next = n] \in StoreType
  <2> HIDE DEF t
  <2> QED BY <1>1, TimedType
<1> QED BY <1>2

LEMMA KeyInType ==
  ASSUME TypeOK, NEW w \in Runners
  PROVE  Key(w) \in KeyType /\ Key(w)[3] = exec[w].task
BY DEF TypeOK, RunType, Key, KeyType

LEMMA SendsType ==
  ASSUME TypeOK, NEW k \in KeyType, Sends(k)
  PROVE  sent' \subseteq KeyType /\ resent' \subseteq KeyType
BY DEF TypeOK, Sends

LEMMA NoRunType == NoRun \in RunType /\ NoRun.task = 0
BY CronAssumption DEF NoRun, RunType

LEMMA IdleType == Idle \in [on : BOOLEAN, left : SUBSET EntryType] /\ Idle.left = {}
BY DEF Idle

LEMMA FaultType == ASSUME TypeOK, Fault PROVE faults' \in 0..MaxFaults
BY CronAssumption DEF TypeOK, Fault

-----------------------------------------------------------------------------
(* The types are an invariant.                                              *)

LEMMA InitType == Init => TypeOK
<1> SUFFICES ASSUME Init PROVE TypeOK OBVIOUS
<1> DEFINE job == [j \in Jobs |-> IF j \in Stored THEN [NewJob EXCEPT !.next = NextRun(j, 1)]
                                  ELSE NewJob]
<1>1. NewJob \in JobType BY DEF NewJob, JobType
<1>2. \A j \in Jobs : NextRun(j, 1) \in Nat BY NextRunType
<1>3. \A j \in Jobs : [NewJob EXCEPT !.next = NextRun(j, 1)] \in JobType
  BY <1>1, <1>2 DEF JobType
<1>4. job \in [Jobs -> JobType] BY <1>1, <1>3
<1>5. mem = [listed |-> Stored, outbox |-> {}, job |-> job] BY DEF Init
<1> HIDE DEF job
<1>6. mem \in StoreType /\ disk \in StoreType
  BY <1>4, <1>5, CronAssumption DEF Init, StoreType
<1>7. exec \in [Runners -> RunType] BY NoRunType DEF Init
<1>8. batch \in [jobs : Seq(Jobs), at : Nat] BY DEF Init, NoBatch
<1>9. clock \in 1..Horizon /\ faults \in 0..MaxFaults BY CronAssumption DEF Init
<1> QED BY <1>6, <1>7, <1>8, <1>9, IdleType DEF Init, TypeOK

LEMMA TimerStartsType ==
  ASSUME TypeOK, NEW j \in Jobs, NEW at \in Nat, TimerStarts(j, at),
         batch' \in [jobs : Seq(Jobs), at : Nat]
  PROVE  TypeOK'
<1>1. "timer" \in Runners BY DEF Runners
<1>2. ExecuteJob("timer", j, at) BY DEF TimerStarts
<1>3. crossed' \subseteq Jobs BY DEF TimerStarts, TypeOK
<1> QED BY <1>1, <1>2, <1>3, ExecuteType DEF TimerStarts, TypeOK

(* A task that ends is where it was. *)
LEMMA TaskEndsType ==
  ASSUME TypeOK, NEW k \in DOMAIN tasks, TaskEnds(k)
  PROVE  /\ tasks' \in Seq([job : Jobs, at : Nat, occ : Nat, active : BOOLEAN])
         /\ Len(tasks') = Len(tasks)
<1> DEFINE T == [job : Jobs, at : Nat, occ : Nat, active : BOOLEAN]
<1>1. tasks \in Seq(T) BY DEF TypeOK
<1>2. tasks' = [tasks EXCEPT ![k] = [@ EXCEPT !.active = FALSE]] BY DEF TaskEnds
<1>3. tasks[k] \in T
  <2> HIDE DEF T
  <2> QED BY <1>1
<1>4. [tasks[k] EXCEPT !.active = FALSE] \in T BY <1>3
<1> HIDE DEF T
<1>5. tasks' \in Seq(T) /\ Len(tasks') = Len(tasks) BY <1>1, <1>2, <1>4, ExceptSeq
<1> QED BY <1>5 DEF T

LEMMA NextType == IInv /\ [Next]_vars => TypeOK'
<1> SUFFICES ASSUME IInv, [Next]_vars PROVE TypeOK' OBVIOUS
<1> TypeOK BY DEF IInv
<1>c. clock \in Nat BY CronAssumption DEF TypeOK
<1>m. mem \in StoreType BY DEF TypeOK
<1>1. CASE Tick BY <1>1, CronAssumption DEF Tick, TypeOK, history
<1>2. ASSUME NEW k \in DOMAIN tasks, TaskEnds(k) PROVE TypeOK'
  <2>1. tasks' \in Seq([job : Jobs, at : Nat, occ : Nat, active : BOOLEAN])
    BY <1>2, TaskEndsType DEF TaskEnds, TypeOK
  <2> QED BY <1>2, <2>1 DEF TaskEnds, TypeOK, history
<1>3. ASSUME NEW w \in Runners, Creates(w) PROVE TypeOK'
  <2> DEFINE T == [job |-> exec[w].job, at |-> exec[w].at, occ |-> exec[w].occ, active |-> TRUE]
  <2>1. exec[w] \in RunType BY DEF TypeOK
  <2>2. T \in [job : Jobs, at : Nat, occ : Nat, active : BOOLEAN] BY <2>1 DEF RunType
  <2>3. tasks' = Append(tasks, T) BY <1>3 DEF Creates
  <2> HIDE DEF T
  <2>4. tasks' \in Seq([job : Jobs, at : Nat, occ : Nat, active : BOOLEAN])
    BY <2>2, <2>3 DEF TypeOK
  <2>5. Len(tasks') \in Nat BY <2>4
  <2>6. exec' = [exec EXCEPT ![w].phase = "polling", ![w].task = Len(tasks')]
    BY <1>3 DEF Creates
  <2>7. exec' \in [Runners -> RunType] BY <2>5, <2>6 DEF TypeOK, RunType
  <2> QED BY <1>3, <2>4, <2>7 DEF Creates, Persist, TypeOK, history
<1>4. ASSUME NEW w \in Runners, Finishes(w) PROVE TypeOK'
  <2> DEFINE j == exec[w].job
             r == mem.job[j]
             next == IF r.on THEN NextRun(j, exec[w].at) ELSE 0
             q == [r EXCEPT !.lease = 0, !.next = next]
  <2>1. exec[w] \in RunType BY DEF TypeOK
  <2>2. j \in Jobs /\ exec[w].at \in Nat BY <2>1 DEF RunType
  <2>3. next \in Nat BY <2>2, NextRunType
  <2>4. r \in JobType BY <1>m, <2>2 DEF StoreType
  <2>5. q \in JobType BY <2>3, <2>4 DEF JobType
  <2>6. exec' = [exec EXCEPT ![w].phase = "delivering"] BY <1>4 DEF Finishes
  <2>7. exec' \in [Runners -> RunType] BY <2>6 DEF TypeOK, RunType
  <2>8. [mem EXCEPT !.listed = @ \ {j}] \in StoreType BY <1>m DEF StoreType
  <2>9. \/ mem' = [mem EXCEPT !.listed = @ \ {j}] /\ disk' = mem'
        \/ mem' = With(mem, j, q) /\ disk' = mem'
    BY <1>4 DEF Finishes, Persist
  <2> HIDE DEF q
  <2>10. mem' \in StoreType /\ disk' \in StoreType
    BY <1>m, <2>2, <2>5, <2>8, <2>9, WithType
  <2> QED BY <1>4, <2>7, <2>10 DEF Finishes, TypeOK
<1>5. ASSUME NEW w \in Runners, Delivers(w) PROVE TypeOK'
  <2> DEFINE new == {e \in {[key |-> Key(w), tries |-> 0, state |-> "queued"]} :
                       ~ \E f \in mem.outbox : f.key = e.key /\ f.state \in {"queued", "sent"}}
  <2>1. new \subseteq EntryType BY KeyInType, CronAssumption DEF EntryType
  <2>2. exec' \in [Runners -> RunType] BY <1>5, NoRunType DEF Delivers, TypeOK
  <2>3. [mem EXCEPT !.outbox = @ \cup new] \in StoreType
    <3> HIDE DEF new
    <3> QED BY <1>m, <2>1 DEF StoreType
  <2>4. /\ mem' \in StoreType /\ disk' \in StoreType
        /\ sent' \subseteq KeyType /\ resent' \subseteq KeyType
    <3>1. CASE UNCHANGED <<mem, disk, sent, resent>> BY <3>1 DEF TypeOK
    <3>2. CASE Persist(mem) /\ Sends(Key(w))
      BY <3>2, <1>m, KeyInType, SendsType DEF Persist
    <3>3. CASE Persist([mem EXCEPT !.outbox = @ \cup new]) /\ UNCHANGED <<sent, resent>>
      BY <3>3, <2>3 DEF Persist, TypeOK
    <3> QED BY <1>5, <3>1, <3>2, <3>3 DEF Delivers
  <2>5. busy' \subseteq Jobs BY <1>5 DEF Delivers, TypeOK
  <2> QED BY <1>5, <2>2, <2>4, <2>5 DEF Delivers, TypeOK
<1>6. ASSUME NEW js \in Batches, TimerFires(js) PROVE TypeOK'
  <2>1. js \in Seq(Jobs) BY DEF Batches
  <2>2. js # <<>> BY <1>6 DEF TimerFires, Chosen
  <2>3. Head(js) \in Jobs /\ Tail(js) \in Seq(Jobs) BY <2>1, <2>2, BatchType
  <2>4. batch' \in [jobs : Seq(Jobs), at : Nat] BY <1>6, <1>c, <2>3 DEF TimerFires
  <2> QED BY <1>6, <1>c, <2>3, <2>4, TimerStartsType DEF TimerFires
<1>7. CASE TimerGoesOn
  <2>1. batch.jobs \in Seq(Jobs) /\ batch.at \in Nat BY DEF TypeOK
  <2>2. CASE batch.jobs = <<>>
    <3>1. <<>> \in Seq(Jobs) OBVIOUS
    <3>2. NoBatch \in [jobs : Seq(Jobs), at : Nat] BY <3>1 DEF NoBatch
    <3> QED BY <1>7, <2>2, <3>2 DEF TimerGoesOn, TypeOK, history
  <2>3. CASE batch.jobs # <<>>
    <3>1. Head(batch.jobs) \in Jobs /\ Tail(batch.jobs) \in Seq(Jobs)
      BY <2>1, <2>3, BatchType
    <3>2. batch' = [batch EXCEPT !.jobs = Tail(@)] /\ TimerStarts(Head(batch.jobs), batch.at)
      BY <1>7, <2>3 DEF TimerGoesOn
    <3>3. batch' \in [jobs : Seq(Jobs), at : Nat] BY <3>1, <3>2 DEF TypeOK
    <3> QED BY <2>1, <3>1, <3>2, <3>3, TimerStartsType
  <2> QED BY <2>2, <2>3
<1>8. ASSUME NEW j \in Jobs, AddJob(j) PROVE TypeOK'
  <2>1. NextRun(j, clock) \in Nat BY <1>c, NextRunType
  <2>2. [mem EXCEPT !.listed = @ \cup {j}, !.job[j].next = NextRun(j, clock)] \in StoreType
    BY <1>m, <2>1 DEF StoreType, JobType
  <2> QED BY <1>8, <2>2 DEF AddJob, Persist, EditOnly, TypeOK
<1>9. ASSUME NEW j \in Jobs, Toggle(j) PROVE TypeOK'
  <2> DEFINE on == ~ mem.job[j].on
             next == IF on THEN NextRun(j, clock) ELSE 0
  <2>1. next \in Nat BY <1>c, NextRunType
  <2>2. on \in BOOLEAN OBVIOUS
  <2>3. Persist([mem EXCEPT !.job[j].on = on, !.job[j].next = next])
    BY <1>9 DEF Toggle
  <2> HIDE DEF on, next
  <2>4. [mem EXCEPT !.job[j].on = on, !.job[j].next = next] \in StoreType
    BY <1>m, <2>1, <2>2, ToggledType
  <2> QED BY <1>9, <2>3, <2>4, FaultType DEF Toggle, Edit, Persist, EditOnly, TypeOK
<1>10. ASSUME NEW j \in Jobs, RemoveJob(j) PROVE TypeOK'
  <2>1. [mem EXCEPT !.listed = @ \ {j}] \in StoreType BY <1>m DEF StoreType
  <2> QED BY <1>10, <2>1, FaultType DEF RemoveJob, Edit, Persist, EditOnly, TypeOK
<1>11. ASSUME NEW j \in Jobs, NEW mode \in {"due", "force"}, Run(j, mode) PROVE TypeOK'
  <2> DEFINE ask == [NoRun EXCEPT !.phase = "asking", !.job = j, !.at = clock]
  <2>1. ask \in RunType BY <1>c, NoRunType DEF RunType
  <2>2. exec' = [exec EXCEPT !["user"] = ask] BY <1>11 DEF Run
  <2> HIDE DEF ask
  <2>3. exec' \in [Runners -> RunType] BY <2>1, <2>2 DEF TypeOK
  <2>4. faults' \in 0..MaxFaults BY <1>11, FaultType DEF Run, Edit
  <2>5. crossed' \subseteq Jobs BY <1>11 DEF Run, Crosses, TypeOK
  <2> QED BY <1>11, <2>3, <2>4, <2>5 DEF Run, TypeOK
<1>18. CASE FindsTask
  <2> DEFINE j == exec["user"].job
             r == mem.job[j]
             lease == IF r.lease = 0 THEN exec["user"].at ELSE r.lease
             q == [r EXCEPT !.lease = lease,
                            !.last = IF @ = 0 THEN lease ELSE @,
                            !.next = IF r.on /\ @ <= exec["user"].at THEN NextRun(j, lease) ELSE @]
  <2>1. j \in Jobs /\ exec["user"].at \in Nat BY DEF TypeOK, RunType, Runners
  <2>2. r \in JobType BY <1>m, <2>1 DEF StoreType
  <2>3. lease \in Nat BY <2>1, <2>2 DEF JobType
  <2>4. NextRun(j, lease) \in Nat BY <2>3, NextRunType
  <2>5. q \in JobType BY <2>2, <2>3, <2>4 DEF JobType
  <2>6. Persist(With(mem, j, q)) /\ exec' = [exec EXCEPT !["user"] = NoRun]
    BY <1>18 DEF FindsTask
  <2> HIDE DEF q, j
  <2>7. mem' \in StoreType /\ disk' \in StoreType
    BY <1>m, <2>1, <2>5, <2>6, WithType DEF Persist
  <2>8. exec' \in [Runners -> RunType] BY <2>6, NoRunType DEF TypeOK
  <2> QED BY <1>18, <2>7, <2>8 DEF FindsTask, TypeOK, history
<1>19. CASE FindsNoTask
  <2>1. exec["user"].job \in Jobs /\ exec["user"].at \in Nat /\ "user" \in Runners
    BY DEF TypeOK, RunType, Runners
  <2>2. ExecuteJob("user", exec["user"].job, exec["user"].at) BY <1>19 DEF FindsNoTask
  <2>3. /\ mem' \in StoreType /\ disk' \in StoreType
        /\ exec' \in [Runners -> RunType] /\ busy' \subseteq Jobs
    BY <2>1, <2>2, ExecuteType
  <2>4. crossed' \subseteq Jobs BY <1>19, <2>1 DEF FindsNoTask, Crosses, TypeOK
  <2> QED BY <1>19, <2>3, <2>4 DEF FindsNoTask, TypeOK
<1>12. ASSUME NEW es \in SUBSET mem.outbox, OutboxBegins(es) PROVE TypeOK'
  <2>1. es \subseteq EntryType BY <1>m DEF StoreType
  <2>2. sending' \in [on : BOOLEAN, left : SUBSET EntryType] BY <1>12, <2>1 DEF OutboxBegins
  <2> QED BY <1>12, <2>2 DEF OutboxBegins, TypeOK, history
<1>13. ASSUME NEW e \in sending.left, NEW ok \in BOOLEAN, OutboxTries(e, ok) PROVE TypeOK'
  <2> DEFINE f == [e EXCEPT !.tries = e.tries + 1,
                            !.state = IF ok THEN "sent"
                                      ELSE IF e.tries + 1 >= MaxAttempts THEN "dead_letter" ELSE @]
  <2>1. e \in EntryType BY DEF TypeOK
  <2>2. e.key \in KeyType BY <2>1 DEF EntryType
  <2>3. e.tries < MaxAttempts BY DEF IInv, QueuedTryable, Pending
  <2>a. e.tries + 1 \in 0..MaxAttempts BY <2>1, <2>3, CronAssumption DEF EntryType
  <2>b. (IF ok THEN "sent" ELSE IF e.tries + 1 >= MaxAttempts THEN "dead_letter" ELSE e.state)
          \in {"queued", "sent", "dead_letter"}
    BY <2>1 DEF EntryType
  <2>4. f \in EntryType BY <2>1, <2>a, <2>b DEF EntryType
  <2>5. Replace(e, f) BY <1>13 DEF OutboxTries
  <2> HIDE DEF f
  <2>6. mem' \in StoreType BY <1>m, <2>4, <2>5 DEF Replace, StoreType
  <2>7. sending' \in [on : BOOLEAN, left : SUBSET EntryType] BY <1>13 DEF OutboxTries, TypeOK
  <2>8. sent' \subseteq KeyType /\ resent' \subseteq KeyType
    BY <1>13, <2>2, SendsType DEF OutboxTries, TypeOK
  <2> QED BY <1>13, <2>6, <2>7, <2>8 DEF OutboxTries, TypeOK
<1>14. CASE OutboxEnds BY <1>14, IdleType DEF OutboxEnds, TypeOK, history
<1>15. CASE Stop
  <2>1. [mem EXCEPT !.listed = {}, !.outbox = {}] \in StoreType BY <1>m DEF StoreType
  <2> QED BY <1>15, <2>1, FaultType DEF Stop, TypeOK, history
<1>16. ASSUME NEW lapsed \in SUBSET Jobs, NEW found \in SUBSET Jobs,
         Restart(lapsed, found) PROVE TypeOK'
  <2> DEFINE job == [j \in Jobs |-> IF j \in disk.listed THEN Reconciled(disk.job[j], j, lapsed, found)
                                    ELSE disk.job[j]]
  <2>1. disk \in StoreType BY DEF TypeOK
  <2>2. \A j \in Jobs : disk.job[j] \in JobType BY <2>1 DEF StoreType
  <2>3. \A j \in Jobs : Reconciled(disk.job[j], j, lapsed, found) \in JobType
    BY <2>2, ReconciledType
  <2>4. job \in [Jobs -> JobType] BY <2>2, <2>3
  <2>5. Persist([disk EXCEPT !.job = job]) BY <1>16 DEF Restart
  <2> HIDE DEF job
  <2>6. mem' \in StoreType /\ disk' \in StoreType
    BY <2>1, <2>4, <2>5 DEF Persist, StoreType
  <2>7. exec' \in [Runners -> RunType] BY <1>16, NoRunType DEF Restart
  <2>8. <<>> \in Seq(Jobs) OBVIOUS
  <2>9. batch' \in [jobs : Seq(Jobs), at : Nat] BY <1>16, <2>8 DEF Restart, NoBatch
  <2>10. \A e \in disk.outbox : e.key \in KeyType BY <2>1 DEF StoreType, EntryType
  <2>11. exposed' \subseteq KeyType BY <1>16, <2>10 DEF Restart, TypeOK
  <2>12. faults' \in 0..MaxFaults BY <1>16, FaultType DEF Restart
  <2>13. /\ up' \in BOOLEAN /\ busy' \subseteq Jobs
         /\ sending' \in [on : BOOLEAN, left : SUBSET EntryType]
    BY <1>16, IdleType DEF Restart
  <2>14. UNCHANGED <<clock, tasks, crossed, sent, resent>> BY <1>16 DEF Restart
  <2> QED BY <2>6, <2>7, <2>9, <2>11, <2>12, <2>13, <2>14 DEF TypeOK
<1>17. CASE UNCHANGED vars BY <1>17 DEF vars, history, TypeOK
<1> QED
  BY <1>1, <1>2, <1>3, <1>4, <1>5, <1>6, <1>7, <1>8, <1>9, <1>10, <1>11, <1>12, <1>13,
     <1>14, <1>15, <1>16, <1>17, <1>18, <1>19 DEF Next

-----------------------------------------------------------------------------
(* A result is in one place.                                                *)

LEMMA PendingType ==
  ASSUME TypeOK
  PROVE  /\ Pending \subseteq EntryType /\ disk.outbox \subseteq EntryType
         /\ \A e \in Pending \cup disk.outbox : e.key \in KeyType /\ e.key[3] \in Nat
         /\ \A k \in sent : k \in KeyType /\ k[3] \in Nat
         /\ Len(tasks) \in Nat
         /\ \A w \in Runners : exec[w].task \in Nat
<1>1. Pending \subseteq EntryType /\ disk.outbox \subseteq EntryType
  BY DEF TypeOK, StoreType, Pending
<1>2. \A k \in KeyType : k[3] \in Nat BY DEF KeyType
<1>3. \A e \in EntryType : e.key \in KeyType BY DEF EntryType
<1>4. Len(tasks) \in Nat /\ sent \subseteq KeyType BY DEF TypeOK
<1>5. \A w \in Runners : exec[w].task \in Nat BY DEF TypeOK, RunType
<1> QED BY <1>1, <1>2, <1>3, <1>4, <1>5

LEMMA InitIInv == Init => IInv
<1> SUFFICES ASSUME Init PROVE IInv OBVIOUS
<1>1. TypeOK BY InitType
<1>2. Pending = {} /\ disk.outbox = {} /\ sent = {} /\ resent = {}
  BY IdleType DEF Init, Pending
<1>3. \A w \in Runners : exec[w].task = 0 BY NoRunType DEF Init
<1>4. sending.left = {} BY <1>2 DEF Pending
<1> QED
  BY <1>1, <1>2, <1>3, <1>4 DEF IInv, OneEntry, QueuedTryable, QueuedUnsent, KnownResults,
     RunsHoldTheirs, NoTaskYet, SentOnce

(* Steps that send nothing, bring no new entry and create no task. *)
LEMMA QuietStep ==
  ASSUME IInv, TypeOK',
         Pending' \subseteq Pending,
         disk'.outbox = disk.outbox \/ disk'.outbox \subseteq Pending,
         \A e \in sending'.left : e.state = "queued",
         UNCHANGED <<sent, resent>>, exposed \subseteq exposed',
         Len(tasks') = Len(tasks),
         \A w \in Runners : exec'[w].task \in {0, exec[w].task},
         NoTaskYet'
  PROVE  IInv'
<1>1. OneEntry(Pending)' BY DEF IInv, OneEntry
<1>2. OneEntry(disk.outbox)' BY DEF IInv, OneEntry
<1>3. QueuedTryable' BY DEF IInv, QueuedTryable
<1>4. QueuedUnsent' BY DEF IInv, QueuedUnsent
<1>5. KnownResults' BY DEF IInv, KnownResults, Known
<1>6. RunsHoldTheirs'
  <2> SUFFICES ASSUME NEW w \in Runners, exec'[w].task # 0
               PROVE  /\ exec'[w].task <= Len(tasks')
                      /\ \A k \in sent' : k[3] # exec'[w].task
                      /\ \A e \in Pending' : e.key[3] # exec'[w].task
                      /\ \A v \in Runners : v # w => exec'[v].task # exec'[w].task
    BY DEF RunsHoldTheirs
  <2>1. exec'[w].task = exec[w].task OBVIOUS
  <2> QED BY <2>1 DEF IInv, RunsHoldTheirs
<1>7. SentOnce' BY DEF IInv, SentOnce
<1> QED BY <1>1, <1>2, <1>3, <1>4, <1>5, <1>6, <1>7 DEF IInv

(* The store changes in its jobs only, if at all. *)
LEMMA JobsStep ==
  ASSUME IInv, TypeOK', mem'.outbox = mem.outbox,
         disk' = disk \/ disk' = mem',
         UNCHANGED <<sending, sent, resent, exposed>>,
         Len(tasks') = Len(tasks),
         \A w \in Runners : exec'[w].task \in {0, exec[w].task},
         NoTaskYet'
  PROVE  IInv'
<1>1. Pending' = Pending BY DEF Pending
<1>2. disk'.outbox = disk.outbox \/ disk'.outbox \subseteq Pending BY DEF Pending
<1>3. \A e \in sending'.left : e.state = "queued" BY DEF IInv
<1> QED BY <1>1, <1>2, <1>3, QuietStep

LEMMA ExecuteStep ==
  ASSUME IInv, TypeOK', NEW w \in Runners, NEW j \in Jobs, NEW at \in Nat,
         ExecuteJob(w, j, at),
         UNCHANGED <<sending, sent, resent, exposed, tasks>>
  PROVE  IInv'
<1>1. /\ mem'.outbox = mem.outbox /\ disk' = mem'
      /\ exec'[w].task = 0
      /\ \A v \in Runners : v # w => exec'[v] = exec[v]
  BY ExecuteType DEF IInv
<1>2. NoTaskYet' BY <1>1 DEF IInv, NoTaskYet
<1>3. \A v \in Runners : exec'[v].task \in {0, exec[v].task} BY <1>1
<1> QED BY <1>1, <1>2, <1>3, JobsStep

LEMMA CreatesStep ==
  ASSUME IInv, TypeOK', NEW w \in Runners, Creates(w)
  PROVE  IInv'
<1>t. TypeOK BY DEF IInv
<1>1. Len(tasks') = Len(tasks) + 1 BY <1>t DEF Creates, TypeOK
<1>2. /\ exec' = [exec EXCEPT ![w].phase = "polling", ![w].task = Len(tasks')]
      /\ mem' = mem /\ disk' = mem
      /\ UNCHANGED <<sending, sent, resent, exposed>>
  BY DEF Creates, Persist, history
<1>3. /\ exec'[w].task = Len(tasks) + 1 /\ exec'[w].phase = "polling"
      /\ \A v \in Runners : v # w => exec'[v] = exec[v]
  BY <1>1, <1>2, <1>t DEF TypeOK, RunType
<1>4. Pending' = Pending /\ disk'.outbox = mem.outbox /\ mem.outbox \subseteq Pending
  BY <1>2 DEF Pending
<1>5. OneEntry(Pending)' /\ OneEntry(disk.outbox)' BY <1>4 DEF IInv, OneEntry
<1>6. QueuedTryable' BY <1>4 DEF IInv, QueuedTryable
<1>7. QueuedUnsent' BY <1>2, <1>4 DEF IInv, QueuedUnsent
<1>8. KnownResults'
  <2>1. \A e \in Pending : e.key[3] <= Len(tasks) /\ e.key[3] \in Nat
    BY <1>t, PendingType DEF IInv, KnownResults, Known
  <2>2. \A k \in sent : k[3] # 0 /\ k[3] <= Len(tasks) /\ k[3] \in Nat
    BY <1>t, PendingType DEF IInv, KnownResults, Known
  <2>3. Len(tasks) \in Nat BY <1>t, PendingType
  <2> QED BY <1>1, <1>2, <1>4, <2>1, <2>2, <2>3 DEF KnownResults, Known
<1>9. RunsHoldTheirs'
  <2> SUFFICES ASSUME NEW u \in Runners, exec'[u].task # 0
               PROVE  /\ exec'[u].task <= Len(tasks')
                      /\ \A k \in sent' : k[3] # exec'[u].task
                      /\ \A e \in Pending' : e.key[3] # exec'[u].task
                      /\ \A v \in Runners : v # u => exec'[v].task # exec'[u].task
    BY DEF RunsHoldTheirs
  <2>1. Len(tasks) \in Nat /\ \A v \in Runners : exec[v].task \in Nat BY <1>t, PendingType
  <2>2. \A v \in Runners : exec[v].task <= Len(tasks)
    BY <2>1 DEF IInv, RunsHoldTheirs
  <2>3. CASE u = w
    <3>1. \A k \in sent : k[3] <= Len(tasks) /\ k[3] \in Nat
      BY <1>t, PendingType DEF IInv, KnownResults, Known
    <3>2. \A e \in Pending : e.key[3] <= Len(tasks) /\ e.key[3] \in Nat
      BY <1>t, PendingType DEF IInv, KnownResults, Known
    <3>3. \A k \in sent' : k[3] # exec'[u].task BY <1>2, <1>3, <2>1, <2>3, <3>1
    <3>4. \A e \in Pending' : e.key[3] # exec'[u].task BY <1>3, <1>4, <2>1, <2>3, <3>2
    <3>5. \A v \in Runners : v # u => exec'[v].task # exec'[u].task
      BY <1>3, <2>1, <2>2, <2>3
    <3>6. exec'[u].task <= Len(tasks') BY <1>1, <1>3, <2>1, <2>3
    <3> QED BY <3>3, <3>4, <3>5, <3>6
  <2>4. CASE u # w
    <3>1. exec'[u] = exec[u] BY <1>3, <2>4
    <3>2. /\ exec[u].task <= Len(tasks)
          /\ \A k \in sent : k[3] # exec[u].task
          /\ \A e \in Pending : e.key[3] # exec[u].task
          /\ \A v \in Runners : v # u => exec[v].task # exec[u].task
      BY <3>1 DEF IInv, RunsHoldTheirs
    <3>3. exec'[u].task <= Len(tasks') BY <1>1, <2>1, <3>1, <3>2
    <3>4. exec'[w].task # exec'[u].task BY <1>3, <2>1, <2>2, <3>1
    <3>5. \A v \in Runners : v # u => exec'[v].task # exec'[u].task
      BY <1>3, <3>1, <3>2, <3>4
    <3> QED BY <1>2, <1>4, <3>1, <3>2, <3>3, <3>5
  <2> QED BY <2>3, <2>4
<1>10. NoTaskYet' BY <1>3 DEF IInv, NoTaskYet
<1>11. \A e \in sending'.left : e.state = "queued" BY <1>2 DEF IInv
<1>12. SentOnce' BY <1>2 DEF IInv, SentOnce
<1> QED BY <1>5, <1>6, <1>7, <1>8, <1>9, <1>10, <1>11, <1>12 DEF IInv

(* The result of a run is nowhere while the run goes on.                    *)
LEMMA ResultIsNew ==
  ASSUME IInv, NEW w \in Runners
  PROVE  /\ Key(w) \notin sent
         /\ Key(w)[3] = exec[w].task /\ Known(Key(w))
         /\ Key(w)[3] # 0 => \A e \in Pending : e.key[3] # Key(w)[3]
         /\ \A v \in Runners : v # w /\ exec[v].task # 0 => exec[v].task # Key(w)[3]
<1>1. Key(w)[3] = exec[w].task BY KeyInType DEF IInv
<1>2. Len(tasks) \in Nat BY PendingType DEF IInv
<1> QED BY <1>1, <1>2 DEF IInv, RunsHoldTheirs, KnownResults, Known

LEMMA DeliversStep ==
  ASSUME IInv, TypeOK', NEW w \in Runners, Delivers(w)
  PROVE  IInv'
<1> DEFINE k == Key(w)
           E == [key |-> k, tries |-> 0, state |-> "queued"]
           new == {e \in {E} :
                     ~ \E f \in mem.outbox : f.key = e.key /\ f.state \in {"queued", "sent"}}
<1>t. TypeOK BY DEF IInv
<1>1. exec'[w] = NoRun /\ \A v \in Runners : v # w => exec'[v] = exec[v]
  BY <1>t DEF Delivers, TypeOK
<1>2. \A v \in Runners : exec'[v].task \in {0, exec[v].task} BY <1>1, NoRunType
<1>3. NoTaskYet' BY <1>1, NoRunType DEF IInv, NoTaskYet
<1>4. UNCHANGED <<sending, tasks, exposed>> BY DEF Delivers
<1>5. CASE UNCHANGED <<mem, disk, sent, resent>>
  BY <1>2, <1>3, <1>4, <1>5, JobsStep
<1>6. CASE Persist(mem) /\ Sends(k)
  <2>1. mem' = mem /\ disk' = mem BY <1>6 DEF Persist
  <2>2. k \notin sent BY ResultIsNew
  <2>3. CASE k[3] = 0
    <3>1. UNCHANGED <<sent, resent>> BY <1>6, <2>2, <2>3 DEF Sends
    <3> QED BY <1>2, <1>3, <1>4, <2>1, <3>1, JobsStep
  <2>4. CASE k[3] # 0
    <3>1. sent' = sent \cup {k} /\ resent' = resent
      BY <1>6, <2>2, <2>4 DEF Sends
    <3>2. Known(k) /\ \A e \in Pending : e.key[3] # k[3] BY <2>4, ResultIsNew
    <3>3. Pending' = Pending /\ disk'.outbox = mem.outbox /\ mem.outbox \subseteq Pending
      BY <1>4, <2>1 DEF Pending
    <3>4. \A v \in Runners : v # w /\ exec[v].task # 0 => exec[v].task # k[3]
      BY ResultIsNew
    <3> HIDE DEF k
    <3>5. OneEntry(Pending)' /\ OneEntry(disk.outbox)' BY <3>3 DEF IInv, OneEntry
    <3>6. QueuedTryable' BY <3>3 DEF IInv, QueuedTryable
    <3>7. QueuedUnsent' BY <1>4, <3>1, <3>2, <3>3 DEF IInv, QueuedUnsent
    <3>8. KnownResults'
      BY <1>4, <2>4, <3>1, <3>2, <3>3 DEF IInv, KnownResults, Known
    <3>9. RunsHoldTheirs'
      BY <1>1, <1>4, <3>1, <3>3, <3>4, NoRunType DEF IInv, RunsHoldTheirs
    <3>10. SentOnce' BY <1>4, <3>1 DEF IInv, SentOnce
    <3>11. \A e \in sending'.left : e.state = "queued" BY <1>4 DEF IInv
    <3> QED BY <1>3, <3>5, <3>6, <3>7, <3>8, <3>9, <3>10, <3>11 DEF IInv
  <2> QED BY <2>3, <2>4
<1>7. CASE Persist([mem EXCEPT !.outbox = @ \cup new]) /\ UNCHANGED <<sent, resent>>
  <2>1. new \subseteq {E} /\ E.key = k /\ E.tries = 0 OBVIOUS
  <2>2. disk' = mem' /\ mem'.outbox = mem.outbox \cup new
    <3> HIDE DEF new
    <3> QED BY <1>7, <1>t DEF Persist, TypeOK, StoreType
  <2>3. /\ Pending' = Pending \cup new
        /\ disk'.outbox \subseteq Pending \cup new
    <3> HIDE DEF new
    <3> QED BY <1>4, <2>2 DEF Pending
  <2>4. k \notin sent /\ Known(k) BY ResultIsNew
  <2>5. k[3] # 0 => \A e \in Pending : e.key[3] # k[3] BY ResultIsNew
  <2>6. \A v \in Runners : v # w /\ exec[v].task # 0 => exec[v].task # k[3]
    BY ResultIsNew
  <2> HIDE DEF new, E, k
  <2>7. OneEntry(Pending)' /\ OneEntry(disk.outbox)'
    BY <2>1, <2>3, <2>5 DEF IInv, OneEntry
  <2>8. QueuedTryable' BY <2>1, <2>3, CronAssumption DEF IInv, QueuedTryable
  <2>9. QueuedUnsent' BY <1>4, <1>7, <2>1, <2>3, <2>4 DEF IInv, QueuedUnsent
  <2>10. KnownResults' BY <1>4, <1>7, <2>1, <2>3, <2>4 DEF IInv, KnownResults, Known
  <2>11. RunsHoldTheirs'
    BY <1>1, <1>4, <1>7, <2>1, <2>3, <2>6, NoRunType DEF IInv, RunsHoldTheirs
  <2>12. SentOnce' BY <1>4, <1>7 DEF IInv, SentOnce
  <2>13. \A e \in sending'.left : e.state = "queued" BY <1>4 DEF IInv
  <2> QED BY <1>3, <2>7, <2>8, <2>9, <2>10, <2>11, <2>12, <2>13 DEF IInv
<1> QED BY <1>5, <1>6, <1>7 DEF Delivers

LEMMA OutboxTriesStep ==
  ASSUME IInv, TypeOK', NEW e \in sending.left, NEW ok \in BOOLEAN, OutboxTries(e, ok)
  PROVE  IInv'
<1> DEFINE f == [e EXCEPT !.tries = e.tries + 1,
                          !.state = IF ok THEN "sent"
                                    ELSE IF e.tries + 1 >= MaxAttempts THEN "dead_letter" ELSE @]
           gone == Pending \ {e}
<1>t. TypeOK BY DEF IInv
<1>1. e \in Pending /\ e.state = "queued" BY DEF IInv, Pending
<1>2. e \in EntryType BY <1>t DEF TypeOK
<1>3. /\ f.key = e.key /\ f.tries = e.tries + 1
      /\ f.state = IF ok THEN "sent"
                   ELSE IF e.tries + 1 >= MaxAttempts THEN "dead_letter" ELSE e.state
  BY <1>2 DEF EntryType
<1>4. Replace(e, f) BY DEF OutboxTries
<1>5. /\ UNCHANGED <<disk, exec, tasks, exposed>>
      /\ IF ok THEN Sends(e.key) ELSE UNCHANGED <<sent, resent>>
  BY DEF OutboxTries
<1>6. sending'.left = sending.left \ {e} BY <1>t DEF OutboxTries, TypeOK
<1>7. e.tries \in Nat /\ MaxAttempts \in Nat BY <1>2, CronAssumption DEF EntryType
<1>8. f.state = "queued" => ~ ok /\ f.tries < MaxAttempts BY <1>3, <1>7
<1> HIDE DEF f
<1>9. mem'.outbox \subseteq (mem.outbox \ {e}) \cup {f}
  BY <1>4, <1>t DEF Replace, TypeOK, StoreType
<1>10. Pending' \subseteq gone \cup {f} BY <1>6, <1>9 DEF Pending
<1>11. \A g \in gone : g.key = e.key /\ e.key[3] # 0 => g.state # "queued"
  BY <1>1 DEF IInv, OneEntry
<1>12. gone \subseteq Pending OBVIOUS
<1> HIDE DEF gone
<1>13. OneEntry(Pending)' /\ OneEntry(disk.outbox)'
  <2>1. OneEntry(gone \cup {f}) BY <1>3, <1>11, <1>12 DEF IInv, OneEntry
  <2>2. OneEntry(Pending)' BY <1>10, <2>1 DEF OneEntry
  <2> QED BY <1>5, <2>2 DEF IInv, OneEntry
<1>14. QueuedTryable' BY <1>5, <1>8, <1>10, <1>12 DEF IInv, QueuedTryable
<1>15. e.key \in sent => e.key \in exposed BY <1>1 DEF IInv, QueuedUnsent
<1>16. /\ sent' \subseteq sent \cup {e.key} /\ (e.key[3] = 0 \/ ~ ok => sent' = sent)
       /\ resent' \subseteq resent \cup {k \in {e.key} : k \in sent}
       /\ sent \subseteq sent'
  BY <1>5 DEF Sends
<1>17. QueuedUnsent'
  <2> SUFFICES ASSUME NEW g \in Pending', g.state = "queued", g.key \in sent'
               PROVE  g.key \in exposed'
    BY DEF QueuedUnsent
  <2>1. CASE g.key \in sent
    <3>1. CASE g \in gone BY <1>5, <1>12, <2>1, <3>1 DEF IInv, QueuedUnsent
    <3>2. CASE g = f BY <1>3, <1>5, <1>15, <2>1, <3>2
    <3> QED BY <1>10, <3>1, <3>2
  <2>2. CASE g.key \notin sent
    <3>1. g.key = e.key /\ ok /\ e.key[3] # 0 BY <1>16, <2>2
    <3>2. g # f BY <1>8, <3>1
    <3>3. g \in gone BY <1>10, <3>2
    <3> QED BY <1>11, <3>1, <3>3
  <2> QED BY <2>1, <2>2
<1>18. Known(e.key) BY <1>1 DEF IInv, KnownResults
<1>19. \A k \in sent' : k \in sent \/ (k = e.key /\ k[3] # 0) BY <1>16
<1>20. KnownResults'
  <2>1. \A g \in Pending' : g \in Pending \/ g.key = e.key BY <1>3, <1>10, <1>12
  <2> QED BY <1>5, <1>18, <1>19, <2>1 DEF IInv, KnownResults, Known
<1>21. RunsHoldTheirs'
  <2>1. \A g \in Pending' : g \in Pending \/ g.key = e.key BY <1>3, <1>10, <1>12
  <2> QED BY <1>1, <1>5, <1>19, <2>1 DEF IInv, RunsHoldTheirs
<1>22. NoTaskYet' BY <1>5 DEF IInv, NoTaskYet
<1>23. \A g \in sending'.left : g.state = "queued" BY <1>6 DEF IInv
<1>24. SentOnce' BY <1>5, <1>15, <1>16 DEF IInv, SentOnce
<1> QED BY <1>13, <1>14, <1>17, <1>20, <1>21, <1>22, <1>23, <1>24 DEF IInv

(* What the process that died had sent and not saved is exposed. *)
LEMMA RestartStep ==
  ASSUME IInv, TypeOK', NEW lapsed \in SUBSET Jobs, NEW found \in SUBSET Jobs,
         Restart(lapsed, found)
  PROVE  IInv'
<1> DEFINE job == [j \in Jobs |-> IF j \in disk.listed THEN Reconciled(disk.job[j], j, lapsed, found)
                                  ELSE disk.job[j]]
<1>t. TypeOK BY DEF IInv
<1>1. Persist([disk EXCEPT !.job = job]) BY DEF Restart
<1> HIDE DEF job
<1>2. mem'.outbox = disk.outbox /\ disk'.outbox = disk.outbox
  BY <1>1, <1>t DEF Persist, TypeOK, StoreType
<1>3. sending'.left = {} BY IdleType DEF Restart
<1>4. Pending' = disk.outbox BY <1>2, <1>3 DEF Pending
<1>5. /\ UNCHANGED <<tasks, sent, resent>>
      /\ exposed' = exposed \cup {e.key : e \in {f \in disk.outbox : f.state = "queued" /\ f.key \in sent}}
  BY DEF Restart
<1>6. \A w \in Runners : exec'[w].task = 0 BY NoRunType DEF Restart
<1>7. OneEntry(Pending)' /\ OneEntry(disk.outbox)' BY <1>2, <1>4 DEF IInv, OneEntry
<1>8. QueuedTryable' BY <1>2, <1>4 DEF IInv, QueuedTryable
<1>9. QueuedUnsent' BY <1>4, <1>5 DEF QueuedUnsent
<1>10. KnownResults' BY <1>2, <1>4, <1>5 DEF IInv, KnownResults, Known
<1>11. RunsHoldTheirs' /\ NoTaskYet' BY <1>6 DEF RunsHoldTheirs, NoTaskYet
<1>12. SentOnce' BY <1>5 DEF IInv, SentOnce
<1> QED BY <1>3, <1>7, <1>8, <1>9, <1>10, <1>11, <1>12 DEF IInv

LEMMA NextIInv == IInv /\ [Next]_vars => IInv'
<1> SUFFICES ASSUME IInv, [Next]_vars PROVE IInv' OBVIOUS
<1> TypeOK' BY NextType
<1>t. TypeOK BY DEF IInv
<1>1. CASE Tick \/ UNCHANGED vars
  <2>1. UNCHANGED <<mem, disk, exec, sending, tasks, sent, resent, exposed>>
    BY <1>1 DEF Tick, vars, history
  <2>2. NoTaskYet' BY <2>1 DEF IInv, NoTaskYet
  <2> QED BY <2>1, <2>2, JobsStep
<1>2. ASSUME NEW k \in DOMAIN tasks, TaskEnds(k) PROVE IInv'
  <2>1. UNCHANGED <<mem, disk, exec, sending, sent, resent, exposed>>
    BY <1>2 DEF TaskEnds, history
  <2>2. NoTaskYet' BY <2>1 DEF IInv, NoTaskYet
  <2>3. Len(tasks') = Len(tasks) BY <1>2, <1>t, TaskEndsType
  <2> QED BY <2>1, <2>2, <2>3, JobsStep
<1>3. ASSUME NEW w \in Runners, Creates(w) PROVE IInv' BY <1>3, CreatesStep
<1>4. ASSUME NEW w \in Runners, Finishes(w) PROVE IInv'
  <2>1. exec' = [exec EXCEPT ![w].phase = "delivering"] BY <1>4 DEF Finishes
  <2>2. exec'[w].phase = "delivering" /\ \A v \in Runners : exec'[v].task = exec[v].task
    BY <1>t, <2>1 DEF TypeOK, RunType
  <2>3. \A v \in Runners : v # w => exec'[v] = exec[v] BY <1>t, <2>1 DEF TypeOK
  <2>4. NoTaskYet' BY <2>2, <2>3 DEF IInv, NoTaskYet
  <2>5. mem'.outbox = mem.outbox /\ disk' = mem'
    <3>1. mem \in StoreType BY <1>t DEF TypeOK
    <3> QED BY <1>4, <3>1 DEF Finishes, Persist, With, StoreType
  <2>6. UNCHANGED <<sending, tasks, sent, resent, exposed>> BY <1>4 DEF Finishes
  <2> QED BY <2>2, <2>4, <2>5, <2>6, JobsStep
<1>5. ASSUME NEW w \in Runners, Delivers(w) PROVE IInv' BY <1>5, DeliversStep
<1>6. ASSUME NEW js \in Batches, TimerFires(js) PROVE IInv'
  <2>1. js \in Seq(Jobs) BY DEF Batches
  <2>2. Head(js) \in Jobs BY <1>6, <2>1, BatchType DEF TimerFires, Chosen
  <2>3. clock \in Nat BY <1>t, CronAssumption DEF TypeOK
  <2>4. "timer" \in Runners BY DEF Runners
  <2>5. /\ ExecuteJob("timer", Head(js), clock)
        /\ UNCHANGED <<sending, sent, resent, exposed, tasks>>
    BY <1>6 DEF TimerFires, TimerStarts
  <2> QED BY <2>2, <2>3, <2>4, <2>5, ExecuteStep
<1>7. CASE TimerGoesOn
  <2>1. CASE batch.jobs = <<>>
    <3>1. UNCHANGED <<mem, disk, exec, sending, tasks, sent, resent, exposed>>
      BY <1>7, <2>1 DEF TimerGoesOn, history
    <3>2. NoTaskYet' BY <3>1 DEF IInv, NoTaskYet
    <3> QED BY <3>1, <3>2, JobsStep
  <2>2. CASE batch.jobs # <<>>
    <3>1. batch.jobs \in Seq(Jobs) /\ batch.at \in Nat BY <1>t DEF TypeOK
    <3>2. Head(batch.jobs) \in Jobs BY <2>2, <3>1, BatchType
    <3>3. "timer" \in Runners BY DEF Runners
    <3>4. /\ ExecuteJob("timer", Head(batch.jobs), batch.at)
          /\ UNCHANGED <<sending, sent, resent, exposed, tasks>>
      BY <1>7, <2>2 DEF TimerGoesOn, TimerStarts
    <3> QED BY <3>1, <3>2, <3>3, <3>4, ExecuteStep
  <2> QED BY <2>1, <2>2
<1>8. ASSUME NEW j \in Jobs, AddJob(j) \/ Toggle(j) \/ RemoveJob(j) PROVE IInv'
  <2>1. mem'.outbox = mem.outbox /\ disk' = mem'
    <3>1. mem \in StoreType BY <1>t DEF TypeOK
    <3> QED BY <1>8, <3>1 DEF AddJob, Toggle, RemoveJob, Persist, StoreType
  <2>2. UNCHANGED <<exec, sending, tasks, sent, resent, exposed>>
    BY <1>8 DEF AddJob, Toggle, RemoveJob, EditOnly
  <2>3. NoTaskYet' BY <2>2 DEF IInv, NoTaskYet
  <2> QED BY <2>1, <2>2, <2>3, JobsStep
<1>9. ASSUME NEW j \in Jobs, NEW mode \in {"due", "force"}, Run(j, mode) PROVE IInv'
  <2>1. UNCHANGED <<mem, disk, sending, tasks, sent, resent, exposed>> BY <1>9 DEF Run
  <2>2. exec' = [exec EXCEPT !["user"] = [NoRun EXCEPT !.phase = "asking", !.job = j, !.at = clock]]
    BY <1>9 DEF Run
  <2>3. /\ exec'["user"].task = 0
        /\ \A w \in Runners : w # "user" => exec'[w] = exec[w]
    BY <1>t, <2>2, NoRunType DEF TypeOK, RunType, Runners
  <2>4. NoTaskYet' BY <2>3 DEF IInv, NoTaskYet
  <2>5. \A w \in Runners : exec'[w].task \in {0, exec[w].task} BY <2>3
  <2> QED BY <2>1, <2>4, <2>5, JobsStep
<1>15. CASE FindsTask
  <2>1. UNCHANGED <<sending, tasks, sent, resent, exposed>> BY <1>15 DEF FindsTask, history
  <2>2. mem'.outbox = mem.outbox /\ disk' = mem'
    <3>1. mem \in StoreType BY <1>t DEF TypeOK
    <3> QED BY <1>15, <3>1 DEF FindsTask, Persist, With, StoreType
  <2>3. exec' = [exec EXCEPT !["user"] = NoRun] BY <1>15 DEF FindsTask
  <2>4. /\ exec'["user"].task = 0
        /\ \A w \in Runners : w # "user" => exec'[w] = exec[w]
    BY <1>t, <2>3, NoRunType DEF TypeOK, Runners
  <2>5. NoTaskYet' BY <2>4 DEF IInv, NoTaskYet
  <2>6. \A w \in Runners : exec'[w].task \in {0, exec[w].task} BY <2>4
  <2> QED BY <2>1, <2>2, <2>5, <2>6, JobsStep
<1>16. CASE FindsNoTask
  <2>1. UNCHANGED <<sending, tasks, sent, resent, exposed>> BY <1>16 DEF FindsNoTask
  <2>2. ExecuteJob("user", exec["user"].job, exec["user"].at) BY <1>16 DEF FindsNoTask
  <2>3. exec["user"].job \in Jobs /\ exec["user"].at \in Nat /\ "user" \in Runners
    BY <1>t DEF TypeOK, RunType, Runners
  <2> QED BY <2>1, <2>2, <2>3, ExecuteStep
<1>10. ASSUME NEW es \in SUBSET mem.outbox, OutboxBegins(es) PROVE IInv'
  <2>1. UNCHANGED <<mem, disk, exec, tasks, sent, resent, exposed>> /\ sending'.left = es
    BY <1>10 DEF OutboxBegins, history
  <2>2. Pending' \subseteq Pending BY <2>1 DEF Pending
  <2>3. \A e \in sending'.left : e.state = "queued" BY <1>10, <2>1 DEF OutboxBegins
  <2>4. NoTaskYet' BY <2>1 DEF IInv, NoTaskYet
  <2> QED BY <2>1, <2>2, <2>3, <2>4, QuietStep
<1>11. ASSUME NEW e \in sending.left, NEW ok \in BOOLEAN, OutboxTries(e, ok) PROVE IInv'
  BY <1>11, OutboxTriesStep
<1>12. CASE OutboxEnds
  <2>1. UNCHANGED <<mem, exec, tasks, sent, resent, exposed>> /\ sending'.left = {} /\ disk' = mem
    BY <1>12, IdleType DEF OutboxEnds, history
  <2>2. Pending' \subseteq Pending /\ disk'.outbox \subseteq Pending BY <2>1 DEF Pending
  <2>3. NoTaskYet' BY <2>1 DEF IInv, NoTaskYet
  <2> QED BY <2>1, <2>2, <2>3, QuietStep
<1>13. CASE Stop
  <2>1. UNCHANGED <<disk, exec, sending, tasks, sent, resent, exposed>>
    BY <1>13 DEF Stop, history
  <2>2. mem'.outbox = {} BY <1>13, <1>t DEF Stop, TypeOK, StoreType
  <2>3. Pending' \subseteq Pending BY <2>1, <2>2 DEF Pending
  <2>4. NoTaskYet' BY <2>1 DEF IInv, NoTaskYet
  <2>5. \A e \in sending'.left : e.state = "queued" BY <2>1 DEF IInv
  <2> QED BY <2>1, <2>3, <2>4, <2>5, QuietStep
<1>14. ASSUME NEW lapsed \in SUBSET Jobs, NEW found \in SUBSET Jobs,
         Restart(lapsed, found) PROVE IInv' BY <1>14, RestartStep
<1> QED
  BY <1>1, <1>2, <1>3, <1>4, <1>5, <1>6, <1>7, <1>8, <1>9, <1>10, <1>11, <1>12, <1>13,
     <1>14, <1>15, <1>16 DEF Next

-----------------------------------------------------------------------------
LEMMA Inductive == Spec => []IInv
BY InitIInv, NextIInv, PTL DEF Spec

(* The store in memory, the file, the runs, the outbox and the batch of the *)
(* timer have their types, whatever the jobs and the operations.            *)
THEOREM TypeCorrect == Spec => []TypeOK
<1>1. IInv => TypeOK BY DEF IInv
<1> QED BY Inductive, <1>1, PTL

(* However runs of the timer and the user, passes over the outbox, stops    *)
(* and crashes fall together, the result of a task goes out once, unless    *)
(* the process died between sending it from the outbox and saving that.     *)
THEOREM SentOnceAlways == Spec => []SentOnce
<1>1. IInv => SentOnce BY DEF IInv
<1> QED BY Inductive, <1>1, PTL

-----------------------------------------------------------------------------
(* Once for each scheduled time.                                            *)

(* The runs there have been, as far as anything remembers them: those that  *)
(* have created a task, and those that are about to.                        *)
RunOf(r) == [job |-> r.job, at |-> r.at, occ |-> r.occ]
Leases == {w \in Runners : exec[w].phase = "leased"}
Uses == {RunOf(tasks[k]) : k \in DOMAIN tasks} \cup {RunOf(exec[w]) : w \in Leases}

(* A runner is at the job, and may still write to it. *)
Works(w, j) == exec[w].phase \notin {"idle", "asking"} /\ exec[w].job = j
Runs(w, j) == exec[w].phase \in {"leased", "polling"} /\ exec[w].job = j

UsesPast == \A u \in Uses : u.occ <= u.at /\ u.at <= clock

(* What is known of a job is on disk before anything is made of it. *)
StoresAgree == mem.job = disk.job

BatchShape ==
  /\ IsInjective(batch.jobs) /\ batch.at <= clock
  /\ batch.at = 0 => batch = NoBatch /\ exec["timer"].phase = "idle"

(* One run at a time, and none while the job waits in the batch of the      *)
(* timer, unless the user and the timer have run it across each other.      *)
Exclusive ==
  \A w \in Runners : \A j \in Jobs \ crossed : Works(w, j) =>
    /\ j \in busy /\ j \notin ToSet(batch.jobs)
    /\ \A v \in Runners : v # w => ~ Works(v, j)

(* The times from which the next time is computed, the lease, the start of  *)
(* the run and the reading of the clock the timer works with, are not       *)
(* before a run of the job.                                                 *)
LeaseLatest ==
  \A u \in Uses :
    u.job \notin crossed /\ mem.job[u.job].lease # 0 => u.at <= mem.job[u.job].lease
RunLatest ==
  \A u \in Uses : u.job \notin crossed =>
    \A w \in Runners : Runs(w, u.job) => u.at <= exec[w].at
BatchLatest ==
  \A u \in Uses :
    u.job \notin crossed /\ u.job \in ToSet(batch.jobs) => u.at <= batch.at

(* The job's next time is over the one the run was for; the run started at  *)
(* the very time of an interval; or a one-shot keeps its time, but is being *)
(* run or off the list, and start() will see that it has been run.          *)
Passed(u) == mem.job[u.job].next = 0 \/ mem.job[u.job].next > u.occ
OnTime(u) == u.job \in Intervals /\ u.at = u.occ
Spent(j) ==
  /\ j \in OneShots /\ mem.job[j].last >= mem.job[j].next
  /\ j \notin ToSet(batch.jobs)
  /\ j \notin mem.listed \/ \E w \in Runners : Runs(w, j)
Behind ==
  \A u \in Uses :
    u.occ # 0 /\ u.job \notin crossed => Passed(u) \/ OnTime(u) \/ Spent(u.job)

(* No run of the job is under way, none was after that time, and none was   *)
(* for the job's next time.                                                 *)
Ready(j, at) ==
  /\ \A v \in Runners : ~ Works(v, j)
  /\ \A u \in Uses : u.job = j =>
       u.at <= at /\ (u.occ # 0 => Passed(u) \/ OnTime(u))

(* A job the user has asked for stays ready while it is asked whether a     *)
(* task of it is at work, or the timer has run it in between.               *)
AskReady ==
  exec["user"].phase = "asking" =>
    /\ exec["user"].at <= clock
    /\ exec["user"].job \notin crossed => Ready(exec["user"].job, exec["user"].at)

OneTime == \A j \in OneShots : mem.job[j].next \in {0, At}

(* A run about to create a task is for a time that no task is for. *)
OnceMore ==
  \A k \in DOMAIN tasks, w \in Leases :
    exec[w].job = tasks[k].job /\ exec[w].occ = tasks[k].occ /\ tasks[k].occ # 0
      => \/ tasks[k].job \in crossed
         \/ OnTime(RunOf(tasks[k])) \/ OnTime(RunOf(exec[w]))

OnceInv ==
  /\ UsesPast /\ StoresAgree /\ BatchShape /\ Exclusive
  /\ LeaseLatest /\ RunLatest /\ BatchLatest /\ Behind /\ OneTime
  /\ AskReady /\ OnceMore /\ OncePerOccurrence

(* The next point of the grid lies ahead. *)
LEMMA GridAfter ==
  ASSUME NEW a \in Nat, NEW b \in Nat, b > 0
  PROVE  a \div b \in Nat /\ a < b * (a \div b) + b
OBVIOUS

(* A next time lies ahead, or is now for an interval. *)
LEMMA NextRunAfter ==
  ASSUME NEW j \in Jobs, NEW now \in Nat
  PROVE  /\ NextRun(j, now) = 0 \/ NextRun(j, now) > now
            \/ (NextRun(j, now) = now /\ j \in Intervals)
         /\ j \in OneShots => NextRun(j, now) \in {0, At}
<1>1. At \in Nat /\ Every \in Nat /\ Every > 0 BY CronAssumption
<1>2. CASE j \in OneShots BY <1>1, <1>2, CronAssumption DEF NextRun
<1>3. CASE j \in Intervals /\ j \notin OneShots
  <2>1. CASE now <= Every
    <3>1. NextRun(j, now) = Every * 1 BY <1>3, <2>1 DEF NextRun
    <3> QED BY <1>1, <1>3, <2>1, <3>1
  <2>2. CASE now > Every
    <3> DEFINE q == (now + Every - 1) \div Every
    <3>1. NextRun(j, now) = Every * q BY <1>1, <1>3, <2>2 DEF NextRun
    <3>2. now + Every - 1 \in Nat BY <1>1
    <3>3. q \in Nat /\ now + Every - 1 < Every * q + Every BY <1>1, <3>2, GridAfter
    <3> HIDE DEF q
    <3>4. Every * q \in Nat BY <1>1, <3>3
    <3> QED BY <1>1, <1>3, <3>1, <3>3, <3>4
  <2> QED BY <1>1, <2>1, <2>2
<1>4. CASE j \notin Intervals /\ j \notin OneShots
  <2> DEFINE q == now \div Every
  <2>1. NextRun(j, now) = Every * (q + 1) BY <1>4 DEF NextRun
  <2>2. q \in Nat /\ now < Every * q + Every BY <1>1, GridAfter
  <2> HIDE DEF q
  <2>3. Every * (q + 1) = Every * q + Every /\ Every * q \in Nat BY <1>1, <2>2
  <2> QED BY <1>1, <1>4, <2>1, <2>2, <2>3
<1> QED BY <1>2, <1>3, <1>4, CronAssumption

(* A next time computed from a start that is not before a run is over what  *)
(* that run was for, or is the very time an interval was started at.        *)
LEMMA Passes ==
  ASSUME NEW u, u.job \in Jobs, u.occ \in Nat, u.at \in Nat, u.occ <= u.at,
         NEW x \in Nat, u.at <= x
  PROVE  NextRun(u.job, x) = 0 \/ NextRun(u.job, x) > u.occ \/ OnTime(u)
BY NextRunAfter, NextRunType DEF OnTime

(* The jobs that are left are others than the first. *)
LEMMA Shift ==
  ASSUME NEW S, NEW q \in Seq(S), q # <<>>, IsInjective(q)
  PROVE  /\ Head(q) \in ToSet(q) /\ Tail(q) \in Seq(S) /\ IsInjective(Tail(q))
         /\ ToSet(Tail(q)) \subseteq ToSet(q) /\ Head(q) \notin ToSet(Tail(q))
<1>1. Len(q) \in Nat /\ DOMAIN q = 1..Len(q) /\ Len(q) > 0 BY LenProperties, EmptySeq
<1>2. Head(q) = q[1] /\ 1 \in DOMAIN q BY <1>1, HeadTailProperties
<1>3. /\ Tail(q) \in Seq(S) /\ Len(Tail(q)) = Len(q) - 1
      /\ \A i \in 1..Len(q)-1 : Tail(q)[i] = q[i + 1]
  BY <1>1, HeadTailProperties
<1>4. DOMAIN Tail(q) = 1..Len(q)-1 BY <1>3, LenProperties
<1>5. \A i \in DOMAIN Tail(q) :
        i \in Nat /\ i + 1 \in DOMAIN q /\ i + 1 # 1 /\ Tail(q)[i] = q[i + 1]
  BY <1>1, <1>3, <1>4
<1>6. IsInjective(Tail(q)) BY <1>1, <1>4, <1>5 DEF IsInjective
<1>7. ToSet(Tail(q)) \subseteq ToSet(q) BY <1>5 DEF ToSet
<1>8. Head(q) \notin ToSet(Tail(q)) BY <1>2, <1>5 DEF ToSet, IsInjective
<1> QED BY <1>2, <1>3, <1>6, <1>7, <1>8 DEF ToSet

LEMMA UsesTyped ==
  ASSUME TypeOK
  PROVE  /\ clock \in Nat
         /\ \A j \in Jobs : mem.job[j] \in JobType
         /\ \A u \in Uses : u.job \in Jobs /\ u.at \in Nat /\ u.occ \in Nat
<1>1. clock \in Nat BY CronAssumption DEF TypeOK
<1>2. \A j \in Jobs : mem.job[j] \in JobType BY DEF TypeOK, StoreType
<1> DEFINE T == [job : Jobs, at : Nat, occ : Nat, active : BOOLEAN]
<1>3. tasks \in Seq(T) BY DEF TypeOK
<1>4. \A k \in DOMAIN tasks : tasks[k] \in T
  <2> HIDE DEF T
  <2> QED BY <1>3
<1>5. \A k \in DOMAIN tasks : RunOf(tasks[k]) \in [job : Jobs, at : Nat, occ : Nat]
  BY <1>4 DEF RunOf
<1>6. \A w \in Leases : RunOf(exec[w]) \in [job : Jobs, at : Nat, occ : Nat]
  BY DEF RunOf, TypeOK, RunType, Leases
<1> QED BY <1>1, <1>2, <1>5, <1>6 DEF Uses

(* The user's question stands while nothing is done to the job.             *)
LEMMA AskKept ==
  ASSUME OnceInv, TypeOK, clock <= clock', clock' \in Nat, crossed \subseteq crossed',
         exec'["user"].phase = "asking" => exec'["user"] = exec["user"],
         \A i \in Jobs, v \in Runners : Works(v, i)' => Works(v, i),
         \A i \in Jobs : (\A v \in Runners : ~ Works(v, i)) =>
           /\ mem'.job[i].next = mem.job[i].next
           /\ \A u \in Uses' : u.job = i => u \in Uses
  PROVE  AskReady'
<1> DEFINE a == exec["user"]
<1> SUFFICES ASSUME exec'["user"].phase = "asking"
             PROVE  a.at <= clock' /\ (a.job \notin crossed' => Ready(a.job, a.at)')
  BY DEF AskReady, Ready
<1>1. a.phase = "asking" /\ a.at \in Nat /\ a.job \in Jobs BY DEF TypeOK, RunType, Runners
<1>2. a.at <= clock' BY <1>1, UsesTyped DEF OnceInv, AskReady
<1>3. ASSUME a.job \notin crossed' PROVE Ready(a.job, a.at)'
  <2>1. Ready(a.job, a.at) BY <1>1, <1>3 DEF OnceInv, AskReady
  <2>2. \A v \in Runners : ~ Works(v, a.job) /\ ~ Works(v, a.job)' BY <1>1, <2>1 DEF Ready
  <2>3. \A u \in Uses' : u.job = a.job => u \in Uses BY <1>1, <2>2
  <2>4. mem'.job[a.job].next = mem.job[a.job].next BY <1>1, <2>2
  <2>5. ASSUME NEW u \in Uses', u.job = a.job
        PROVE  u.at <= a.at /\ (u.occ # 0 => Passed(u)' \/ OnTime(u))
    BY <2>1, <2>3, <2>4, <2>5 DEF Ready, Passed
  <2> HIDE DEF a
  <2> QED BY <2>2, <2>5 DEF Ready, OnTime, a
<1> QED BY <1>2, <1>3

(* The runs stay what they are, but for a question of the user's. *)
SameWork ==
  /\ exec'["timer"] = exec["timer"]
  /\ \/ exec'["user"] = exec["user"]
     \/ exec["user"].phase \in {"idle", "asking"} /\ exec'["user"].phase \in {"idle", "asking"}

(* What the store may come to while the runs stay what they are. *)
LEMMA SameRuns ==
  ASSUME OnceInv, TypeOK, TypeOK', UNCHANGED <<batch, busy>>, SameWork,
         crossed \subseteq crossed', AskReady',
         DOMAIN tasks' = DOMAIN tasks,
         \A k \in DOMAIN tasks : RunOf(tasks'[k]) = RunOf(tasks[k]),
         clock <= clock', StoresAgree', LeaseLatest', Behind', OneTime'
  PROVE  OnceInv'
<1>w. \A v \in Runners :
        /\ \A i \in Jobs : (Works(v, i)' <=> Works(v, i)) /\ (Runs(v, i)' <=> Runs(v, i))
        /\ \A i \in Jobs : Runs(v, i) => exec'[v] = exec[v]
        /\ exec[v].phase = "leased" \/ exec'[v].phase = "leased" => exec'[v] = exec[v]
  BY DEF Runners, SameWork, Works, Runs
<1>l. Leases' = Leases /\ \A v \in Leases : exec'[v] = exec[v] BY <1>w DEF Leases
<1>1. Uses' = Uses BY <1>l DEF Uses
<1>2. clock \in Nat /\ clock' \in Nat /\ \A u \in Uses : u.at \in Nat /\ u.occ \in Nat
  BY UsesTyped, CronAssumption DEF TypeOK
<1>3. UsesPast' BY <1>1, <1>2 DEF OnceInv, UsesPast
<1>4. BatchShape'
  <2>1. batch.at \in Nat BY DEF TypeOK
  <2> QED BY <1>2, <2>1 DEF OnceInv, BatchShape, SameWork
<1>5. Exclusive' BY <1>w DEF OnceInv, Exclusive
<1>6. RunLatest' BY <1>1, <1>w, UsesTyped DEF OnceInv, RunLatest
<1>7. BatchLatest' BY <1>1 DEF OnceInv, BatchLatest
<1>8. \A k \in DOMAIN tasks : /\ tasks'[k].job = tasks[k].job /\ tasks'[k].at = tasks[k].at
                              /\ tasks'[k].occ = tasks[k].occ
  BY DEF RunOf
<1>9. OnceMore' BY <1>l, <1>8 DEF OnceInv, OnceMore, OnTime, RunOf
<1>10. OncePerOccurrence' BY <1>8 DEF OnceInv, OncePerOccurrence
<1> QED BY <1>3, <1>4, <1>5, <1>6, <1>7, <1>9, <1>10 DEF OnceInv

(* The jobs stay what they are; some may leave the list. *)
LEMMA SameJobs ==
  ASSUME OnceInv, TypeOK, TypeOK', UNCHANGED <<exec, batch, busy, crossed>>,
         DOMAIN tasks' = DOMAIN tasks,
         \A k \in DOMAIN tasks : RunOf(tasks'[k]) = RunOf(tasks[k]),
         clock <= clock', mem'.job = mem.job, disk'.job = mem.job,
         mem'.listed \subseteq mem.listed
  PROVE  OnceInv'
<1>1. Uses' = Uses BY DEF Uses, Leases
<1>2. StoresAgree' BY DEF StoresAgree
<1>3. LeaseLatest' BY <1>1 DEF OnceInv, LeaseLatest
<1>4. OneTime' BY DEF OnceInv, OneTime
<1>5. \A j \in Jobs : Spent(j) => Spent(j)' BY DEF Spent, Runs
<1>6. \A u \in Uses : Passed(u) => Passed(u)' BY DEF Passed
<1>7. Behind' BY <1>1, <1>5, <1>6, UsesTyped DEF OnceInv, Behind, OnTime
<1>8. clock' \in Nat BY CronAssumption DEF TypeOK
<1>9. AskReady' BY <1>1, <1>8, AskKept DEF Works
<1>10. SameWork BY DEF SameWork
<1> QED BY <1>2, <1>3, <1>4, <1>7, <1>9, <1>10, SameRuns

(* A job is changed; its lease and its time stay behind no run.             *)
LEMMA OneJob ==
  ASSUME OnceInv, TypeOK, TypeOK', UNCHANGED <<batch, busy, crossed, tasks, clock>>,
         SameWork, exec'["user"].phase # "asking",
         NEW j \in Jobs, disk' = mem',
         \A i \in Jobs \ {j} : mem'.job[i] = mem.job[i] /\ (i \in mem'.listed => i \in mem.listed),
         \A u \in Uses : u.job = j /\ mem'.job[j].lease # 0 /\ j \notin crossed
                          => u.at <= mem'.job[j].lease,
         j \in OneShots => mem'.job[j].next \in {0, At},
         \A u \in Uses : u.job = j /\ j \notin crossed /\ u.occ # 0
                          => Passed(u)' \/ OnTime(u) \/ Spent(j)'
  PROVE  OnceInv'
<1>w. \A v \in Runners :
        /\ \A i \in Jobs : Runs(v, i)' <=> Runs(v, i)
        /\ exec[v].phase = "leased" \/ exec'[v].phase = "leased" => exec'[v] = exec[v]
  BY DEF Runners, SameWork, Runs
<1>l. Leases' = Leases /\ \A v \in Leases : exec'[v] = exec[v] BY <1>w DEF Leases
<1>1. Uses' = Uses BY <1>l DEF Uses
<1>2. StoresAgree' BY DEF StoresAgree
<1>3. \A u \in Uses : u.job \in Jobs /\ (u.job = j \/ u.job \in Jobs \ {j}) BY UsesTyped
<1>4. LeaseLatest' BY <1>1, <1>3 DEF OnceInv, LeaseLatest
<1>5. OneTime' BY CronAssumption DEF OnceInv, OneTime
<1>6. \A i \in Jobs \ {j} : Spent(i) => Spent(i)' BY <1>w DEF Spent
<1>7. \A u \in Uses : u.job # j => (Passed(u) => Passed(u)') BY <1>3 DEF Passed
<1>8. Behind' BY <1>1, <1>3, <1>6, <1>7 DEF OnceInv, Behind, OnTime
<1>9. clock \in Nat BY UsesTyped
<1>10. clock <= clock' BY <1>9
<1>11. AskReady' BY DEF AskReady
<1> QED BY <1>2, <1>4, <1>5, <1>8, <1>10, <1>11, SameRuns

(* A time computed from one that no run is after.                           *)
LEMMA NewTime ==
  ASSUME OnceInv, TypeOK, NEW j \in Jobs, NEW x \in Nat,
         j \notin crossed => \A u \in Uses : u.job = j => u.at <= x
  PROVE  \A u \in Uses : u.job = j /\ j \notin crossed =>
           NextRun(j, x) = 0 \/ NextRun(j, x) > u.occ \/ OnTime(u)
BY UsesTyped, Passes DEF OnceInv, UsesPast

LEMMA AtMostNow ==
  ASSUME OnceInv, TypeOK PROVE \A u \in Uses : u.at <= clock /\ u.occ <= clock
BY UsesTyped DEF OnceInv, UsesPast

(* The lease of a job, or the clock when it has none, is over its runs.     *)
LEMMA LeaseOrNow ==
  ASSUME OnceInv, TypeOK, NEW j \in Jobs, j \notin crossed, NEW x,
         x = IF mem.job[j].lease = 0 THEN clock ELSE mem.job[j].lease
  PROVE  \A u \in Uses : u.job = j => u.at <= x
BY AtMostNow DEF OnceInv, LeaseLatest

LEMMA AddKeeps ==
  ASSUME OnceInv, TypeOK, TypeOK', NEW j \in Jobs, AddJob(j)
  PROVE  OnceInv'
<1> DEFINE n == NextRun(j, clock)
<1>1. clock \in Nat /\ mem.job[j] \in JobType BY UsesTyped
<1>2. /\ mem \in StoreType /\ disk' = mem'
      /\ mem' = [mem EXCEPT !.listed = @ \cup {j}, !.job[j].next = n]
  BY DEF TypeOK, AddJob, Persist
<1>3. \A i \in Jobs \ {j} : mem'.job[i] = mem.job[i] /\ (i \in mem'.listed => i \in mem.listed)
  BY <1>2 DEF StoreType
<1>4. mem'.job[j].next = n /\ mem'.job[j].lease = mem.job[j].lease
  BY <1>1, <1>2 DEF StoreType, JobType
<1>5. j \in OneShots => n \in {0, At} BY <1>1, NextRunAfter
<1>6. \A u \in Uses : u.job = j /\ j \notin crossed => n = 0 \/ n > u.occ \/ OnTime(u)
  BY <1>1, AtMostNow, NewTime
<1> HIDE DEF n
<1>7. \A u \in Uses : u.job = j /\ mem'.job[j].lease # 0 /\ j \notin crossed
                       => u.at <= mem'.job[j].lease
  BY <1>4 DEF OnceInv, LeaseLatest
<1>8. UNCHANGED <<batch, busy, crossed, tasks, clock>> /\ SameWork /\ exec'["user"].phase # "asking"
  BY DEF AddJob, Unlocked, EditOnly, SameWork
<1> QED BY <1>2, <1>3, <1>4, <1>5, <1>6, <1>7, <1>8, OneJob DEF Passed

LEMMA ToggleKeeps ==
  ASSUME OnceInv, TypeOK, TypeOK', NEW j \in Jobs, Toggle(j)
  PROVE  OnceInv'
<1> DEFINE on == ~ mem.job[j].on
           n == IF on THEN NextRun(j, clock) ELSE 0
<1>1. clock \in Nat /\ mem.job[j] \in JobType BY UsesTyped
<1>2. mem' = [mem EXCEPT !.job[j].on = on, !.job[j].next = n] /\ disk' = mem'
  BY DEF Toggle, Persist
<1>3. n = 0 \/ n = NextRun(j, clock) OBVIOUS
<1> HIDE DEF n, on
<1>4. mem'.listed = mem.listed /\ \A i \in Jobs \ {j} : mem'.job[i] = mem.job[i]
  BY <1>2 DEF TypeOK, StoreType
<1>5. mem'.job[j].next = n /\ mem'.job[j].lease = mem.job[j].lease
  BY <1>1, <1>2 DEF TypeOK, StoreType, JobType
<1>6. j \in OneShots => n \in {0, At} BY <1>1, <1>3, NextRunAfter
<1>7. \A u \in Uses : u.job = j /\ j \notin crossed => n = 0 \/ n > u.occ \/ OnTime(u)
  BY <1>1, <1>3, AtMostNow, NewTime
<1>8. \A u \in Uses : u.job = j /\ mem'.job[j].lease # 0 /\ j \notin crossed
                       => u.at <= mem'.job[j].lease
  BY <1>5 DEF OnceInv, LeaseLatest
<1>9. UNCHANGED <<batch, busy, crossed, tasks, clock>> /\ SameWork /\ exec'["user"].phase # "asking"
  BY DEF Toggle, Edit, Unlocked, EditOnly, SameWork
<1> QED BY <1>2, <1>4, <1>5, <1>6, <1>7, <1>8, <1>9, OneJob DEF Passed

(* The lease, or the start of the user's run when there is none. *)
LEMMA LeaseOrAsked ==
  ASSUME OnceInv, TypeOK, exec["user"].phase = "asking", exec["user"].job \notin crossed, NEW x,
         x = IF mem.job[exec["user"].job].lease = 0 THEN exec["user"].at
             ELSE mem.job[exec["user"].job].lease
  PROVE  \A u \in Uses : u.job = exec["user"].job => u.at <= x
BY DEF OnceInv, LeaseLatest, AskReady, Ready

(* A run that finds a task at work renews the lease only. *)
LEMMA FindsTaskKeeps ==
  ASSUME OnceInv, TypeOK, TypeOK', FindsTask
  PROVE  OnceInv'
<1> DEFINE j == exec["user"].job
           at == exec["user"].at
           r == mem.job[j]
           lease == IF r.lease = 0 THEN at ELSE r.lease
           q == [r EXCEPT !.lease = lease,
                          !.last = IF @ = 0 THEN lease ELSE @,
                          !.next = IF r.on /\ @ <= at THEN NextRun(j, lease) ELSE @]
<1>0. j \in Jobs /\ at \in Nat BY DEF TypeOK, RunType, Runners
<1>1. r \in JobType BY <1>0, UsesTyped
<1>2. lease \in Nat BY <1>0, <1>1 DEF JobType
<1>3. mem' = With(mem, j, q) /\ disk' = mem' BY DEF FindsTask, Persist
<1>4. /\ q.lease = lease /\ q.last = IF r.last = 0 THEN lease ELSE r.last
      /\ q.next = IF r.on /\ r.next <= at THEN NextRun(j, lease) ELSE r.next
  BY <1>1 DEF JobType
<1>5. j \notin crossed => \A u \in Uses : u.job = j => u.at <= lease
  BY LeaseOrAsked DEF FindsTask
<1>6. \A u \in Uses : u.job = j /\ j \notin crossed =>
        NextRun(j, lease) = 0 \/ NextRun(j, lease) > u.occ \/ OnTime(u)
  BY <1>0, <1>2, <1>5, NewTime
<1>7. NextRun(j, lease) \in Nat /\ (j \in OneShots => NextRun(j, lease) \in {0, At})
  BY <1>0, <1>2, NextRunType, NextRunAfter
<1>8. \A u \in Uses : u.job = j /\ j \notin crossed /\ u.occ # 0 => Passed(u) \/ OnTime(u)
  BY DEF FindsTask, OnceInv, AskReady, Ready
<1>9. /\ UNCHANGED <<batch, busy, crossed, tasks, clock>>
      /\ exec["user"].phase = "asking" /\ exec' = [exec EXCEPT !["user"] = NoRun]
  BY DEF FindsTask, history
<1>10. SameWork /\ exec'["user"].phase # "asking"
  BY <1>9 DEF SameWork, TypeOK, Runners, NoRun
<1> HIDE DEF lease, q, j, at
<1>11. /\ mem'.listed = mem.listed /\ mem'.job[j] = q
       /\ \A i \in Jobs \ {j} : mem'.job[i] = mem.job[i]
  BY <1>0, <1>3 DEF With, TypeOK, StoreType
<1>12. j \in OneShots => q.next \in {0, At} BY <1>4, <1>7 DEF OnceInv, OneTime
<1>13. ASSUME NEW u \in Uses, u.job = j, j \notin crossed, u.occ # 0
       PROVE  q.next = 0 \/ q.next > u.occ \/ OnTime(u)
  BY <1>4, <1>6, <1>8, <1>13 DEF Passed
<1> QED BY <1>0, <1>3, <1>4, <1>5, <1>9, <1>10, <1>11, <1>12, <1>13, OneJob DEF Passed

LEMMA LeasedJob ==
  ASSUME TypeOK, NEW j \in Jobs, NEW at \in Nat
  PROVE  /\ Leased(j, at).listed = mem.listed
         /\ \A i \in Jobs \ {j} : Leased(j, at).job[i] = mem.job[i]
         /\ Leased(j, at).job[j].lease = at /\ Leased(j, at).job[j].last = at
         /\ j \in OneShots => Leased(j, at).job[j].next = mem.job[j].next
         /\ j \notin OneShots => Leased(j, at).job[j].next \in {0, NextRun(j, at)}
<1> DEFINE r == mem.job[j]
           q == [r EXCEPT !.lease = at, !.last = at,
                          !.next = IF j \in OneShots THEN @
                                   ELSE IF r.on THEN NextRun(j, at) ELSE 0]
<1>1. r \in JobType BY DEF TypeOK, StoreType
<1>2. /\ q.lease = at /\ q.last = at
      /\ j \in OneShots => q.next = r.next
      /\ j \notin OneShots => q.next \in {0, NextRun(j, at)}
  BY <1>1 DEF JobType
<1>3. Leased(j, at) = With(mem, j, q) BY DEF Leased
<1> HIDE DEF q
<1>4. /\ Leased(j, at).listed = mem.listed /\ Leased(j, at).job[j] = q
      /\ \A i \in Jobs \ {j} : Leased(j, at).job[i] = mem.job[i]
  BY <1>3 DEF With, TypeOK, StoreType
<1> QED BY <1>2, <1>4

(* A run of a job that is ready, with a batch of jobs that are. *)
LEMMA ExecuteKeeps ==
  ASSUME OnceInv, TypeOK, TypeOK',
         NEW w \in Runners, NEW j \in Jobs, NEW at \in Nat, at <= clock,
         exec[w].phase \in {"idle", "asking"}, ExecuteJob(w, j, at),
         w = "timer" /\ exec["user"].phase = "asking" /\ exec["user"].job = j => j \in crossed',
         UNCHANGED <<tasks, clock>>, crossed \subseteq crossed', BatchShape',
         j \notin crossed' => Ready(j, at) /\ j \notin ToSet(batch'.jobs),
         \A i \in ToSet(batch'.jobs) \ crossed' : Ready(i, batch'.at)
  PROVE  OnceInv'
<1> DEFINE next == mem.job[j].next
           occ == IF next <= at THEN next ELSE 0
           new == [job |-> j, at |-> at, occ |-> occ]
           run == [phase |-> "leased", job |-> j, at |-> at, task |-> 0, occ |-> occ]
<1>1. clock \in Nat /\ mem.job[j] \in JobType /\ next \in Nat BY UsesTyped DEF JobType
<1>2. /\ exec' = [exec EXCEPT ![w] = run] /\ busy' = busy \cup {j}
      /\ mem' = Leased(j, at) /\ disk' = mem'
  BY DEF ExecuteJob, Persist
<1>3. exec'[w] = run /\ \A v \in Runners : v # w => exec'[v] = exec[v]
  BY <1>2 DEF TypeOK
<1>4. RunOf(run) = new BY DEF RunOf
<1>5. Uses' \subseteq Uses \cup {new}
  <2>1. Leases' \subseteq Leases \cup {w} BY <1>3 DEF Leases
  <2>2. \A v \in Leases' : RunOf(exec'[v]) \in Uses \cup {new}
    BY <1>3, <1>4, <2>1 DEF Uses, Leases
  <2> QED BY <2>2 DEF Uses
<1>6. \A u \in Uses : u.job \in Jobs /\ u.at \in Nat /\ u.occ \in Nat /\ u.occ <= u.at
  BY UsesTyped DEF OnceInv, UsesPast
<1>7. occ \in Nat /\ occ <= at /\ (occ # 0 => occ = next) BY <1>1
<1>8. /\ run.phase = "leased" /\ run.job = j /\ run.at = at /\ run.occ = occ
      /\ new.job = j /\ new.at = at /\ new.occ = occ
  OBVIOUS
<1> HIDE DEF run, new, occ
<1>9. UsesPast' BY <1>1, <1>5, <1>7, <1>8 DEF OnceInv, UsesPast
<1>10. StoresAgree' BY <1>2 DEF StoresAgree
<1>11. /\ mem'.listed = mem.listed /\ \A i \in Jobs \ {j} : mem'.job[i] = mem.job[i]
       /\ mem'.job[j].lease = at /\ mem'.job[j].last = at
       /\ j \in OneShots => mem'.job[j].next = next
       /\ j \notin OneShots => mem'.job[j].next \in {0, NextRun(j, at)}
  BY <1>2, LeasedJob
<1>12. \A i \in Jobs : \A v \in Runners :
         /\ Works(v, i)' => Works(v, i) \/ (v = w /\ i = j)
         /\ Runs(v, i)' => Runs(v, i) \/ (v = w /\ i = j)
         /\ v = w => ~ Works(v, i) /\ ~ Runs(v, i)
         /\ v # w => (Works(v, i)' <=> Works(v, i)) /\ (Runs(v, i)' <=> Runs(v, i))
  BY <1>3, <1>8 DEF Works, Runs
<1>13. \A v \in Runners, i \in Jobs : Runs(v, i) => Works(v, i) BY DEF Works, Runs
<1>14. Exclusive'
  <2> SUFFICES ASSUME NEW v \in Runners, NEW i \in Jobs \ crossed', Works(v, i)'
               PROVE  /\ i \in busy' /\ i \notin ToSet(batch'.jobs)
                      /\ \A z \in Runners : z # v => ~ Works(z, i)'
    BY DEF Exclusive
  <2>1. CASE v = w
    <3>1. i = j BY <1>3, <1>8, <2>1 DEF Works
    <3> QED BY <1>2, <1>12, <2>1, <3>1 DEF Ready
  <2>2. CASE v # w
    <3>1. Works(v, i) BY <1>12, <2>2
    <3>2. i # j BY <3>1 DEF Ready
    <3>3. i \in busy /\ \A z \in Runners : z # v => ~ Works(z, i)
      BY <3>1 DEF OnceInv, Exclusive
    <3>4. i \notin ToSet(batch'.jobs) BY <3>1 DEF Ready
    <3> QED BY <1>2, <1>12, <3>2, <3>3, <3>4
  <2> QED BY <2>1, <2>2
<1>15. LeaseLatest'
  <2> SUFFICES ASSUME NEW u \in Uses', u.job \notin crossed', mem'.job[u.job].lease # 0
               PROVE  u.at <= mem'.job[u.job].lease
    BY DEF LeaseLatest
  <2>1. CASE u = new BY <1>8, <1>11, <2>1
  <2>2. CASE u \in Uses /\ u.job = j BY <1>11, <2>2 DEF Ready
  <2>3. CASE u \in Uses /\ u.job # j BY <1>6, <1>11, <2>3 DEF OnceInv, LeaseLatest
  <2> QED BY <1>5, <2>1, <2>2, <2>3
<1>16. RunLatest'
  <2> SUFFICES ASSUME NEW u \in Uses', u.job \notin crossed', NEW v \in Runners, Runs(v, u.job)'
               PROVE  u.at <= exec'[v].at
    BY DEF RunLatest
  <2>1. CASE u.job = j
    <3>1. v = w BY <1>12, <1>13, <2>1 DEF Ready
    <3>2. u.at <= at BY <1>5, <1>8, <2>1 DEF Ready
    <3> QED BY <1>3, <1>8, <3>1, <3>2
  <2>2. CASE u.job # j
    <3>1. u \in Uses BY <1>5, <1>8, <2>2
    <3>2. Runs(v, u.job) /\ v # w BY <1>6, <1>12, <2>2, <3>1
    <3> QED BY <1>3, <3>1, <3>2 DEF OnceInv, RunLatest
  <2> QED BY <2>1, <2>2
<1>17. BatchLatest'
  <2> SUFFICES ASSUME NEW u \in Uses', u.job \notin crossed', u.job \in ToSet(batch'.jobs)
               PROVE  u.at <= batch'.at
    BY DEF BatchLatest
  <2>1. u \in Uses BY <1>5, <1>8
  <2> QED BY <2>1 DEF Ready
<1>18. OneTime' BY <1>11, CronAssumption DEF OnceInv, OneTime
<1>19. Behind'
  <2> SUFFICES ASSUME NEW u \in Uses', u.occ # 0, u.job \notin crossed'
               PROVE  Passed(u)' \/ OnTime(u) \/ Spent(u.job)'
    BY DEF Behind, OnTime
  <2>1. CASE u.job = j /\ j \notin OneShots
    <3>1. u.at <= at /\ u.at \in Nat /\ u.occ \in Nat /\ u.occ <= u.at
      BY <1>5, <1>6, <1>7, <1>8, <2>1 DEF Ready
    <3>2. NextRun(j, at) = 0 \/ NextRun(j, at) > u.occ \/ OnTime(u)
      BY <2>1, <3>1, Passes
    <3> QED BY <1>11, <2>1, <3>2 DEF Passed
  <2>2. CASE u = new /\ j \in OneShots
    <3>1. mem'.job[j].last >= mem'.job[j].next BY <1>7, <1>8, <1>11, <2>2
    <3>2. Runs(w, j)' BY <1>3, <1>8 DEF Runs
    <3> QED BY <1>8, <2>2, <3>1, <3>2 DEF Spent
  <2>3. CASE u \in Uses /\ u.job = j /\ j \in OneShots
    <3>1. Passed(u) \/ OnTime(u) BY <2>3 DEF Ready
    <3> QED BY <1>11, <2>3, <3>1 DEF Passed
  <2>4. CASE u \in Uses /\ u.job # j
    <3>1. mem'.job[u.job] = mem.job[u.job] BY <1>6, <1>11, <2>4
    <3>2. Passed(u) \/ OnTime(u) \/ Spent(u.job) BY <2>4 DEF OnceInv, Behind
    <3>3. CASE u.job \in ToSet(batch'.jobs)
      <4>1. Passed(u) \/ OnTime(u) BY <2>4, <3>3 DEF Ready
      <4> QED BY <3>1, <4>1 DEF Passed
    <3>4. CASE Spent(u.job) /\ u.job \notin ToSet(batch'.jobs)
      <4>2. u.job \notin mem'.listed \/ \E v \in Runners : Runs(v, u.job)'
        BY <1>6, <1>11, <1>12, <2>4, <3>4 DEF Spent
      <4> QED BY <3>1, <3>4, <4>2 DEF Spent
    <3> QED BY <3>1, <3>2, <3>3, <3>4 DEF Passed
  <2> QED BY <1>5, <1>8, <2>1, <2>2, <2>3, <2>4
<1>20. OnceMore'
  <2> SUFFICES ASSUME NEW k \in DOMAIN tasks, NEW v \in Leases', exec'[v].job = tasks[k].job,
                      exec'[v].occ = tasks[k].occ, tasks[k].occ # 0, tasks[k].job \notin crossed'
               PROVE  OnTime(RunOf(tasks[k])) \/ OnTime(RunOf(exec'[v]))
    BY DEF OnceMore, OnTime
  <2>1. CASE v = w
    <3> DEFINE u == RunOf(tasks[k])
    <3>1. u \in Uses /\ u.job = tasks[k].job /\ u.occ = tasks[k].occ BY DEF Uses, RunOf
    <3>2. u.job = j /\ u.occ = next BY <1>3, <1>7, <1>8, <2>1, <3>1
    <3> HIDE DEF u
    <3>3. ~ Passed(u) BY <1>1, <3>1, <3>2 DEF Passed
    <3>4. OnTime(u) BY <3>1, <3>2, <3>3 DEF Ready
    <3> QED BY <3>4 DEF u
  <2>2. CASE v # w
    <3>1. v \in Leases /\ exec'[v] = exec[v] BY <1>3, <2>2 DEF Leases
    <3> QED BY <3>1 DEF OnceInv, OnceMore
  <2> QED BY <2>1, <2>2
<1>21. OncePerOccurrence' BY DEF OnceInv, OncePerOccurrence
<1>22. AskReady'
  <2> DEFINE a == exec["user"]
  <2>1. exec'["user"].phase = "asking" => exec'["user"] = a /\ w = "timer"
    BY <1>3, <1>8 DEF Runners
  <2> SUFFICES ASSUME exec'["user"].phase = "asking"
               PROVE  a.at <= clock' /\ (a.job \notin crossed' => Ready(a.job, a.at)')
    BY <2>1 DEF AskReady, Ready
  <2>2. a.phase = "asking" /\ a.at <= clock /\ a.job \in Jobs
    BY <2>1 DEF TypeOK, RunType, Runners, OnceInv, AskReady
  <2>3. ASSUME a.job \notin crossed' PROVE Ready(a.job, a.at)'
    <3>1. a.job # j /\ Ready(a.job, a.at) BY <2>1, <2>2, <2>3 DEF OnceInv, AskReady
    <3>2. \A v \in Runners : ~ Works(v, a.job)'
      BY <1>3, <1>8, <2>1, <3>1 DEF Ready, Works
    <3>3. \A u \in Uses' : u.job = a.job => u \in Uses BY <1>5, <1>8, <3>1
    <3>4. mem'.job[a.job] = mem.job[a.job] BY <1>11, <2>2, <3>1
    <3>5. ASSUME NEW u \in Uses', u.job = a.job
          PROVE  u.at <= a.at /\ (u.occ # 0 => Passed(u)' \/ OnTime(u))
      BY <3>1, <3>3, <3>4, <3>5 DEF Ready, Passed
    <3> QED BY <2>1, <3>2, <3>5 DEF Ready, OnTime
  <2> QED BY <2>2, <2>3
<1> QED
  BY <1>9, <1>10, <1>14, <1>15, <1>16, <1>17, <1>18, <1>19, <1>20, <1>21, <1>22 DEF OnceInv

(* A job that waits in the batch has been left alone since the batch was    *)
(* chosen.                                                                  *)
LEMMA WaitsReady ==
  ASSUME OnceInv, TypeOK, NEW i \in ToSet(batch.jobs) \ crossed
  PROVE  Ready(i, batch.at)
<1>1. i \in Jobs BY DEF TypeOK, ToSet
<1> QED BY <1>1 DEF OnceInv, Exclusive, BatchLatest, Behind, Ready, Spent

LEMMA TimerFiresKeeps ==
  ASSUME OnceInv, TypeOK, TypeOK', NEW js \in Batches, TimerFires(js)
  PROVE  OnceInv'
<1> DEFINE j == Head(js)
<1>1. js \in Seq(Jobs) /\ IsInjective(js) /\ js # <<>> BY DEF Batches, TimerFires, Chosen
<1>2. /\ j \in ToSet(js) /\ Tail(js) \in Seq(Jobs) /\ IsInjective(Tail(js))
      /\ ToSet(Tail(js)) \subseteq ToSet(js) /\ j \notin ToSet(Tail(js))
  BY <1>1, Shift
<1>3. ToSet(js) \subseteq {i \in Jobs : Due(mem, i) /\ i \notin busy} BY DEF TimerFires, Chosen
<1>4. clock \in Nat /\ clock # 0 BY CronAssumption DEF TypeOK
<1>5. batch' = [jobs |-> Tail(js), at |-> clock] /\ ~ Running BY DEF TimerFires
<1>6. exec["timer"].phase = "idle" /\ "timer" \in Runners
  <2>1. batch = NoBatch BY <1>5 DEF Running
  <2>2. batch.at = 0 BY <2>1 DEF NoBatch
  <2> QED BY <2>2 DEF OnceInv, BatchShape, Runners
<1>7. ASSUME NEW i \in ToSet(js) \ crossed PROVE Ready(i, clock)
  <2>1. i \in Jobs /\ Due(mem, i) /\ i \notin busy BY <1>3
  <2>2. \A v \in Runners : ~ Works(v, i) BY <2>1 DEF OnceInv, Exclusive
  <2>3. ~ Spent(i) BY <2>1, <2>2 DEF Due, Spent, Works, Runs
  <2> QED BY <1>7, <2>2, <2>3, AtMostNow DEF Ready, OnceInv, Behind
<1>8. /\ ExecuteJob("timer", j, clock) /\ UNCHANGED <<tasks, clock>> /\ crossed \subseteq crossed'
      /\ exec["user"].phase = "asking" /\ exec["user"].job = j => j \in crossed'
  BY DEF TimerFires, TimerStarts
<1>9. j \in Jobs /\ clock <= clock BY <1>2, <1>3, <1>4
<1>10. batch'.jobs = Tail(js) /\ batch'.at = clock BY <1>5
<1> HIDE DEF j
<1>11. BatchShape' BY <1>2, <1>4, <1>8, <1>10 DEF BatchShape
<1>12. j \notin crossed' => Ready(j, clock) /\ j \notin ToSet(batch'.jobs)
  BY <1>2, <1>7, <1>8, <1>10
<1>13. \A i \in ToSet(batch'.jobs) \ crossed' : Ready(i, batch'.at)
  BY <1>2, <1>7, <1>8, <1>10
<1> QED BY <1>4, <1>6, <1>8, <1>9, <1>11, <1>12, <1>13, ExecuteKeeps

LEMMA TimerGoesOnKeeps ==
  ASSUME OnceInv, TypeOK, TypeOK', TimerGoesOn
  PROVE  OnceInv'
<1>1. batch.jobs \in Seq(Jobs) /\ batch.at \in Nat /\ "timer" \in Runners
  BY DEF TypeOK, Runners
<1>2. exec["timer"].phase = "idle" /\ batch # NoBatch BY DEF TimerGoesOn, Running
<1>3. CASE batch.jobs = <<>>
  <2>1. batch' = NoBatch /\ UNCHANGED <<clock, mem, disk, exec, busy, tasks, crossed>>
    BY <1>3 DEF TimerGoesOn, history
  <2>2. batch'.jobs = <<>> /\ batch'.at = 0 BY <2>1 DEF NoBatch
  <2>3. ToSet(batch'.jobs) = {} /\ IsInjective(batch'.jobs) BY <2>2 DEF ToSet, IsInjective
  <2>4. clock \in Nat BY UsesTyped
  <2>5. BatchShape' BY <1>2, <2>1, <2>2, <2>3, <2>4 DEF BatchShape
  <2>6. Uses' = Uses /\ Leases' = Leases BY <2>1 DEF Uses, Leases
  <2>7. UsesPast' /\ StoresAgree' BY <2>1, <2>6 DEF OnceInv, UsesPast, StoresAgree
  <2>8. Exclusive' BY <2>1, <2>3 DEF OnceInv, Exclusive, Works
  <2>9. LeaseLatest' /\ RunLatest' /\ BatchLatest'
    BY <2>1, <2>3, <2>6 DEF OnceInv, LeaseLatest, RunLatest, BatchLatest, Runs
  <2>10. Behind' BY <2>1, <2>3, <2>6 DEF OnceInv, Behind, Passed, Spent, Runs, OnTime
  <2>11. OneTime' BY <2>1 DEF OnceInv, OneTime
  <2>13. AskReady' BY <2>1, <2>4, <2>6, AskKept DEF Works
  <2>12. OnceMore' /\ OncePerOccurrence'
    BY <2>1, <2>6 DEF OnceInv, OnceMore, OncePerOccurrence, OnTime
  <2> QED BY <2>5, <2>7, <2>8, <2>9, <2>10, <2>11, <2>12, <2>13 DEF OnceInv
<1>4. CASE batch.jobs # <<>>
  <2> DEFINE j == Head(batch.jobs)
  <2>1. IsInjective(batch.jobs) /\ batch.at <= clock /\ batch.at # 0
    BY <1>2 DEF OnceInv, BatchShape
  <2>2. /\ j \in ToSet(batch.jobs) /\ IsInjective(Tail(batch.jobs))
        /\ ToSet(Tail(batch.jobs)) \subseteq ToSet(batch.jobs) /\ j \notin ToSet(Tail(batch.jobs))
    BY <1>1, <1>4, <2>1, Shift
  <2>3. j \in Jobs BY <1>1, <2>2 DEF ToSet
  <2>4. batch' = [batch EXCEPT !.jobs = Tail(@)] /\ TimerStarts(j, batch.at)
    BY <1>4 DEF TimerGoesOn
  <2>5. /\ ExecuteJob("timer", j, batch.at) /\ UNCHANGED <<tasks, clock>>
        /\ crossed \subseteq crossed'
        /\ exec["user"].phase = "asking" /\ exec["user"].job = j => j \in crossed'
    BY <2>4 DEF TimerStarts
  <2>6. batch'.jobs = Tail(batch.jobs) /\ batch'.at = batch.at BY <2>4 DEF TypeOK
  <2> HIDE DEF j
  <2>7. BatchShape' BY <2>1, <2>2, <2>5, <2>6 DEF BatchShape
  <2>8. j \notin crossed' => Ready(j, batch.at) /\ j \notin ToSet(batch'.jobs)
    BY <2>2, <2>5, <2>6, WaitsReady
  <2>9. \A i \in ToSet(batch'.jobs) \ crossed' : Ready(i, batch'.at)
    BY <2>2, <2>5, <2>6, WaitsReady
  <2> QED BY <1>1, <1>2, <2>1, <2>3, <2>5, <2>7, <2>8, <2>9, ExecuteKeeps
<1> QED BY <1>3, <1>4

(* A job the user asks for is on the list: no one-shot that has been run. *)
LEMMA RunKeeps ==
  ASSUME OnceInv, TypeOK, TypeOK', NEW j \in Jobs, NEW mode, Run(j, mode)
  PROVE  OnceInv'
<1>1. exec["user"].phase = "idle" /\ j \in mem.listed /\ clock \in Nat
  BY UsesTyped DEF Run, Edit, Unlocked
<1>2. exec' = [exec EXCEPT !["user"] = [NoRun EXCEPT !.phase = "asking", !.job = j, !.at = clock]]
  BY DEF Run
<1>3. /\ exec'["user"].phase = "asking" /\ exec'["user"].job = j /\ exec'["user"].at = clock
      /\ exec'["timer"] = exec["timer"]
  BY <1>2, NoRunType DEF TypeOK, RunType, Runners
<1>4. UNCHANGED <<tasks, clock, batch, busy, mem, disk>> BY DEF Run
<1>5. SameWork BY <1>1, <1>3 DEF SameWork
<1>6. j \notin crossed' => j \notin crossed /\ ~ Works("timer", j)
  BY DEF Run, Crosses, WhileTimerRuns, Works
<1>7. crossed \subseteq crossed' BY DEF Run, Crosses
<1>l. \A v \in Runners : exec[v].phase = "leased" \/ exec'[v].phase = "leased" => exec'[v] = exec[v]
  BY <1>1, <1>3 DEF Runners
<1>u. Leases' = Leases /\ Uses' = Uses
  <2>1. Leases' = Leases /\ \A v \in Leases : exec'[v] = exec[v] BY <1>l DEF Leases
  <2> QED BY <1>4, <2>1 DEF Uses
<1>8. AskReady'
  <2> SUFFICES ASSUME j \notin crossed' PROVE Ready(j, clock)'
    BY <1>1, <1>3, <1>4 DEF AskReady, Ready
  <2>1. ~ Works("timer", j) /\ ~ Works("user", j) BY <1>1, <1>6 DEF Works
  <2>2. ~ Works("timer", j)' /\ ~ Works("user", j)' BY <1>3, <2>1 DEF Works
  <2>3. ~ Spent(j) BY <1>1, <2>1 DEF Spent, Works, Runs, Runners
  <2>4. \A u \in Uses : u.job = j /\ u.occ # 0 => Passed(u) \/ OnTime(u)
    BY <1>6, <2>3 DEF OnceInv, Behind
  <2>5. \A u \in Uses : u.job = j => u.at <= clock BY AtMostNow
  <2> QED BY <1>4, <1>u, <2>2, <2>4, <2>5 DEF Ready, Runners, Passed, OnTime
<1>9. StoresAgree' BY <1>4 DEF OnceInv, StoresAgree
<1>10. LeaseLatest' BY <1>4, <1>7, <1>u DEF OnceInv, LeaseLatest
<1>11. OneTime' BY <1>4 DEF OnceInv, OneTime
<1>12. Behind'
  <2>1. \A v \in Runners, i \in Jobs : Runs(v, i)' <=> Runs(v, i)
    BY <1>1, <1>3 DEF Runs, Runners
  <2>2. \A i \in Jobs : Spent(i) => Spent(i)' BY <1>4, <2>1 DEF Spent
  <2> QED BY <1>4, <1>7, <1>u, <2>2, UsesTyped DEF OnceInv, Behind, Passed, OnTime
<1> QED BY <1>1, <1>4, <1>5, <1>7, <1>8, <1>9, <1>10, <1>11, <1>12, SameRuns

(* The user's run starts, unless the timer has come in between. *)
LEMMA FindsNoTaskKeeps ==
  ASSUME OnceInv, TypeOK, TypeOK', FindsNoTask
  PROVE  OnceInv'
<1> DEFINE j == exec["user"].job
           at == exec["user"].at
<1>1. /\ exec["user"].phase = "asking" /\ "user" \in Runners
      /\ clock \in Nat /\ j \in Jobs /\ at \in Nat /\ at <= clock
  BY UsesTyped DEF FindsNoTask, TypeOK, RunType, Runners, OnceInv, AskReady
<1>2. ExecuteJob("user", j, at) BY DEF FindsNoTask
<1>3. UNCHANGED <<tasks, clock, batch>> BY DEF FindsNoTask
<1>4. crossed \subseteq crossed' /\ (j \notin crossed' => j \notin crossed /\ j \notin ToSet(batch.jobs))
  BY DEF FindsNoTask, Crosses, WhileTimerRuns
<1>5. j \notin crossed' => Ready(j, at) /\ j \notin ToSet(batch'.jobs)
  BY <1>1, <1>3, <1>4 DEF OnceInv, AskReady
<1> HIDE DEF j, at
<1>6. BatchShape'
  <2>1. exec'["timer"] = exec["timer"] BY <1>2 DEF ExecuteJob, TypeOK, Runners
  <2> QED BY <1>3, <2>1 DEF OnceInv, BatchShape
<1>7. \A i \in ToSet(batch'.jobs) \ crossed' : Ready(i, batch'.at) BY <1>3, <1>4, WaitsReady
<1> QED BY <1>1, <1>2, <1>3, <1>4, <1>5, <1>6, <1>7, ExecuteKeeps

LEMMA CreatesKeeps ==
  ASSUME OnceInv, TypeOK, TypeOK', NEW w \in Runners, Creates(w)
  PROVE  OnceInv'
<1> DEFINE T == [job |-> exec[w].job, at |-> exec[w].at, occ |-> exec[w].occ, active |-> TRUE]
           n == Len(tasks)
<1>1. /\ exec[w].phase = "leased" /\ tasks' = Append(tasks, T)
      /\ exec' = [exec EXCEPT ![w].phase = "polling", ![w].task = Len(tasks')]
      /\ mem' = mem /\ disk' = mem /\ UNCHANGED <<clock, batch, busy, crossed>>
  BY DEF Creates, Persist, history
<1>2. T \in [job : Jobs, at : Nat, occ : Nat, active : BOOLEAN] /\ exec[w].job \in Jobs
  BY DEF TypeOK, RunType
<1>3. /\ RunOf(T) = RunOf(exec[w]) /\ T.job = exec[w].job /\ T.at = exec[w].at
      /\ T.occ = exec[w].occ
  BY DEF RunOf
<1> HIDE DEF T
<1>4. /\ n \in Nat /\ DOMAIN tasks = 1..n /\ DOMAIN tasks' = 1..n+1
      /\ tasks'[n + 1] = T /\ \A k \in 1..n : tasks'[k] = tasks[k]
  BY <1>1, <1>2 DEF TypeOK
<1> HIDE DEF n
<1>5. /\ exec'[w].phase = "polling" /\ RunOf(exec'[w]) = RunOf(exec[w])
      /\ exec'[w].job = exec[w].job /\ exec'[w].at = exec[w].at
      /\ \A v \in Runners : v # w => exec'[v] = exec[v]
  BY <1>1 DEF TypeOK, RunType, RunOf
<1>6. Leases' = Leases \ {w} /\ w \in Leases BY <1>1, <1>5 DEF Leases
<1>7. Uses' \subseteq Uses
  <2>1. \A k \in DOMAIN tasks' : RunOf(tasks'[k]) \in Uses
    BY <1>3, <1>4, <1>6 DEF Uses
  <2>2. \A v \in Leases' : RunOf(exec'[v]) \in Uses BY <1>5, <1>6 DEF Uses, Leases
  <2> QED BY <2>1, <2>2 DEF Uses
<1>8. \A v \in Runners, i \in Jobs :
        (Works(v, i)' <=> Works(v, i)) /\ (Runs(v, i)' <=> Runs(v, i)) /\ exec'[v].at = exec[v].at
  BY <1>1, <1>5 DEF Works, Runs
<1>9. \A u \in Uses : u.job \in Jobs BY UsesTyped
<1>10. UsesPast' /\ StoresAgree' BY <1>1, <1>7 DEF OnceInv, UsesPast, StoresAgree
<1>11. BatchShape'
  <2>1. exec'["timer"].phase = "idle" <=> exec["timer"].phase = "idle"
    BY <1>1, <1>5 DEF Runners
  <2> QED BY <1>1, <2>1 DEF OnceInv, BatchShape
<1>12. Exclusive' BY <1>1, <1>8 DEF OnceInv, Exclusive
<1>13. LeaseLatest' /\ BatchLatest' /\ OneTime'
  BY <1>1, <1>7 DEF OnceInv, LeaseLatest, BatchLatest, OneTime
<1>14. RunLatest' BY <1>1, <1>7, <1>8, <1>9 DEF OnceInv, RunLatest
<1>15. Behind'
  <2>1. \A u \in Uses : Spent(u.job) => Spent(u.job)' BY <1>1, <1>8, <1>9 DEF Spent
  <2>2. \A u \in Uses : Passed(u) => Passed(u)' BY <1>1 DEF Passed
  <2> QED BY <1>1, <1>7, <2>1, <2>2 DEF OnceInv, Behind, OnTime
<1>16. ASSUME NEW k \in DOMAIN tasks, tasks[k].job = T.job, tasks[k].occ = T.occ, T.occ # 0
       PROVE  T.job \in crossed \/ OnTime(RunOf(tasks[k])) \/ OnTime(RunOf(T))
  BY <1>3, <1>6, <1>16 DEF OnceInv, OnceMore
<1>17. OnceMore'
  <2> SUFFICES ASSUME NEW k \in DOMAIN tasks', NEW v \in Leases', exec'[v].job = tasks'[k].job,
                      exec'[v].occ = tasks'[k].occ, tasks'[k].occ # 0, tasks'[k].job \notin crossed
               PROVE  OnTime(RunOf(tasks'[k])) \/ OnTime(RunOf(exec'[v]))
    BY <1>1 DEF OnceMore, OnTime
  <2>1. v # w /\ v \in Runners /\ v \in Leases /\ exec'[v] = exec[v] BY <1>5, <1>6 DEF Leases
  <2>2. CASE k \in DOMAIN tasks BY <1>4, <2>1, <2>2 DEF OnceInv, OnceMore
  <2>3. CASE k = n + 1
    <3>1. Works(v, exec[w].job) /\ Works(w, exec[w].job)
      BY <1>1, <1>3, <1>4, <2>1, <2>3 DEF Works, Leases
    <3> QED BY <1>2, <1>3, <1>4, <2>1, <2>3, <3>1 DEF OnceInv, Exclusive
  <2> QED BY <1>4, <2>2, <2>3
<1>18. OncePerOccurrence'
  <2> SUFFICES ASSUME NEW k \in DOMAIN tasks', NEW l \in DOMAIN tasks', k # l,
                      tasks'[k].job = tasks'[l].job, tasks'[k].occ = tasks'[l].occ,
                      tasks'[k].occ # 0, tasks'[k].job \notin crossed
               PROVE  tasks'[k].job \in Intervals /\ \E t \in {k, l} : tasks'[t].at = tasks'[t].occ
    BY <1>1 DEF OncePerOccurrence
  <2>1. CASE k \in DOMAIN tasks /\ l \in DOMAIN tasks
    BY <1>4, <2>1 DEF OnceInv, OncePerOccurrence
  <2>2. CASE k = n + 1 /\ l \in DOMAIN tasks
    BY <1>4, <1>16, <2>2 DEF OnTime, RunOf
  <2>3. CASE l = n + 1 /\ k \in DOMAIN tasks
    BY <1>4, <1>16, <2>3 DEF OnTime, RunOf
  <2> QED BY <1>4, <2>1, <2>2, <2>3
<1>19. AskReady'
  <2>1. exec'["user"].phase = "asking" => exec'["user"] = exec["user"] BY <1>5 DEF Runners
  <2>2. clock \in Nat BY UsesTyped
  <2> QED BY <1>1, <1>7, <1>8, <2>1, <2>2, AskKept
<1> QED BY <1>10, <1>11, <1>12, <1>13, <1>14, <1>15, <1>17, <1>18, <1>19 DEF OnceInv

LEMMA FinishesKeeps ==
  ASSUME OnceInv, TypeOK, TypeOK', NEW w \in Runners, Finishes(w)
  PROVE  OnceInv'
<1> DEFINE j == exec[w].job
           at == exec[w].at
           r == mem.job[j]
           next == IF r.on THEN NextRun(j, at) ELSE 0
           q == [r EXCEPT !.lease = 0, !.next = next]
<1>1. exec[w] \in RunType /\ j \in Jobs /\ at \in Nat BY DEF TypeOK, RunType
<1>2. r \in JobType /\ clock \in Nat BY <1>1, UsesTyped
<1>3. q.lease = 0 /\ q.next = next /\ q.last = r.last BY <1>2 DEF JobType
<1>4. /\ Runs(w, j) /\ Works(w, j)
      /\ exec' = [exec EXCEPT ![w].phase = "delivering"]
      /\ disk' = mem' /\ UNCHANGED <<clock, batch, busy, tasks, crossed>>
      /\ j \in OneShots => mem' = [mem EXCEPT !.listed = @ \ {j}]
      /\ j \notin OneShots => mem' = With(mem, j, q)
  <2>1. /\ exec[w].phase \in {"leased", "polling"}
        /\ exec' = [exec EXCEPT ![w].phase = "delivering"]
        /\ IF j \in OneShots THEN Persist([mem EXCEPT !.listed = @ \ {j}])
           ELSE Persist(With(mem, j, q))
        /\ UNCHANGED <<clock, batch, busy, tasks, crossed>>
    BY DEF Finishes
  <2> HIDE DEF q
  <2> QED BY <2>1 DEF Persist, Runs, Works
<1>5. \A u \in Uses : u.job = j /\ j \notin crossed => next = 0 \/ next > u.occ \/ OnTime(u)
  <2>1. j \notin crossed => \A u \in Uses : u.job = j => u.at <= at
    BY <1>4 DEF OnceInv, RunLatest
  <2> QED BY <1>1, <2>1, NewTime
<1> HIDE DEF q, next
<1>6. /\ exec'[w].phase = "delivering" /\ exec'[w].job = j
      /\ \A v \in Runners : v # w => exec'[v] = exec[v]
  BY <1>1, <1>4 DEF TypeOK, RunType
<1>7. /\ \A i \in Jobs \ {j} : mem'.job[i] = mem.job[i] /\ (i \in mem'.listed <=> i \in mem.listed)
      /\ j \in OneShots => mem'.job[j] = r /\ j \notin mem'.listed
      /\ j \notin OneShots => mem'.job[j] = q
  <2>1. CASE j \in OneShots
    <3>1. mem' = [mem EXCEPT !.listed = @ \ {j}] BY <1>4, <2>1
    <3> QED BY <2>1, <3>1 DEF TypeOK, StoreType
  <2>2. CASE j \notin OneShots
    <3>1. mem' = With(mem, j, q) BY <1>4, <2>2
    <3> HIDE DEF j
    <3> QED BY <1>1, <2>2, <3>1 DEF With, TypeOK, StoreType
  <2> QED BY <2>1, <2>2
<1>8. Leases' \subseteq Leases /\ \A v \in Leases' : exec'[v] = exec[v] BY <1>6 DEF Leases
<1>9. Uses' \subseteq Uses BY <1>4, <1>8 DEF Uses
<1>10. \A v \in Runners, i \in Jobs :
         /\ Works(v, i)' <=> Works(v, i)
         /\ Runs(v, i)' => Runs(v, i) /\ exec'[v].at = exec[v].at
         /\ i # j => (Runs(v, i)' <=> Runs(v, i))
  BY <1>4, <1>6 DEF Works, Runs
<1>11. \A u \in Uses : u.job \in Jobs BY UsesTyped
<1> HIDE DEF j, r, at
<1>12. UsesPast' /\ StoresAgree' BY <1>4, <1>9 DEF OnceInv, UsesPast, StoresAgree
<1>13. BatchShape'
  <2>1. exec'["timer"].phase = "idle" <=> exec["timer"].phase = "idle"
    BY <1>4, <1>6 DEF Runners, Works
  <2> QED BY <1>4, <2>1 DEF OnceInv, BatchShape
<1>14. Exclusive' BY <1>4, <1>10 DEF OnceInv, Exclusive
<1>15. LeaseLatest'
  <2> SUFFICES ASSUME NEW u \in Uses, u.job \notin crossed, mem'.job[u.job].lease # 0
               PROVE  u.at <= mem'.job[u.job].lease
    BY <1>4, <1>9 DEF LeaseLatest
  <2>1. mem'.job[u.job] = mem.job[u.job] BY <1>3, <1>7, <1>11 DEF r
  <2> QED BY <2>1 DEF OnceInv, LeaseLatest
<1>16. RunLatest' BY <1>4, <1>9, <1>10, <1>11 DEF OnceInv, RunLatest
<1>17. BatchLatest' BY <1>4, <1>9 DEF OnceInv, BatchLatest
<1>18. OneTime' BY <1>7, CronAssumption DEF OnceInv, OneTime, r
<1>19. Behind'
  <2> SUFFICES ASSUME NEW u \in Uses, u.occ # 0, u.job \notin crossed
               PROVE  Passed(u)' \/ OnTime(u) \/ Spent(u.job)'
    BY <1>4, <1>9 DEF Behind, OnTime
  <2>1. Passed(u) \/ OnTime(u) \/ Spent(u.job) BY DEF OnceInv, Behind
  <2>2. CASE u.job = j /\ j \notin OneShots BY <1>3, <1>5, <1>7, <2>2 DEF Passed
  <2>3. CASE u.job = j /\ j \in OneShots BY <1>4, <1>7, <2>1, <2>3 DEF Passed, Spent, r
  <2>4. CASE u.job # j BY <1>4, <1>7, <1>10, <1>11, <2>1, <2>4 DEF Passed, Spent
  <2> QED BY <2>2, <2>3, <2>4
<1>20. OnceMore' /\ OncePerOccurrence'
  BY <1>4, <1>8 DEF OnceInv, OnceMore, OncePerOccurrence, OnTime
<1>21. AskReady'
  <2>1. exec'["user"].phase = "asking" => exec'["user"] = exec["user"] BY <1>6 DEF Runners
  <2>2. \A i \in Jobs : (\A v \in Runners : ~ Works(v, i)) => mem'.job[i].next = mem.job[i].next
    BY <1>4, <1>7
  <2> QED BY <1>2, <1>4, <1>9, <1>10, <2>1, <2>2, AskKept
<1> QED BY <1>12, <1>13, <1>14, <1>15, <1>16, <1>17, <1>18, <1>19, <1>20, <1>21 DEF OnceInv

LEMMA DeliversKeeps ==
  ASSUME OnceInv, TypeOK, TypeOK', NEW w \in Runners, Delivers(w)
  PROVE  OnceInv'
<1>1. exec[w].phase = "delivering" /\ exec' = [exec EXCEPT ![w] = NoRun]
  BY DEF Delivers
<1>2. /\ exec'[w].phase = "idle" /\ \A v \in Runners : v # w => exec'[v] = exec[v]
  BY <1>1 DEF TypeOK, NoRun
<1>3. /\ busy' = busy \ {exec[w].job} /\ UNCHANGED <<clock, batch, tasks, crossed>>
  BY DEF Delivers
<1>4. mem'.job = mem.job /\ mem'.listed = mem.listed /\ disk'.job = mem'.job
  <2> DEFINE es == mem.outbox \cup {e \in {[key |-> Key(w), tries |-> 0, state |-> "queued"]} :
                     ~ \E f \in mem.outbox : f.key = e.key /\ f.state \in {"queued", "sent"}}
  <2>1. CASE UNCHANGED <<mem, disk>> BY <2>1 DEF OnceInv, StoresAgree
  <2>2. CASE Persist(mem) BY <2>2 DEF Persist
  <2>3. CASE Persist([mem EXCEPT !.outbox = es])
    <3> HIDE DEF es
    <3> QED BY <2>3 DEF Persist, TypeOK, StoreType
  <2> QED BY <2>1, <2>2, <2>3 DEF Delivers
<1>5. Leases' = Leases /\ \A v \in Leases : exec'[v] = exec[v] BY <1>1, <1>2 DEF Leases
<1>6. Uses' = Uses BY <1>3, <1>5 DEF Uses
<1>7. \A v \in Runners, i \in Jobs :
        /\ Works(v, i)' <=> Works(v, i) /\ v # w
        /\ Runs(v, i)' <=> Runs(v, i)
        /\ Runs(v, i) => exec'[v].at = exec[v].at
  BY <1>1, <1>2 DEF Works, Runs
<1>8. \A u \in Uses : u.job \in Jobs BY UsesTyped
<1>9. UsesPast' /\ StoresAgree' BY <1>3, <1>4, <1>6 DEF OnceInv, UsesPast, StoresAgree
<1>10. BatchShape' BY <1>2, <1>3 DEF OnceInv, BatchShape, Runners
<1>11. Exclusive'
  <2> SUFFICES ASSUME NEW v \in Runners, NEW i \in Jobs \ crossed, Works(v, i), v # w
               PROVE  /\ i \in busy' /\ i \notin ToSet(batch.jobs)
                      /\ \A z \in Runners : z # v => ~ Works(z, i)
    BY <1>3, <1>7 DEF Exclusive
  <2>1. /\ i \in busy /\ i \notin ToSet(batch.jobs)
        /\ \A z \in Runners : z # v => ~ Works(z, i)
    BY DEF OnceInv, Exclusive
  <2>2. exec[w].job # i BY <1>1, <2>1 DEF Works
  <2> QED BY <1>3, <2>1, <2>2
<1>12. LeaseLatest' /\ BatchLatest' /\ OneTime'
  BY <1>3, <1>4, <1>6 DEF OnceInv, LeaseLatest, BatchLatest, OneTime
<1>13. RunLatest' BY <1>3, <1>6, <1>7, <1>8 DEF OnceInv, RunLatest
<1>14. Behind'
  <2>1. \A u \in Uses : Spent(u.job) => Spent(u.job)' BY <1>3, <1>4, <1>7, <1>8 DEF Spent
  <2>2. \A u \in Uses : Passed(u) => Passed(u)' BY <1>4 DEF Passed
  <2> QED BY <1>3, <1>6, <2>1, <2>2 DEF OnceInv, Behind, OnTime
<1>15. OnceMore' /\ OncePerOccurrence'
  BY <1>3, <1>5 DEF OnceInv, OnceMore, OncePerOccurrence, OnTime
<1>16. AskReady'
  <2>1. exec'["user"].phase = "asking" => exec'["user"] = exec["user"] BY <1>2 DEF Runners
  <2>2. clock \in Nat BY UsesTyped
  <2> QED BY <1>3, <1>4, <1>6, <1>7, <2>1, <2>2, AskKept
<1> QED BY <1>9, <1>10, <1>11, <1>12, <1>13, <1>14, <1>15, <1>16 DEF OnceInv

(* What start() makes of a job is over every run there has been: a one-shot *)
(* that has run has no time any more.                                       *)
LEMMA ReconciledBehind ==
  ASSUME OnceInv, TypeOK, NEW j \in Jobs, NEW lapsed, NEW found
  PROVE  LET q == Reconciled(mem.job[j], j, lapsed, found)
         IN  /\ j \in OneShots => q.next \in {0, At}
             /\ \A u \in Uses : u.job = j /\ j \notin crossed =>
                  /\ q.lease # 0 => u.at <= q.lease
                  /\ u.occ # 0 => q.next = 0 \/ q.next > u.occ \/ OnTime(u)
<1> DEFINE r == mem.job[j]
           lease == IF r.lease = 0 THEN clock ELSE r.lease
           q == Reconciled(r, j, lapsed, found)
<1>1. clock \in Nat /\ r \in JobType /\ lease \in Nat BY UsesTyped DEF JobType
<1>2. \A x \in Nat : NextRun(j, x) \in Nat /\ (j \in OneShots => NextRun(j, x) \in {0, At})
  BY NextRunType, NextRunAfter
<1>3. r.next \in Nat /\ r.last \in Nat /\ (j \in OneShots => r.next \in {0, At})
  BY <1>1 DEF JobType, OnceInv, OneTime
<1>4. \A u \in Uses : u.job = j /\ j \notin crossed =>
        /\ u.at <= lease /\ (r.lease # 0 => u.at <= r.lease)
        /\ u.at <= clock /\ u.occ <= clock /\ u.occ \in Nat
        /\ u.occ # 0 => Passed(u) \/ OnTime(u) \/ Spent(j)
  BY LeaseOrNow, AtMostNow, UsesTyped DEF OnceInv, LeaseLatest, Behind
<1>5. \A u \in Uses : u.job = j /\ j \notin crossed =>
        /\ NextRun(j, lease) = 0 \/ NextRun(j, lease) > u.occ \/ OnTime(u)
        /\ NextRun(j, clock) = 0 \/ NextRun(j, clock) > u.occ \/ OnTime(u)
  BY <1>1, <1>4, NewTime
<1>6. CASE ~ r.on
  <2>1. q.next = 0 /\ q.lease = 0 BY <1>1, <1>6 DEF Reconciled, JobType
  <2> QED BY <2>1
<1>7. CASE r.on /\ j \in found
  <2>1. q.lease = lease /\ q.next = IF r.next <= clock THEN NextRun(j, lease) ELSE r.next
    BY <1>1, <1>7 DEF Reconciled, JobType
  <2> HIDE DEF q, r, lease
  <2> QED BY <1>1, <1>2, <1>3, <1>4, <1>5, <2>1 DEF q, r
<1>8. CASE r.on /\ j \notin found
  <2>1. /\ q.lease \in {0, r.lease}
        /\ q.next = IF r.next = 0 THEN NextRun(j, clock)
                    ELSE IF r.next <= clock /\ r.last >= r.next THEN NextRun(j, r.next) ELSE r.next
    BY <1>1, <1>8 DEF Reconciled, JobType
  <2> HIDE DEF q
  <2>2. j \in OneShots => q.next \in {0, At} BY <1>1, <1>2, <1>3, <2>1
  <2>3. ASSUME NEW u \in Uses, u.job = j, j \notin crossed, u.occ # 0
        PROVE  q.next = 0 \/ q.next > u.occ \/ OnTime(u)
    <3>1. CASE r.next = 0 BY <1>5, <2>1, <2>3, <3>1
    <3>2. CASE r.next # 0 /\ ~ (r.next <= clock /\ r.last >= r.next)
      <4>1. q.next = r.next BY <2>1, <3>2
      <4>2. CASE ~ (r.next <= clock) BY <1>1, <1>3, <1>4, <2>3, <4>1, <4>2
      <4>3. CASE ~ (r.last >= r.next)
        <5>1. ~ Spent(j) BY <4>3 DEF Spent
        <5> QED BY <1>4, <2>3, <4>1, <5>1 DEF Passed
      <4> QED BY <3>2, <4>2, <4>3
    <3>3. CASE r.next # 0 /\ r.next <= clock /\ r.last >= r.next
      <4>1. q.next = NextRun(j, r.next) /\ r.next \in Nat BY <1>3, <2>1, <3>3
      <4>2. CASE Spent(j)
        <5>1. j \in OneShots /\ r.next = At BY <1>3, <3>3, <4>2 DEF Spent
        <5> QED BY <4>1, <5>1, CronAssumption DEF NextRun
      <4>3. CASE Passed(u)
        <5>1. r.next > u.occ BY <2>3, <3>3, <4>3 DEF Passed
        <5>2. q.next = 0 \/ q.next >= r.next BY <1>2, <4>1, NextRunAfter
        <5>3. q.next \in Nat /\ u.occ \in Nat BY <1>2, <1>4, <2>3, <4>1
        <5> QED BY <4>1, <5>1, <5>2, <5>3
      <4> QED BY <1>4, <2>3, <4>2, <4>3
    <3> QED BY <3>1, <3>2, <3>3
  <2>4. \A u \in Uses : u.job = j /\ j \notin crossed => (q.lease # 0 => u.at <= q.lease)
    BY <1>4, <2>1
  <2> QED BY <2>2, <2>3, <2>4 DEF q
<1> QED BY <1>6, <1>7, <1>8

LEMMA RestartKeeps ==
  ASSUME OnceInv, TypeOK, TypeOK', NEW lapsed \in SUBSET Jobs, NEW found \in SUBSET Jobs,
         Restart(lapsed, found)
  PROVE  OnceInv'
<1> DEFINE job == [j \in Jobs |-> IF j \in disk.listed THEN Reconciled(disk.job[j], j, lapsed, found)
                                  ELSE disk.job[j]]
<1>1. /\ mem' = [disk EXCEPT !.job = job] /\ disk' = mem' /\ batch' = NoBatch
      /\ exec' = [w \in Runners |-> NoRun] /\ UNCHANGED <<clock, tasks, crossed>>
  BY DEF Restart, Persist
<1>2. disk.job = mem.job BY DEF OnceInv, StoresAgree
<1>3. \A j \in Jobs : /\ j \in disk.listed => job[j] = Reconciled(mem.job[j], j, lapsed, found)
                      /\ j \notin disk.listed => job[j] = mem.job[j]
  BY <1>2
<1> HIDE DEF job
<1>4. mem'.job = job /\ mem'.listed = disk.listed BY <1>1 DEF TypeOK, StoreType
<1>5. \A w \in Runners : exec'[w].phase = "idle" BY <1>1 DEF NoRun
<1>6. batch'.jobs = <<>> /\ batch'.at = 0 /\ ToSet(batch'.jobs) = {} /\ IsInjective(batch'.jobs)
  BY <1>1 DEF NoBatch, ToSet, IsInjective
<1>7. Leases' = {} /\ Uses' \subseteq Uses
  <2>1. Leases' = {} BY <1>5 DEF Leases
  <2> QED BY <1>1, <2>1 DEF Uses
<1>8. \A w \in Runners, j \in Jobs : ~ Works(w, j)' /\ ~ Runs(w, j)' BY <1>5 DEF Works, Runs
<1>9. clock \in Nat /\ \A u \in Uses : u.job \in Jobs BY UsesTyped
<1>10. UsesPast' /\ StoresAgree' BY <1>1, <1>7 DEF OnceInv, UsesPast, StoresAgree
<1>11. BatchShape' BY <1>1, <1>5, <1>6, <1>9 DEF BatchShape, Runners
<1>12. Exclusive' /\ RunLatest' /\ BatchLatest'
  BY <1>6, <1>7, <1>8, <1>9 DEF Exclusive, RunLatest, BatchLatest
<1>13. OneTime'
  <2> SUFFICES ASSUME NEW j \in OneShots PROVE job[j].next \in {0, At}
    BY <1>4 DEF OneTime
  <2> QED BY <1>3, ReconciledBehind, CronAssumption DEF OnceInv, OneTime
<1>14. LeaseLatest'
  <2> SUFFICES ASSUME NEW u \in Uses, u.job \notin crossed, job[u.job].lease # 0
               PROVE  u.at <= job[u.job].lease
    BY <1>1, <1>4, <1>7 DEF LeaseLatest
  <2>1. CASE u.job \in disk.listed
    <3>1. u.job \in Jobs /\ job[u.job] = Reconciled(mem.job[u.job], u.job, lapsed, found)
      BY <1>3, <1>9, <2>1
    <3> QED BY <3>1, ReconciledBehind
  <2>2. CASE u.job \notin disk.listed BY <1>3, <1>9, <2>2 DEF OnceInv, LeaseLatest
  <2> QED BY <2>1, <2>2
<1>15. Behind'
  <2> SUFFICES ASSUME NEW u \in Uses, u.occ # 0, u.job \notin crossed
               PROVE  Passed(u)' \/ OnTime(u) \/ Spent(u.job)'
    BY <1>1, <1>7 DEF Behind, OnTime
  <2>1. CASE u.job \in disk.listed
    <3>1. job[u.job].next = 0 \/ job[u.job].next > u.occ \/ OnTime(u)
      BY <1>3, <1>9, <2>1, ReconciledBehind
    <3> QED BY <1>4, <3>1 DEF Passed
  <2>2. CASE u.job \notin disk.listed
    <3>1. job[u.job] = mem.job[u.job] BY <1>3, <1>9, <2>2
    <3>2. Passed(u) \/ OnTime(u) \/ Spent(u.job) BY DEF OnceInv, Behind
    <3> QED BY <1>4, <1>6, <2>2, <3>1, <3>2 DEF Passed, Spent
  <2> QED BY <2>1, <2>2
<1>16. OnceMore' /\ OncePerOccurrence'
  BY <1>1, <1>7 DEF OnceInv, OnceMore, OncePerOccurrence
<1>17. AskReady' BY <1>5 DEF AskReady, Runners
<1> QED BY <1>10, <1>11, <1>12, <1>13, <1>14, <1>15, <1>16, <1>17 DEF OnceInv

LEMMA InitOnce == Init => OnceInv
<1> SUFFICES ASSUME Init PROVE OnceInv OBVIOUS
<1>1. TypeOK BY InitType
<1>2. /\ exec = [w \in Runners |-> NoRun] /\ tasks = <<>> /\ batch = NoBatch /\ clock = 1
      /\ disk = mem
  BY DEF Init
<1>3. \A w \in Runners : exec[w].phase = "idle" BY <1>2 DEF NoRun
<1>4. DOMAIN tasks = {} BY <1>2
<1>5. Uses = {} /\ Leases = {} BY <1>3, <1>4 DEF Uses, Leases
<1>6. batch.jobs = <<>> /\ batch.at = 0 BY <1>2 DEF NoBatch
<1>7. BatchShape BY <1>2, <1>3, <1>6 DEF BatchShape, IsInjective, Runners
<1>8. Exclusive BY <1>3 DEF Exclusive, Works
<1>9. OneTime
  <2> SUFFICES ASSUME NEW j \in OneShots PROVE mem.job[j].next \in {0, At} BY DEF OneTime
  <2>1. j \in Jobs BY CronAssumption
  <2>2. NextRun(j, 1) \in {0, At} BY <2>1, NextRunAfter
  <2>3. mem.job[j] = IF j \in Stored THEN [NewJob EXCEPT !.next = NextRun(j, 1)] ELSE NewJob
    BY <2>1 DEF Init
  <2> QED BY <2>2, <2>3 DEF NewJob
<1>10. AskReady BY <1>3 DEF AskReady, Runners
<1> QED
  BY <1>2, <1>4, <1>5, <1>7, <1>8, <1>9, <1>10
     DEF OnceInv, UsesPast, StoresAgree, LeaseLatest, RunLatest, BatchLatest, Behind, OnceMore,
         OncePerOccurrence

LEMMA NextOnce == OnceInv /\ TypeOK /\ TypeOK' /\ [Next]_vars => OnceInv'
<1> SUFFICES ASSUME OnceInv, TypeOK, TypeOK', [Next]_vars PROVE OnceInv' OBVIOUS
<1>c. clock \in Nat /\ mem \in StoreType /\ disk.job = mem.job
  BY UsesTyped DEF TypeOK, OnceInv, StoresAgree
<1>1. CASE Tick \/ UNCHANGED vars
  <2>1. UNCHANGED <<mem, disk, batch, exec, busy, tasks, crossed>> /\ clock <= clock'
    BY <1>1, <1>c DEF Tick, vars, history
  <2> QED BY <1>c, <2>1, SameJobs
<1>2. ASSUME NEW k \in DOMAIN tasks, TaskEnds(k) PROVE OnceInv'
  <2>1. tasks' = [tasks EXCEPT ![k].active = FALSE]
        /\ UNCHANGED <<clock, mem, disk, batch, exec, busy, crossed>>
    BY <1>2 DEF TaskEnds, history
  <2> DEFINE T == [job : Jobs, at : Nat, occ : Nat, active : BOOLEAN]
  <2>2. \A l \in DOMAIN tasks : tasks[l] \in T
    <3>1. tasks \in Seq(T) BY DEF TypeOK
    <3> HIDE DEF T
    <3> QED BY <3>1
  <2>3. DOMAIN tasks' = DOMAIN tasks /\ \A l \in DOMAIN tasks : RunOf(tasks'[l]) = RunOf(tasks[l])
    BY <2>1, <2>2 DEF RunOf
  <2>4. /\ clock <= clock' /\ mem'.job = mem.job /\ disk'.job = mem.job
        /\ mem'.listed \subseteq mem.listed
    BY <1>c, <2>1
  <2> QED BY <2>1, <2>3, <2>4, SameJobs
<1>3. ASSUME NEW w \in Runners, Creates(w) PROVE OnceInv' BY <1>3, CreatesKeeps
<1>4. ASSUME NEW w \in Runners, Finishes(w) PROVE OnceInv' BY <1>4, FinishesKeeps
<1>5. ASSUME NEW w \in Runners, Delivers(w) PROVE OnceInv' BY <1>5, DeliversKeeps
<1>6. ASSUME NEW js \in Batches, TimerFires(js) PROVE OnceInv' BY <1>6, TimerFiresKeeps
<1>7. CASE TimerGoesOn BY <1>7, TimerGoesOnKeeps
<1>8. ASSUME NEW j \in Jobs, AddJob(j) PROVE OnceInv' BY <1>8, AddKeeps
<1>9. ASSUME NEW j \in Jobs, Toggle(j) PROVE OnceInv' BY <1>9, ToggleKeeps
<1>10. ASSUME NEW j \in Jobs, RemoveJob(j) PROVE OnceInv'
  <2>1. mem' = [mem EXCEPT !.listed = @ \ {j}] /\ disk' = mem'
        /\ UNCHANGED <<clock, batch, exec, busy, tasks, crossed>>
    BY <1>10 DEF RemoveJob, Persist, EditOnly
  <2>2. mem'.job = mem.job /\ mem'.listed \subseteq mem.listed BY <1>c, <2>1 DEF StoreType
  <2> QED BY <1>c, <2>1, <2>2, SameJobs
<1>11. ASSUME NEW j \in Jobs, NEW mode \in {"due", "force"}, Run(j, mode) PROVE OnceInv'
  BY <1>11, RunKeeps
<1>17. CASE FindsTask BY <1>17, FindsTaskKeeps
<1>18. CASE FindsNoTask BY <1>18, FindsNoTaskKeeps
<1>12. ASSUME NEW es \in SUBSET mem.outbox, OutboxBegins(es) PROVE OnceInv'
  <2>1. UNCHANGED <<clock, mem, disk, batch, exec, busy, tasks, crossed>>
    BY <1>12 DEF OutboxBegins, history
  <2> QED BY <1>c, <2>1, SameJobs
<1>13. ASSUME NEW e \in sending.left, NEW ok \in BOOLEAN, OutboxTries(e, ok) PROVE OnceInv'
  <2>1. UNCHANGED <<clock, disk, batch, exec, busy, tasks, crossed>> BY <1>13 DEF OutboxTries
  <2>2. \E o : mem' = [mem EXCEPT !.outbox = o] BY <1>13 DEF OutboxTries, Replace
  <2>3. mem'.job = mem.job /\ mem'.listed = mem.listed BY <1>c, <2>2 DEF StoreType
  <2> QED BY <1>c, <2>1, <2>3, SameJobs
<1>14. CASE OutboxEnds
  <2>1. UNCHANGED <<clock, mem, batch, exec, busy, tasks, crossed>> /\ disk' = mem
    BY <1>14 DEF OutboxEnds, history
  <2> QED BY <1>c, <2>1, SameJobs
<1>15. CASE Stop
  <2>1. mem' = [mem EXCEPT !.listed = {}, !.outbox = {}]
        /\ UNCHANGED <<clock, disk, batch, exec, busy, tasks, crossed>>
    BY <1>15 DEF Stop, history
  <2>2. mem'.job = mem.job /\ mem'.listed = {} BY <1>c, <2>1 DEF StoreType
  <2> QED BY <1>c, <2>1, <2>2, SameJobs
<1>16. ASSUME NEW lapsed \in SUBSET Jobs, NEW found \in SUBSET Jobs,
         Restart(lapsed, found) PROVE OnceInv' BY <1>16, RestartKeeps
<1> QED
  BY <1>1, <1>2, <1>3, <1>4, <1>5, <1>6, <1>7, <1>8, <1>9, <1>10, <1>11, <1>12, <1>13,
     <1>14, <1>15, <1>16, <1>17, <1>18 DEF Next

(* Two tasks are never created for one scheduled time of a job, however the *)
(* process stops, dies and starts again, whatever the schedules and however *)
(* the timer and the user run the jobs, but for the two exceptions the      *)
(* property names.                                                          *)
THEOREM OncePerOccurrenceAlways == Spec => []OncePerOccurrence
<1>1. IInv => TypeOK BY DEF IInv
<1>2. OnceInv => OncePerOccurrence BY DEF OnceInv
<1> QED BY Inductive, InitOnce, NextOnce, <1>1, <1>2, PTL DEF Spec
=============================================================================
