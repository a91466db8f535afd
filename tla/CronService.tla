---------------------------- MODULE CronService ----------------------------
(***************************************************************************)
(* The cron service: the store of the scheduled jobs in memory and on      *)
(* disk, the timer that runs what is due, the runs a user asks for, the    *)
(* outbox of the results that could not be delivered, and what start()     *)
(* makes of a store that an earlier process left behind.                   *)
(*                                                                         *)
(* The timer runs its jobs one after the other and takes no lock; every    *)
(* other operation runs under the lock, a forced run until it is over. A   *)
(* step is the code between two awaits. Run statistics, the run history,   *)
(* prompts and workspaces are left out; a workflow or a follow-up to a     *)
(* thread is a run that leaves no task of its own to wait for.             *)
(***************************************************************************)
EXTENDS Naturals, Sequences, FiniteSets, SequencesExt

CONSTANTS
  Jobs,
  Stored,         \* jobs that are in the store at first
  OneShots,       \* jobs with deleteAfterRun, at a fixed time
  At,             \* that time
  Channeled,      \* jobs whose results are delivered to a channel
  Every,          \* the period of the others
  Intervals,      \* jobs of kind "every" with an anchor; the rest are of kind "cron"
  MaxConcurrent,  \* maxConcurrentRuns
  MaxAttempts,    \* maxAttempts of an outbox entry
  Horizon,        \* bound of the model: the clock stops there
  MaxFaults,      \* bound of the model: operations of the user, stops and crashes
  MaxTasks        \* bound of the model: tasks that runs create

ASSUME CronAssumption ==
  /\ Jobs # {}
  /\ Stored \subseteq Jobs /\ OneShots \subseteq Jobs /\ Channeled \subseteq Jobs
  /\ At \in Nat \ {0} /\ Every \in Nat \ {0}
  /\ Intervals \subseteq Jobs \ OneShots
  /\ MaxConcurrent \in Nat \ {0} /\ MaxAttempts \in Nat \ {0}
  /\ Horizon \in Nat \ {0} /\ Horizon % Every # 0 /\ MaxFaults \in Nat /\ MaxTasks \in Nat

VARIABLES
  clock,       \* nowMs(); 0 stands for an undefined time elsewhere
  mem,         \* state.store
  disk,        \* jobs.json
  up,          \* FALSE from stop() until the next start()
  batch,       \* the jobs onTimer() still has to run, and the nowMs it read
  exec,        \* the run of the timer and the run of the user
  busy,        \* runningJobIds
  sending,     \* whether processOutboxQueue() is at work, and on what
  tasks,       \* the tasks that runs have created
  (* History and bound. *)
  crossed,     \* jobs run by the user while the timer ran or was to run them
  sent,        \* deliveries that succeeded
  resent,      \* those that succeeded more than once
  exposed,     \* those sent from the outbox and not saved when the process died
  faults

history == <<crossed, sent, resent, exposed>>
vars == <<clock, mem, disk, up, batch, exec, busy, sending, tasks, history, faults>>

Runners == {"timer", "user"}
Times == 0..(2 * (Horizon + Every + At))
Idle == [on |-> FALSE, left |-> {}]

NewJob == [on |-> TRUE, next |-> 0, lease |-> 0, last |-> 0]
NoRun == [phase |-> "idle", job |-> CHOOSE j \in Jobs : TRUE, at |-> 0, occ |-> 0, task |-> 0]
NoBatch == [jobs |-> <<>>, at |-> 0]

Fault == faults < MaxFaults /\ faults' = faults + 1
Unlocked == exec["user"].phase = "idle" /\ sending = Idle

-----------------------------------------------------------------------------
(* Schedules.                                                               *)

(* The first point of the grid that is not before now (kind "every"), or    *)
(* that is after now (kind "cron"); a fixed time only while it lies ahead.  *)
NextRun(j, now) ==
  IF j \in OneShots THEN IF At > now THEN At ELSE 0
  ELSE IF j \in Intervals THEN Every * (IF now <= Every THEN 1 ELSE (now + Every - 1) \div Every)
  ELSE Every * (now \div Every + 1)

Due(s, j) ==
  j \in s.listed /\ s.job[j].on /\ s.job[j].next # 0 /\ s.job[j].next <= clock

(* findActivePersistedRun() may find a task that is at work. It misses one  *)
(* that is pending, and one that is neither the last of the job nor among   *)
(* the latest fifty of the workspace.                                       *)
ActiveTask(j) == \E k \in DOMAIN tasks : tasks[k].job = j /\ tasks[k].active

(* A run writes to the job it was given, even if the store has dropped it. *)
With(s, j, r) == [s EXCEPT !.job[j] = r]

(* persist() writes what state.store refers to at that moment. *)
Persist(s) == mem' = s /\ disk' = s

Init ==
  /\ clock = 1
  /\ mem = [listed |-> Stored, outbox |-> {},
             job |-> [j \in Jobs |-> IF j \in Stored THEN [NewJob EXCEPT !.next = NextRun(j, 1)]
                                     ELSE NewJob]]
  /\ disk = mem /\ up = TRUE
  /\ batch = NoBatch /\ exec = [w \in Runners |-> NoRun] /\ busy = {}
  /\ sending = Idle /\ tasks = <<>>
  /\ crossed = {} /\ sent = {} /\ resent = {} /\ exposed = {} /\ faults = 0

Tick ==
  /\ clock < Horizon
  /\ clock' = clock + 1
  /\ UNCHANGED <<mem, disk, up, batch, exec, busy, sending, tasks, history, faults>>

TaskEnds(k) ==
  /\ tasks[k].active
  /\ tasks' = [tasks EXCEPT ![k].active = FALSE]
  /\ UNCHANGED <<clock, mem, disk, up, batch, exec, busy, sending, history, faults>>

-----------------------------------------------------------------------------
(* executeJob()                                                             *)

(* Mutant: the run is written down when it is over, and not before. *)
LeasedLate(j, at) == With(mem, j, [mem.job[j] EXCEPT !.lease = at])

(* The lease, saved before anything else; a one-shot keeps its time, and   *)
(* start() knows from lastRunAtMs that it has been run.                     *)
Leased(j, at) ==
  LET r == mem.job[j]
  IN  With(mem, j, [r EXCEPT !.lease = at, !.last = at,
                             !.next = IF j \in OneShots THEN @
                                      ELSE IF r.on THEN NextRun(j, at) ELSE 0])

ExecuteJob(w, j, at) ==
  LET next == mem.job[j].next
  IN  /\ exec' = [exec EXCEPT ![w] = [phase |-> "leased", job |-> j, at |-> at, task |-> 0,
                                      occ |-> IF next <= at THEN next ELSE 0]]
      /\ busy' = busy \cup {j}
      /\ Persist(Leased(j, at))

(* createTask(); the id is saved. *)
Creates(w) ==
  /\ exec[w].phase = "leased" /\ Len(tasks) < MaxTasks
  /\ tasks' = Append(tasks, [job |-> exec[w].job, at |-> exec[w].at, occ |-> exec[w].occ, active |-> TRUE])
  /\ exec' = [exec EXCEPT ![w].phase = "polling", ![w].task = Len(tasks')]
  /\ Persist(mem)
  /\ UNCHANGED <<clock, up, batch, busy, sending, history, faults>>

(* The run is over: there was no task to wait for, the task has ended, it   *)
(* is paused, blocked or interrupted, or the deadline has passed. A run is  *)
(* over later than it started, which tells for a start on the grid.         *)
Finishes(w) ==
  LET j == exec[w].job
      r == mem.job[j]
      next == IF r.on THEN NextRun(j, exec[w].at) ELSE 0
  IN  /\ exec[w].phase \in {"leased", "polling"}
      /\ j \in Intervals /\ exec[w].at % Every = 0 => clock > exec[w].at
      /\ exec' = [exec EXCEPT ![w].phase = "delivering"]
      /\ IF j \in OneShots
           THEN Persist([mem EXCEPT !.listed = @ \ {j}])
           ELSE Persist(With(mem, j, [r EXCEPT !.lease = 0, !.next = next]))
      /\ UNCHANGED <<clock, up, batch, busy, sending, tasks, crossed, sent, resent, exposed, faults>>

Key(w) == <<exec[w].job, exec[w].at, exec[w].task>>

(* The history is of the results of tasks. *)
Sends(k) ==
  /\ sent' = IF k[3] = 0 THEN sent ELSE sent \cup {k}
  /\ resent' = IF k \in sent THEN resent \cup {k} ELSE resent

(* Mutant: a job with nothing to deliver stays marked as running. *)
DeliversBusy(w) ==
  /\ exec[w].phase = "delivering"
  /\ exec' = [exec EXCEPT ![w] = NoRun]
  /\ \/ UNCHANGED <<mem, disk, sent, resent, busy>>
     \/ exec[w].job \in Channeled /\ Persist(mem) /\ Sends(Key(w)) /\ busy' = busy \ {exec[w].job}
     \/ /\ exec[w].job \in Channeled
        /\ Persist([mem EXCEPT !.outbox = @ \cup
             {e \in {[key |-> Key(w), tries |-> 0, state |-> "queued"]} :
                ~ \E f \in mem.outbox : f.key = e.key /\ f.state \in {"queued", "sent"}}])
        /\ UNCHANGED <<sent, resent>> /\ busy' = busy \ {exec[w].job}
  /\ UNCHANGED <<clock, up, batch, sending, tasks, crossed, exposed, faults>>

(* deliverToChannel(): nothing to deliver, delivered, or put in the outbox. *)
Delivers(w) ==
  /\ exec[w].phase = "delivering"
  /\ exec' = [exec EXCEPT ![w] = NoRun]
  /\ busy' = busy \ {exec[w].job}
  /\ \/ UNCHANGED <<mem, disk, sent, resent>>
     \/ exec[w].job \in Channeled /\ Persist(mem) /\ Sends(Key(w))
     \/ /\ exec[w].job \in Channeled
        /\ Persist([mem EXCEPT !.outbox = @ \cup
             {e \in {[key |-> Key(w), tries |-> 0, state |-> "queued"]} :
                ~ \E f \in mem.outbox : f.key = e.key /\ f.state \in {"queued", "sent"}}])
        /\ UNCHANGED <<sent, resent>>
  /\ UNCHANGED <<clock, up, batch, sending, tasks, crossed, exposed, faults>>

-----------------------------------------------------------------------------
(* onTimer(): the due jobs are chosen at once and run one after the other.  *)

Running == batch # NoBatch

Chosen(js) ==
  LET due == {j \in Jobs : Due(mem, j) /\ j \notin busy}
      slots == MaxConcurrent - Cardinality(busy)
  IN  /\ Cardinality(busy) < MaxConcurrent
      /\ js # <<>> /\ ToSet(js) \subseteq due
      /\ Len(js) = IF Cardinality(due) <= slots THEN Cardinality(due) ELSE slots
      /\ \A i \in DOMAIN js :
           /\ \A j \in due \ ToSet(js) : mem.job[js[i]].next <= mem.job[j].next
           /\ \A k \in DOMAIN js : i < k => mem.job[js[i]].next <= mem.job[js[k]].next

TimerStarts(j, at) ==
  /\ ExecuteJob("timer", j, at)
  /\ crossed' = IF exec["user"].phase # "idle" /\ exec["user"].job = j
                  THEN crossed \cup {j} ELSE crossed
  /\ UNCHANGED <<clock, up, sending, tasks, sent, resent, exposed, faults>>

TimerFires(js) ==
  /\ up /\ ~Running /\ Chosen(js)
  /\ batch' = [jobs |-> Tail(js), at |-> clock]
  /\ TimerStarts(Head(js), clock)

(* The next job of the batch, whatever has become of it, or the end. *)
TimerGoesOn ==
  /\ Running /\ exec["timer"].phase = "idle"
  /\ IF batch.jobs = <<>>
       THEN /\ batch' = NoBatch
            /\ UNCHANGED <<clock, mem, disk, up, exec, busy, sending, tasks, history, faults>>
       ELSE /\ batch' = [batch EXCEPT !.jobs = Tail(@)]
            /\ TimerStarts(Head(batch.jobs), batch.at)

-----------------------------------------------------------------------------
(* The operations of the user.                                              *)

Edit(j) == up /\ Unlocked /\ j \in mem.listed /\ Fault
EditOnly == UNCHANGED <<clock, up, batch, exec, busy, sending, tasks, crossed, sent, resent, exposed>>

AddJob(j) ==
  /\ up /\ Unlocked /\ j \notin mem.listed /\ mem.job[j] = NewJob
  /\ \A k \in DOMAIN tasks : tasks[k].job # j
  /\ Persist([mem EXCEPT !.listed = @ \cup {j}, !.job[j].next = NextRun(j, clock)])
  /\ EditOnly /\ UNCHANGED faults

(* update() of "enabled" *)
Toggle(j) ==
  LET on == ~mem.job[j].on
  IN  /\ Edit(j)
      /\ Persist([mem EXCEPT !.job[j].on = on, !.job[j].next = IF on THEN NextRun(j, clock) ELSE 0])
      /\ EditOnly

RemoveJob(j) ==
  /\ Edit(j)
  /\ Persist([mem EXCEPT !.listed = @ \ {j}])
  /\ EditOnly

WhileTimerRuns(j) ==
  j \in ToSet(batch.jobs) \/ (exec["timer"].phase # "idle" /\ exec["timer"].job = j)
Crosses(j) == crossed' = IF WhileTimerRuns(j) THEN crossed \cup {j} ELSE crossed

(* run(): it reads the clock and asks whether a task of the job is at work. *)
Run(j, mode) ==
  /\ Edit(j)
  /\ mode = "force" \/ Due(mem, j)
  /\ exec' = [exec EXCEPT !["user"] = [NoRun EXCEPT !.phase = "asking", !.job = j, !.at = clock]]
  /\ Crosses(j)
  /\ UNCHANGED <<clock, mem, disk, up, batch, busy, sending, tasks, sent, resent, exposed>>

(* With a task at work only the lease is renewed. *)
FindsTask ==
  LET j == exec["user"].job
      r == mem.job[j]
      lease == IF r.lease = 0 THEN exec["user"].at ELSE r.lease
  IN  /\ exec["user"].phase = "asking" /\ ActiveTask(j)
      /\ exec' = [exec EXCEPT !["user"] = NoRun]
      /\ Persist(With(mem, j,
           [r EXCEPT !.lease = lease,
                     !.last = IF @ = 0 THEN lease ELSE @,
                     !.next = IF r.on /\ @ <= exec["user"].at THEN NextRun(j, lease) ELSE @]))
      /\ UNCHANGED <<clock, up, batch, busy, sending, tasks, history, faults>>

FindsNoTask ==
  /\ exec["user"].phase = "asking"
  /\ ExecuteJob("user", exec["user"].job, exec["user"].at)
  /\ Crosses(exec["user"].job)
  /\ UNCHANGED <<clock, up, batch, sending, tasks, sent, resent, exposed, faults>>

-----------------------------------------------------------------------------
(* processOutboxQueue(): what is due is tried in turn and saved at the end. *)

OutboxBegins(es) ==
  /\ up /\ Unlocked
  /\ es # {} /\ es \subseteq {e \in mem.outbox : e.state = "queued"}
  /\ sending' = [on |-> TRUE, left |-> es]
  /\ UNCHANGED <<clock, mem, disk, up, batch, exec, busy, tasks, history, faults>>

Replace(e, f) == mem' = [mem EXCEPT !.outbox = IF e \in @ THEN (@ \ {e}) \cup {f} ELSE @]

(* Mutant: an entry that was sent stays queued. *)
OutboxTriesAgain(e, ok) ==
  LET tries == e.tries + 1
  IN  /\ e \in sending.left
      /\ sending' = [sending EXCEPT !.left = @ \ {e}]
      /\ Replace(e, [e EXCEPT !.tries = tries,
                              !.state = IF tries = MaxAttempts THEN "dead_letter" ELSE @])
      /\ IF ok THEN Sends(e.key) ELSE UNCHANGED <<sent, resent>>
      /\ UNCHANGED <<clock, disk, up, batch, exec, busy, tasks, crossed, exposed, faults>>

(* Mutant: the attempts that fail are not counted. *)
OutboxTriesForEver(e, ok) ==
  /\ e \in sending.left
  /\ sending' = [sending EXCEPT !.left = @ \ {e}]
  /\ Replace(e, [e EXCEPT !.state = IF ok THEN "sent" ELSE @])
  /\ IF ok THEN Sends(e.key) ELSE UNCHANGED <<sent, resent>>
  /\ UNCHANGED <<clock, disk, up, batch, exec, busy, tasks, crossed, exposed, faults>>

(* Mutant: an entry is never given up. *)
OutboxTriesOnAndOn(e, ok) ==
  /\ e \in sending.left
  /\ sending' = [sending EXCEPT !.left = @ \ {e}]
  /\ Replace(e, [e EXCEPT !.tries = @ + 1, !.state = IF ok THEN "sent" ELSE @])
  /\ IF ok THEN Sends(e.key) ELSE UNCHANGED <<sent, resent>>
  /\ UNCHANGED <<clock, disk, up, batch, exec, busy, tasks, crossed, exposed, faults>>

OutboxTries(e, ok) ==
  LET tries == e.tries + 1
  IN  /\ e \in sending.left
      /\ sending' = [sending EXCEPT !.left = @ \ {e}]
      /\ Replace(e, [e EXCEPT !.tries = tries,
                              !.state = IF ok THEN "sent"
                                        ELSE IF tries >= MaxAttempts THEN "dead_letter" ELSE @])
      /\ IF ok THEN Sends(e.key) ELSE UNCHANGED <<sent, resent>>
      /\ UNCHANGED <<clock, disk, up, batch, exec, busy, tasks, crossed, exposed, faults>>

OutboxEnds ==
  /\ sending.on /\ sending.left = {}
  /\ sending' = Idle
  /\ disk' = mem
  /\ UNCHANGED <<clock, mem, up, batch, exec, busy, tasks, history, faults>>

-----------------------------------------------------------------------------
(* stop(), the end of the process, and start() in the next one.             *)

Stop ==
  /\ up /\ Fault
  /\ up' = FALSE
  /\ mem' = [mem EXCEPT !.listed = {}, !.outbox = {}]
  /\ UNCHANGED <<clock, disk, batch, exec, busy, sending, tasks, history>>

(* reconcileLoadedJobs(); "lapsed" are the jobs whose lease has timed out,  *)
(* "found" those of which a task is found at work.                          *)
Reconciled(r, j, lapsed, found) ==
  LET lease == IF r.lease = 0 THEN clock ELSE r.lease
  IN  CASE ~r.on -> [r EXCEPT !.next = 0, !.lease = 0]
        [] r.on /\ j \in found ->
             [r EXCEPT !.lease = lease,
                       !.last = IF @ = 0 THEN lease ELSE @,
                       !.next = IF @ <= clock THEN NextRun(j, lease) ELSE @]
        [] OTHER ->
             [r EXCEPT !.lease = IF j \in lapsed THEN 0 ELSE @,
                       !.next = IF @ = 0 THEN NextRun(j, clock)
                                ELSE IF @ <= clock /\ r.last >= @ THEN NextRun(j, @) ELSE @]

Restart(lapsed, found) ==
  /\ Fault
  /\ \A j \in found : ActiveTask(j)
  /\ up' = TRUE
  /\ Persist([disk EXCEPT !.job = [j \in Jobs |->
       IF j \in disk.listed THEN Reconciled(disk.job[j], j, lapsed, found) ELSE disk.job[j]]])
  /\ batch' = NoBatch /\ exec' = [w \in Runners |-> NoRun] /\ busy' = {} /\ sending' = Idle
  /\ exposed' = exposed \cup {e.key : e \in {f \in disk.outbox : f.state = "queued" /\ f.key \in sent}}
  /\ UNCHANGED <<clock, tasks, crossed, sent, resent>>

-----------------------------------------------------------------------------
Batches == UNION {{s \in [1..n -> Jobs] : IsInjective(s)} : n \in 1..Cardinality(Jobs)}

Next ==
  \/ Tick
  \/ \E k \in DOMAIN tasks : TaskEnds(k)
  \/ \E w \in Runners : Creates(w) \/ Finishes(w) \/ Delivers(w)
  \/ \E js \in Batches : TimerFires(js)
  \/ TimerGoesOn
  \/ \E j \in Jobs : AddJob(j) \/ Toggle(j) \/ RemoveJob(j)
  \/ \E j \in Jobs, mode \in {"due", "force"} : Run(j, mode)
  \/ FindsTask \/ FindsNoTask
  \/ \E es \in SUBSET mem.outbox : OutboxBegins(es)
  \/ \E e \in sending.left, ok \in BOOLEAN : OutboxTries(e, ok)
  \/ OutboxEnds
  \/ Stop
  \/ \E lapsed, found \in SUBSET Jobs : Restart(lapsed, found)

Spec == Init /\ [][Next]_vars

(* Time goes on, timers fire, calls return, and a run has a deadline. *)
Fairness ==
  /\ WF_vars(Tick)
  /\ WF_vars(\E js \in Batches : TimerFires(js)) /\ WF_vars(TimerGoesOn)
  /\ \A w \in Runners : WF_vars(Creates(w) \/ Finishes(w)) /\ WF_vars(Delivers(w))
  /\ WF_vars(FindsTask \/ FindsNoTask)
  /\ WF_vars(\E es \in SUBSET mem.outbox : OutboxBegins(es))
  /\ WF_vars((\E e \in sending.left, ok \in BOOLEAN : OutboxTries(e, ok)) \/ OutboxEnds)

FairSpec == Spec /\ Fairness

-----------------------------------------------------------------------------
(* Properties.                                                              *)

JobType == [on : BOOLEAN, next : Nat, lease : Nat, last : Nat]
KeyType == Jobs \X Nat \X Nat
EntryType == [key : KeyType, tries : 0..MaxAttempts, state : {"queued", "sent", "dead_letter"}]
StoreType == [listed : SUBSET Jobs, job : [Jobs -> JobType], outbox : SUBSET EntryType]
RunType == [phase : {"idle", "asking", "leased", "polling", "delivering"}, job : Jobs,
            at : Nat, occ : Nat, task : Nat]

TypeOK ==
  /\ clock \in 1..Horizon
  /\ mem \in StoreType /\ disk \in StoreType
  /\ up \in BOOLEAN
  /\ batch \in [jobs : Seq(Jobs), at : Nat]
  /\ exec \in [Runners -> RunType]
  /\ busy \subseteq Jobs
  /\ sending \in [on : BOOLEAN, left : SUBSET EntryType]
  /\ tasks \in Seq([job : Jobs, at : Nat, occ : Nat, active : BOOLEAN])
  /\ crossed \subseteq Jobs
  /\ sent \subseteq KeyType /\ resent \subseteq KeyType /\ exposed \subseteq KeyType
  /\ faults \in 0..MaxFaults

(* Two tasks are never created for one scheduled time of a job, however the *)
(* process dies, unless the user and the timer ran the job across each      *)
(* other, or the job is of kind "every" and was started at the very time:   *)
(* that time is then the next one as well.                                  *)
OncePerOccurrence ==
  \A k, l \in DOMAIN tasks :
    k # l /\ tasks[k].job = tasks[l].job /\ tasks[k].occ = tasks[l].occ /\ tasks[k].occ # 0
      => \/ tasks[k].job \in crossed
         \/ tasks[k].job \in Intervals /\ \E t \in {k, l} : tasks[t].at = tasks[t].occ

(* The result of a task goes out once, unless the process died between      *)
(* sending it from the outbox and saving that.                              *)
SentOnce == resent \subseteq exposed

(* A job that is due does not stay so: it runs, or is changed, or removed. *)
DueJobsRun == \A j \in Jobs : (up /\ Due(mem, j)) ~> ~(up /\ Due(mem, j))

(* What is queued in the outbox is sent or given up in the end. *)
OutboxDrains == (up /\ \E e \in mem.outbox : e.state = "queued") ~>
                  ~(up /\ \E e \in mem.outbox : e.state = "queued")

(* docs/CHANGELOG.md: "detect active scheduled work after restart, and     *)
(* avoid duplicate runs": no job has two tasks at work.                     *)
NoDuplicateRun ==
  \A k, l \in DOMAIN tasks :
    tasks[k].active /\ tasks[l].active /\ tasks[k].job = tasks[l].job => k = l
=============================================================================
