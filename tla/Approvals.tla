------------------------------ MODULE Approvals ------------------------------
(***************************************************************************)
(* The approvals one task asks for: the rows that survive a restart, the   *)
(* promises and timers of the process, the answers given after a restart,  *)
(* and the one-time grants they leave for the resumed run.                 *)
(*                                                                         *)
(* A scope stands for an operation that needs an answer; a row is one      *)
(* request. Every answer is "once": rules for a session, a workspace or a  *)
(* profile belong to the permission engine. The cache of answered          *)
(* responses is left out: a repeated response finds its row settled.       *)
(***************************************************************************)
EXTENDS Naturals, FiniteSets

CONSTANTS
  Rows,         \* approval ids
  Scopes,
  Scope,        \* of a row
  MaxRestarts   \* bound of the model

ASSUME ApprovalAssumption ==
  Scope \in [Rows -> Scopes] /\ IsFiniteSet(Rows) /\ MaxRestarts \in Nat

VARIABLES
  (* The database. *)
  row,          \* approvals.status, or none without a row
  status,       \* of the task; blocked is blocked/awaiting_approval
  snapshot,     \* temporaryGrants in the last conversation snapshot
  (* The process. *)
  active,       \* activeTasks has an executor for the task
  waiting,      \* pendingApprovals, each with its timer
  remembered,   \* recoveredApprovalGrants
  grants,       \* temporaryGrants of the executor's runtime
  (* History and bound. *)
  used,         \* operations of a scope that were let through after asking
  stale,        \* grants of the snapshot that were used after it was saved
  replayed,     \* how often a restart has brought such a grant back
  lost,         \* a process died with an answer written and the task not
  restarts

database == <<row, status, snapshot>>
process == <<active, waiting, remembered, grants>>
history == <<used, stale, replayed, lost>>
vars == <<database, process, history, restarts>>

Pending == {r \in Rows : row[r] = "pending"}
Granted(rows) == {Scope[r] : r \in rows}

Init ==
  /\ row = [r \in Rows |-> "none"] /\ status = "executing" /\ snapshot = {}
  /\ active = TRUE /\ waiting = {} /\ remembered = {} /\ grants = {}
  /\ used = [s \in Scopes |-> 0] /\ stale = {} /\ replayed = [s \in Scopes |-> 0]
  /\ lost = FALSE /\ restarts = 0

-----------------------------------------------------------------------------
(* requestApproval()                                                        *)

(* Mutant: the grant is not taken back. *)
UsesGrantAgain(s) ==
  /\ active /\ s \in grants
  /\ used[s] <= Cardinality(Rows) + MaxRestarts
  /\ used' = [used EXCEPT ![s] = @ + 1]
  /\ UNCHANGED <<database, process, stale, replayed, lost, restarts>>

(* The answer given before the restart. *)
UsesGrant(s) ==
  /\ active /\ s \in grants
  /\ grants' = grants \ {s}
  /\ used' = [used EXCEPT ![s] = @ + 1]
  /\ stale' = stale \cup ({s} \cap snapshot)
  /\ UNCHANGED <<database, active, waiting, remembered, replayed, lost, restarts>>

(* A rule, a mode or the automatic review decides; the row is a record.     *)
Decided(r, d) ==
  /\ active /\ row[r] = "none"
  /\ row' = [row EXCEPT ![r] = d]
  /\ used' = IF d = "approved" THEN [used EXCEPT ![Scope[r]] = @ + 1] ELSE used
  /\ UNCHANGED <<status, snapshot, process, stale, replayed, lost, restarts>>

(* updateTask(): a task that has ended is not taken back. *)
Becomes(s) == status' = IF status = "ended" THEN status ELSE s

Asks(r) ==
  /\ active /\ row[r] = "none" /\ Scope[r] \notin grants
  /\ row' = [row EXCEPT ![r] = "pending"]
  /\ Becomes("blocked")
  /\ waiting' = waiting \cup {r}
  /\ UNCHANGED <<snapshot, active, remembered, grants, history, restarts>>

(* Mutant: neither the timer nor the entry is cleared by an answer. *)
TimesOutLate(r) ==
  /\ row[r] \in {"pending", "approved"} /\ active
  /\ waiting' = waiting \ {r}
  /\ row' = [row EXCEPT ![r] = "denied"]
  /\ Becomes("paused")
  /\ UNCHANGED <<snapshot, active, remembered, grants, history, restarts>>

TimesOut(r) ==
  /\ r \in waiting
  /\ waiting' = waiting \ {r}
  /\ row' = [row EXCEPT ![r] = "denied"]
  /\ Becomes("paused")
  /\ UNCHANGED <<snapshot, active, remembered, grants, history, restarts>>

-----------------------------------------------------------------------------
(* respondToApproval()                                                      *)

(* Somebody waits for the answer. *)
Respond(r, approved) ==
  /\ r \in waiting
  /\ waiting' = waiting \ {r}
  /\ row' = [row EXCEPT ![r] = IF approved THEN "approved" ELSE "denied"]
  /\ Becomes(IF ~approved THEN "paused"
             ELSE IF Pending \ {r} # {} THEN "blocked" ELSE "executing")
  /\ used' = IF approved THEN [used EXCEPT ![Scope[r]] = @ + 1] ELSE used
  /\ UNCHANGED <<snapshot, active, remembered, grants, stale, replayed, lost, restarts>>

(* resumeInterruptedTask(): with a slot, as far as the snapshot; else, or   *)
(* without anything to resume from, by way of the queue.                    *)
Resumes(rows) ==
  \/ /\ status' = "executing" /\ active' = TRUE
     /\ grants' = snapshot \cup Granted(rows) /\ remembered' = {}
     /\ replayed' = [s \in Scopes |-> IF s \in stale THEN replayed[s] + 1 ELSE replayed[s]]
     /\ stale' = {}
  \/ /\ status' = "queued" /\ remembered' = rows
     /\ UNCHANGED <<active, grants, stale, replayed>>

Recoverable(r) == r \in Pending \ waiting /\ status = "blocked" /\ ~active

DenyRecovered(r) ==
  /\ Recoverable(r)
  /\ row' = [row EXCEPT ![r] = "denied"]
  /\ remembered' = {}
  /\ status' = "paused"
  /\ UNCHANGED <<snapshot, active, waiting, grants, history, restarts>>

(* Mutant: the open requests are counted before the answer is written. *)
ApproveRecoveredMiscounted(r) ==
  /\ Recoverable(r)
  /\ row' = [row EXCEPT ![r] = "approved"]
  /\ IF Pending # {}
       THEN status' = "blocked" /\ remembered' = remembered \cup {r}
            /\ UNCHANGED <<active, grants, stale, replayed>>
       ELSE Resumes(remembered \cup {r})
  /\ UNCHANGED <<snapshot, waiting, used, lost, restarts>>

(* recoverPersistedApproval(): the last answer resumes the task, or fails   *)
(* to and leaves it to the user.                                            *)
ApproveRecovered(r) ==
  /\ Recoverable(r)
  /\ row' = [row EXCEPT ![r] = "approved"]
  /\ IF Pending \ {r} # {}
       THEN status' = "blocked" /\ remembered' = remembered \cup {r}
            /\ UNCHANGED <<active, grants, stale, replayed>>
       ELSE \/ Resumes(remembered \cup {r})
            \/ status' = "paused" /\ remembered' = {} /\ UNCHANGED <<active, grants, stale, replayed>>
  /\ UNCHANGED <<snapshot, waiting, used, lost, restarts>>

-----------------------------------------------------------------------------
(* The task and its executor.                                               *)

(* startTaskImmediate(), without the snapshot. *)
StartQueued ==
  /\ status = "queued" /\ ~active
  /\ status' = "executing" /\ active' = TRUE
  /\ grants' = Granted(remembered) /\ remembered' = {}
  /\ UNCHANGED <<row, snapshot, waiting, history, restarts>>

ResumeInterrupted ==
  /\ status = "interrupted" /\ ~active
  /\ \/ Resumes(remembered)
     \/ status' = "ended" /\ UNCHANGED <<active, remembered, grants, stale, replayed>>
  /\ UNCHANGED <<row, snapshot, waiting, used, lost, restarts>>

(* resumeTask(): whatever the task is waiting for. *)
UserResumes ==
  /\ active /\ status \in {"blocked", "paused"}
  /\ status' = "executing"
  /\ UNCHANGED <<row, snapshot, process, history, restarts>>

(* Mutant: the promises are left to their timers. *)
TaskEndsQuietly ==
  /\ status # "ended"
  /\ status' = "ended" /\ active' = FALSE
  /\ row' = [r \in Rows |-> IF r \in waiting THEN "denied" ELSE row[r]]
  /\ UNCHANGED <<snapshot, waiting, remembered, grants, history, restarts>>

(* Completed, failed or cancelled: cleanupPendingApprovalsForTask(). *)
TaskEnds ==
  /\ status # "ended"
  /\ status' = "ended" /\ active' = FALSE
  /\ row' = [r \in Rows |-> IF r \in waiting THEN "denied" ELSE row[r]]
  /\ waiting' = {}
  /\ UNCHANGED <<snapshot, remembered, grants, history, restarts>>

(* The executor's own failure is written without the cleanup: its promises  *)
(* are left to their timers.                                                *)
RunFails ==
  /\ active /\ status # "ended"
  /\ status' = "ended"
  /\ UNCHANGED <<row, snapshot, process, history, restarts>>

SaveSnapshot ==
  /\ active /\ status # "ended"
  /\ snapshot' = grants /\ stale' = {}
  /\ UNCHANGED <<row, status, process, used, replayed, lost, restarts>>

(* The five minutes of a grant are over. *)
GrantLapses(s) ==
  /\ s \in grants \cup snapshot
  /\ grants' = grants \ {s} /\ snapshot' = snapshot \ {s} /\ stale' = stale \ {s}
  /\ UNCHANGED <<row, status, active, waiting, remembered, used, replayed, lost, restarts>>

-----------------------------------------------------------------------------
(* The process ends and starts again.                                       *)

ProcessEnds ==
  /\ restarts < MaxRestarts /\ restarts' = restarts + 1
  /\ active' = FALSE /\ waiting' = {} /\ remembered' = {} /\ grants' = {}
  /\ UNCHANGED <<used, replayed>>

(* A task that was executing is resumed, or fails without saved state; one  *)
(* that was blocked stays blocked.                                          *)
Dies ==
  /\ ProcessEnds
  /\ \/ status = "executing" /\ status' \in {"interrupted", "ended"}
     \/ status # "executing" /\ UNCHANGED status
  /\ UNCHANGED <<snapshot, stale>>

Crash == Dies /\ UNCHANGED <<row, lost>>

(* The row is written before the task, and the process dies in between:     *)
(* with an answer to somebody who waits or to a request of an earlier       *)
(* process, in the cleanup of a task that ends, or with a new request.      *)
DiesAnswering(r, d) ==
  /\ r \in waiting \/ Recoverable(r)
  /\ row' = [row EXCEPT ![r] = d] /\ lost' = TRUE
  /\ Dies

DiesEnding(rows) ==
  /\ rows \subseteq waiting /\ rows # {}
  /\ row' = [r \in Rows |-> IF r \in rows THEN "denied" ELSE row[r]] /\ lost' = TRUE
  /\ Dies

DiesAsking(r) ==
  /\ active /\ row[r] = "none" /\ Scope[r] \notin grants
  /\ row' = [row EXCEPT ![r] = "pending"]
  /\ Dies /\ UNCHANGED lost

(* The last answer after a restart is written as interrupted; the answers   *)
(* that were remembered die before the task is resumed.                     *)
DiesResuming(r) ==
  /\ Recoverable(r) /\ Pending = {r}
  /\ row' = [row EXCEPT ![r] = "approved"]
  /\ status' = "interrupted"
  /\ ProcessEnds /\ UNCHANGED <<snapshot, stale, lost>>

(* shutdown(): the promises are rejected and their rows stay pending. *)
Shutdown ==
  /\ ProcessEnds /\ UNCHANGED <<row, lost>>
  /\ IF active /\ status # "ended"
       THEN /\ status' = "interrupted"
            /\ \/ snapshot' = grants /\ stale' = {}
               \/ UNCHANGED <<snapshot, stale>>   \* the save is best effort
       ELSE UNCHANGED <<status, snapshot, stale>>

-----------------------------------------------------------------------------
Next ==
  \/ \E s \in Scopes : UsesGrant(s) \/ GrantLapses(s)
  \/ \E r \in Rows :
       \/ Asks(r) \/ TimesOut(r)
       \/ \E d \in {"approved", "denied"} : Decided(r, d)
       \/ \E a \in BOOLEAN : Respond(r, a)
       \/ DenyRecovered(r) \/ ApproveRecovered(r)
       \/ \E d \in {"approved", "denied"} : DiesAnswering(r, d)
       \/ DiesAsking(r) \/ DiesResuming(r)
  \/ StartQueued \/ ResumeInterrupted \/ UserResumes
  \/ TaskEnds \/ RunFails \/ SaveSnapshot
  \/ Crash \/ Shutdown \/ \E rows \in SUBSET Rows : DiesEnding(rows)

Spec == Init /\ [][Next]_vars

(* Timers fire, the user answers what a blocked task asks after a restart,  *)
(* and an executor that waits for nobody ends.                              *)
Fairness ==
  /\ \A r \in Rows : WF_vars(TimesOut(r)) /\ WF_vars(DenyRecovered(r) \/ ApproveRecovered(r))
  /\ WF_vars(active /\ waiting = {} /\ TaskEnds)

FairSpec == Spec /\ Fairness

-----------------------------------------------------------------------------
(* Properties.                                                              *)

(* The variables keep their types, and who waits, waits for an open row. *)
TypeOK ==
  /\ row \in [Rows -> {"none", "pending", "approved", "denied"}]
  /\ status \in {"executing", "blocked", "paused", "interrupted", "queued", "ended"}
  /\ snapshot \subseteq Scopes /\ grants \subseteq Scopes /\ stale \subseteq snapshot
  /\ active \in BOOLEAN /\ waiting \subseteq Pending /\ remembered \subseteq Rows
  /\ used \in [Scopes -> Nat] /\ replayed \in [Scopes -> Nat]
  /\ lost \in BOOLEAN /\ restarts \in 0..MaxRestarts

(* An answer is final: neither the timer, a second answer, the end of the   *)
(* task nor a restart changes a row that has been settled.                  *)
AnswerIsFinal ==
  [][\A r \in Rows : row[r] \in {"approved", "denied"} => row'[r] = row[r]]_vars

(* One answer lets one operation through, before or after a restart. The    *)
(* exception is a grant that was used after the snapshot from which a later *)
(* process has started.                                                     *)
AnsweredBeforeUse ==
  \A s \in Scopes :
    used[s] <= Cardinality({r \in Rows : Scope[r] = s /\ row[r] = "approved"}) + replayed[s]

(* An answer was lost, and neither initialize() nor a later answer frees    *)
(* the task: only a follow-up or a cancellation by the user does.           *)
AnswerLost == lost /\ status = "blocked" /\ ~active /\ Pending = {}

(* A task does not stay blocked: there is always a question to answer, or   *)
(* an executor that goes on. The exception is an answer that was written by *)
(* a process that died before it wrote the task.                            *)
BlockedEnds == status = "blocked" ~> status # "blocked" \/ AnswerLost
=============================================================================
