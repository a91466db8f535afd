--------------------------- MODULE Approvals_proofs ---------------------------
(***************************************************************************)
(* Proofs about the approvals of a task, for every set of rows and scopes. *)
(*                                                                         *)
(* AnsweredBeforeUse is not inductive: a use is paid for by an answer that *)
(* was given earlier and travelled as a remembered row, a grant of the     *)
(* runtime or a grant of the snapshot. Credit says where it may be.        *)
(***************************************************************************)
EXTENDS Approvals, TLAPS, FiniteSetTheorems

Approved(s) == {r \in Rows : Scope[r] = s /\ row[r] = "approved"}

(* An operation of the scope can still be let through without an answer. *)
Held(s) == s \in grants \cup (snapshot \ stale) \cup Granted(remembered)

(* A use that is held has been paid for as well. *)
CreditOf(s) ==
  /\ used[s] <= Cardinality(Approved(s)) + replayed[s]
  /\ Held(s) => used[s] + 1 <= Cardinality(Approved(s)) + replayed[s]
Credit == \A s \in Scopes : CreditOf(s)

(* Answers are remembered only until there is an executor. *)
Handed == active => remembered = {}

IInv == TypeOK /\ Handed /\ Credit

-----------------------------------------------------------------------------
(* How the number of answers for a scope changes with the rows.             *)

(* There are finitely many answers. *)
LEMMA ApprovedFinite ==
  ASSUME NEW s
  PROVE  IsFiniteSet(Approved(s)) /\ Cardinality(Approved(s)) \in Nat
<1>1. IsFiniteSet(Rows) BY ApprovalAssumption
<1>2. Approved(s) \subseteq Rows BY DEF Approved
<1>3. IsFiniteSet(Approved(s)) BY <1>1, <1>2, FS_Subset
<1> QED BY <1>3, FS_CardinalityType

(* A step that settles no row as approved, and reopens none, changes no     *)
(* count.                                                                   *)
LEMMA SameApproved ==
  ASSUME \A r \in Rows : row'[r] = "approved" <=> row[r] = "approved"
  PROVE  \A s \in Scopes : Approved(s)' = Approved(s)
BY DEF Approved

(* Approving a row counts once for its scope and not for another. *)
LEMMA OneMoreApproved ==
  ASSUME TypeOK, NEW r \in Rows, row[r] # "approved",
         row' = [row EXCEPT ![r] = "approved"]
  PROVE  \A s \in Scopes :
           Cardinality(Approved(s)') =
             IF s = Scope[r] THEN Cardinality(Approved(s)) + 1 ELSE Cardinality(Approved(s))
<1> SUFFICES ASSUME NEW s \in Scopes
             PROVE Cardinality(Approved(s)') =
               IF s = Scope[r] THEN Cardinality(Approved(s)) + 1 ELSE Cardinality(Approved(s))
  OBVIOUS
<1>1. \A q \in Rows : row'[q] = IF q = r THEN "approved" ELSE row[q]
  BY DEF TypeOK
<1>2. CASE s = Scope[r]
  <2>1. Approved(s)' = Approved(s) \cup {r} BY <1>1, <1>2 DEF Approved
  <2>2. r \notin Approved(s) BY DEF Approved
  <2>3. IsFiniteSet(Approved(s)) BY ApprovedFinite
  <2> QED BY <1>2, <2>1, <2>2, <2>3, FS_AddElement
<1>3. CASE s # Scope[r]
  <2>1. Approved(s)' = Approved(s) BY <1>1, <1>3 DEF Approved
  <2> QED BY <1>3, <2>1
<1> QED BY <1>2, <1>3

(* A new count of answers that is no smaller keeps what has been paid for. *)
LEMMA CreditKept ==
  ASSUME TypeOK, Credit,
         \A r \in Rows : row'[r] = "approved" <=> row[r] = "approved",
         UNCHANGED <<used, replayed>>,
         \A s \in Scopes : Held(s)' => Held(s)
  PROVE  Credit'
<1> SUFFICES ASSUME NEW s \in Scopes PROVE CreditOf(s)' BY DEF Credit
<1>1. CreditOf(s) BY DEF Credit
<1>2. Approved(s)' = Approved(s) BY SameApproved
<1>3. Held(s)' => Held(s) OBVIOUS
<1> QED BY <1>1, <1>2, <1>3 DEF CreditOf

(* An operation that is let through by a row approved in the same step. *)
LEMMA CreditPaid ==
  ASSUME TypeOK, Credit, NEW r \in Rows, row[r] # "approved",
         row' = [row EXCEPT ![r] = "approved"],
         used' = [used EXCEPT ![Scope[r]] = @ + 1],
         UNCHANGED <<snapshot, stale, remembered, grants, replayed>>
  PROVE  Credit'
<1> SUFFICES ASSUME NEW s \in Scopes PROVE CreditOf(s)' BY DEF Credit
<1>1. CreditOf(s) BY DEF Credit
<1>2. Cardinality(Approved(s)') =
        IF s = Scope[r] THEN Cardinality(Approved(s)) + 1 ELSE Cardinality(Approved(s))
  BY OneMoreApproved
<1>3. Held(s)' <=> Held(s) BY DEF Held, Granted
<1>4. used'[s] = IF s = Scope[r] THEN used[s] + 1 ELSE used[s] BY DEF TypeOK
<1>5. used[s] \in Nat /\ replayed[s] \in Nat /\ Cardinality(Approved(s)) \in Nat
  BY ApprovedFinite DEF TypeOK
<1> QED BY <1>1, <1>2, <1>3, <1>4, <1>5 DEF CreditOf

(* What a resumed executor holds was remembered, held before or comes from  *)
(* a grant of the snapshot that had been used.                              *)
LEMMA ResumesHeld ==
  ASSUME TypeOK, TypeOK', NEW rows \in SUBSET Rows, Resumes(rows), UNCHANGED snapshot,
         NEW s \in Scopes
  PROVE  /\ replayed'[s] \in {replayed[s], replayed[s] + 1}
         /\ Held(s)' => Held(s) \/ s \in Granted(rows) \/ replayed'[s] = replayed[s] + 1
<1>1. CASE /\ status' = "executing" /\ active' = TRUE
           /\ grants' = snapshot \cup Granted(rows) /\ remembered' = {}
           /\ replayed' = [z \in Scopes |-> IF z \in stale THEN replayed[z] + 1 ELSE replayed[z]]
           /\ stale' = {}
  <2>1. replayed'[s] = IF s \in stale THEN replayed[s] + 1 ELSE replayed[s] BY <1>1
  <2>2. Granted(remembered)' = {} BY <1>1 DEF Granted
  <2>3. Held(s)' => s \in snapshot \cup Granted(rows) BY <1>1, <2>2 DEF Held
  <2> QED BY <2>1, <2>3 DEF Held
<1>2. CASE /\ status' = "queued" /\ remembered' = rows
           /\ UNCHANGED <<active, grants, stale, replayed>>
  BY <1>2 DEF Held, Granted
<1> QED BY <1>1, <1>2 DEF Resumes

-----------------------------------------------------------------------------
(* The variables keep their types: []TypeOK. *)

LEMMA TypeStep ==
  ASSUME TypeOK, [Next]_vars
  PROVE  TypeOK'
<1> USE ApprovalAssumption DEF TypeOK
<1>1. ASSUME NEW s \in Scopes, UsesGrant(s) PROVE TypeOK'
  BY <1>1 DEF UsesGrant, database, Pending
<1>2. ASSUME NEW s \in Scopes, GrantLapses(s) PROVE TypeOK'
  BY <1>2 DEF GrantLapses, Pending
<1>3. ASSUME NEW r \in Rows, Asks(r) PROVE TypeOK'
  BY <1>3 DEF Asks, Becomes, history, Pending
<1>4. ASSUME NEW r \in Rows, TimesOut(r) PROVE TypeOK'
  BY <1>4 DEF TimesOut, Becomes, history, Pending
<1>5. ASSUME NEW r \in Rows, NEW d \in {"approved", "denied"}, Decided(r, d) PROVE TypeOK'
  BY <1>5 DEF Decided, process, Pending
<1>6. ASSUME NEW r \in Rows, NEW a \in BOOLEAN, Respond(r, a) PROVE TypeOK'
  BY <1>6 DEF Respond, Becomes, Pending
<1>7. ASSUME NEW r \in Rows, DenyRecovered(r) PROVE TypeOK'
  BY <1>7 DEF DenyRecovered, Recoverable, history, Pending
<1>8. ASSUME NEW rows \in SUBSET Rows, Resumes(rows)
      PROVE  /\ status' \in {"executing", "queued"} /\ active' \in BOOLEAN
             /\ grants' \subseteq Scopes /\ remembered' \subseteq Rows
             /\ replayed' \in [Scopes -> Nat]
             /\ stale' \subseteq stale
  <2>1. Granted(rows) \subseteq Scopes BY DEF Granted
  <2>2. CASE /\ status' = "executing" /\ active' = TRUE
             /\ grants' = snapshot \cup Granted(rows) /\ remembered' = {}
             /\ replayed' = [s \in Scopes |-> IF s \in stale THEN replayed[s] + 1 ELSE replayed[s]]
             /\ stale' = {}
    BY <2>1, <2>2
  <2>3. CASE /\ status' = "queued" /\ remembered' = rows
             /\ UNCHANGED <<active, grants, stale, replayed>>
    BY <2>3
  <2> QED BY <1>8, <2>2, <2>3 DEF Resumes
<1>9. ASSUME NEW r \in Rows, ApproveRecovered(r) PROVE TypeOK'
  <2>1. remembered \cup {r} \in SUBSET Rows OBVIOUS
  <2>2. waiting' \subseteq Pending' BY <1>9 DEF ApproveRecovered, Recoverable, Pending
  <2>3. CASE Pending \ {r} # {} BY <1>9, <2>2, <2>3 DEF ApproveRecovered
  <2>4. CASE Pending \ {r} = {} /\ Resumes(remembered \cup {r})
    BY <1>8, <1>9, <2>1, <2>2, <2>4 DEF ApproveRecovered
  <2>5. CASE Pending \ {r} = {} /\ ~Resumes(remembered \cup {r})
    BY <1>9, <2>2, <2>5 DEF ApproveRecovered
  <2> QED BY <2>3, <2>4, <2>5
<1>10. ASSUME StartQueued PROVE TypeOK'
  BY <1>10 DEF StartQueued, history, Granted, Pending
<1>11. ASSUME ResumeInterrupted PROVE TypeOK'
  <2>1. CASE Resumes(remembered)
    BY <1>8, <1>11, <2>1 DEF ResumeInterrupted, Pending
  <2>2. CASE ~Resumes(remembered)
    BY <1>11, <2>2 DEF ResumeInterrupted, Pending
  <2> QED BY <2>1, <2>2
<1>12. ASSUME UserResumes PROVE TypeOK'
  BY <1>12 DEF UserResumes, process, history, Pending
<1>13. ASSUME TaskEnds PROVE TypeOK'
  BY <1>13 DEF TaskEnds, history, Pending
<1>14. ASSUME SaveSnapshot PROVE TypeOK'
  BY <1>14 DEF SaveSnapshot, process, Pending
<1>18. ASSUME RunFails PROVE TypeOK'
  BY <1>18 DEF RunFails, process, history, Pending
<1>19. ASSUME ProcessEnds
       PROVE  /\ active' \in BOOLEAN /\ waiting' \subseteq Pending' /\ remembered' \subseteq Rows
              /\ grants' \subseteq Scopes /\ restarts' \in 0..MaxRestarts
              /\ used' \in [Scopes -> Nat] /\ replayed' \in [Scopes -> Nat]
  <2>1. restarts' \in 0..MaxRestarts BY <1>19 DEF ProcessEnds
  <2> QED BY <1>19, <2>1 DEF ProcessEnds
<1>20. ASSUME Dies, row' \in [Rows -> {"none", "pending", "approved", "denied"}], lost' \in BOOLEAN
       PROVE  TypeOK'
  <2>1. /\ status' \in {"executing", "blocked", "paused", "interrupted", "queued", "ended"}
        /\ snapshot' \subseteq Scopes /\ stale' \subseteq snapshot'
    BY <1>20 DEF Dies
  <2> QED BY <1>19, <1>20, <2>1 DEF Dies
<1>15. ASSUME Crash PROVE TypeOK'
  BY <1>15, <1>20 DEF Crash
<1>21. ASSUME NEW r \in Rows, NEW d \in {"approved", "denied"}, DiesAnswering(r, d) PROVE TypeOK'
  BY <1>20, <1>21 DEF DiesAnswering
<1>22. ASSUME NEW rows \in SUBSET Rows, DiesEnding(rows) PROVE TypeOK'
  BY <1>20, <1>22 DEF DiesEnding
<1>23. ASSUME NEW r \in Rows, DiesAsking(r) PROVE TypeOK'
  BY <1>20, <1>23 DEF DiesAsking
<1>24. ASSUME NEW r \in Rows, DiesResuming(r) PROVE TypeOK'
  BY <1>19, <1>24 DEF DiesResuming
<1>16. ASSUME Shutdown PROVE TypeOK'
  <2>1. restarts' \in 0..MaxRestarts BY <1>16 DEF Shutdown, ProcessEnds
  <2>2. /\ status' \in {"executing", "blocked", "paused", "interrupted", "queued", "ended"}
        /\ snapshot' \subseteq Scopes /\ stale' \subseteq snapshot'
    BY <1>16 DEF Shutdown
  <2> QED BY <1>16, <2>1, <2>2 DEF Shutdown, ProcessEnds
<1>17. ASSUME UNCHANGED vars PROVE TypeOK'
  BY <1>17 DEF vars, database, process, history, Pending
<1> QED
  BY <1>1, <1>2, <1>3, <1>4, <1>5, <1>6, <1>7, <1>9, <1>10, <1>11, <1>12, <1>13, <1>14,
     <1>15, <1>16, <1>17, <1>18, <1>21, <1>22, <1>23, <1>24 DEF Next

LEMMA InitInv == Init => IInv
<1> SUFFICES ASSUME Init PROVE IInv OBVIOUS
<1>1. TypeOK
  <2>1. lost \in BOOLEAN BY DEF Init
  <2>2. restarts \in 0..MaxRestarts BY ApprovalAssumption DEF Init
  <2> QED BY <2>1, <2>2 DEF Init, TypeOK
<1>2. \A s \in Scopes : Granted(remembered) = {} BY DEF Init, Granted
<1>3. ASSUME NEW s \in Scopes PROVE CreditOf(s)
  <2>1. ~Held(s) BY <1>2 DEF Init, Held
  <2>2. used[s] = 0 /\ replayed[s] = 0 BY DEF Init
  <2>3. Cardinality(Approved(s)) \in Nat BY ApprovedFinite
  <2> QED BY <2>1, <2>2, <2>3 DEF CreditOf
<1>4. Handed BY DEF Init, Handed
<1> QED BY <1>1, <1>3, <1>4 DEF IInv, Credit

-----------------------------------------------------------------------------
(* Every step keeps the accounts. *)

LEMMA HandedStep ==
  ASSUME TypeOK, Handed, [Next]_vars
  PROVE  Handed'
BY DEF Handed, Next, vars, database, process, history, UsesGrant, GrantLapses, Asks, TimesOut,
       Decided, Respond, DenyRecovered, ApproveRecovered, Recoverable, Resumes, StartQueued,
       ResumeInterrupted, UserResumes, TaskEnds, RunFails, SaveSnapshot, Becomes, Crash, Dies,
       DiesAnswering, DiesEnding, DiesAsking, DiesResuming, Shutdown, ProcessEnds

LEMMA CreditStep ==
  ASSUME IInv, [Next]_vars
  PROVE  Credit'
<1> USE DEF IInv
<1>0. TypeOK' BY TypeStep
<1>1. ASSUME NEW z \in Scopes, UsesGrant(z) PROVE Credit'
  <2> SUFFICES ASSUME NEW s \in Scopes PROVE CreditOf(s)' BY DEF Credit
  <2>1. CreditOf(s) BY DEF Credit
  <2>2. Approved(s)' = Approved(s) BY <1>1 DEF UsesGrant, database, Approved
  <2>3. used[s] \in Nat /\ replayed[s] \in Nat /\ Cardinality(Approved(s)) \in Nat
    BY ApprovedFinite DEF TypeOK
  <2>4. used'[s] = IF s = z THEN used[s] + 1 ELSE used[s] BY <1>1 DEF UsesGrant, TypeOK
  <2>5. replayed' = replayed BY <1>1 DEF UsesGrant
  <2>6. CASE s = z
    <3>1. Held(s) BY <1>1, <2>6 DEF UsesGrant, Held
    <3>2. Held(s)' => s \in Granted(remembered)
      BY <1>1, <2>6 DEF UsesGrant, Held, database, Granted
    <3>3. s \notin Granted(remembered) BY <1>1 DEF UsesGrant, Handed, Granted
    <3> QED BY <2>1, <2>2, <2>3, <2>4, <2>5, <2>6, <3>1, <3>2, <3>3 DEF CreditOf
  <2>7. CASE s # z
    <3>1. Held(s)' => Held(s) BY <1>1, <2>7 DEF UsesGrant, Held, database, Granted
    <3> QED BY <2>1, <2>2, <2>4, <2>5, <2>7, <3>1 DEF CreditOf
  <2> QED BY <2>6, <2>7
<1>2. ASSUME NEW z \in Scopes, GrantLapses(z) PROVE Credit'
  <2>1. \A s \in Scopes : Held(s)' => Held(s) BY <1>2 DEF GrantLapses, Held, Granted
  <2> QED BY <1>2, <2>1, CreditKept DEF GrantLapses
<1>3. ASSUME NEW r \in Rows, Asks(r) PROVE Credit'
  <2>1. \A s \in Scopes : Held(s)' => Held(s) BY <1>3 DEF Asks, history, Held, Granted
  <2>2. \A q \in Rows : row'[q] = "approved" <=> row[q] = "approved" BY <1>3 DEF Asks, TypeOK
  <2> QED BY <1>3, <2>1, <2>2, CreditKept DEF Asks, history
<1>4. ASSUME NEW r \in Rows, TimesOut(r) PROVE Credit'
  <2>1. \A s \in Scopes : Held(s)' => Held(s) BY <1>4 DEF TimesOut, history, Held, Granted
  <2>2. \A q \in Rows : row'[q] = "approved" <=> row[q] = "approved"
    BY <1>4 DEF TimesOut, TypeOK, Pending
  <2> QED BY <1>4, <2>1, <2>2, CreditKept DEF TimesOut, history
<1>5. ASSUME NEW r \in Rows, NEW d \in {"approved", "denied"}, Decided(r, d) PROVE Credit'
  <2>1. CASE d = "approved" BY <1>5, <2>1, CreditPaid DEF Decided, process
  <2>2. CASE d = "denied"
    <3>1. \A s \in Scopes : Held(s)' => Held(s) BY <1>5 DEF Decided, process, Held, Granted
    <3>2. \A q \in Rows : row'[q] = "approved" <=> row[q] = "approved"
      BY <1>5, <2>2 DEF Decided, TypeOK
    <3> QED BY <1>5, <2>2, <3>1, <3>2, CreditKept DEF Decided
  <2> QED BY <2>1, <2>2
<1>6. ASSUME NEW r \in Rows, NEW a \in BOOLEAN, Respond(r, a) PROVE Credit'
  <2>0. row[r] = "pending" BY <1>6 DEF Respond, TypeOK, Pending
  <2>1. CASE a BY <1>6, <2>0, <2>1, CreditPaid DEF Respond
  <2>2. CASE ~a
    <3>1. \A s \in Scopes : Held(s)' => Held(s) BY <1>6 DEF Respond, Held, Granted
    <3>2. \A q \in Rows : row'[q] = "approved" <=> row[q] = "approved"
      BY <1>6, <2>0, <2>2 DEF Respond, TypeOK
    <3> QED BY <1>6, <2>2, <3>1, <3>2, CreditKept DEF Respond
  <2> QED BY <2>1, <2>2
<1>7. ASSUME NEW r \in Rows, DenyRecovered(r) PROVE Credit'
  <2>1. \A s \in Scopes : Held(s)' => Held(s) BY <1>7 DEF DenyRecovered, history, Held, Granted
  <2>2. \A q \in Rows : row'[q] = "approved" <=> row[q] = "approved"
    BY <1>7 DEF DenyRecovered, Recoverable, TypeOK, Pending
  <2> QED BY <1>7, <2>1, <2>2, CreditKept DEF DenyRecovered, history
<1>8. ASSUME NEW r \in Rows, ApproveRecovered(r) PROVE Credit'
  <2> SUFFICES ASSUME NEW s \in Scopes PROVE CreditOf(s)' BY DEF Credit
  <2>1. CreditOf(s) BY DEF Credit
  <2>2. row[r] # "approved" BY <1>8 DEF ApproveRecovered, Recoverable, Pending
  <2>3. Cardinality(Approved(s)') =
          IF s = Scope[r] THEN Cardinality(Approved(s)) + 1 ELSE Cardinality(Approved(s))
    BY <1>8, <2>2, OneMoreApproved DEF ApproveRecovered
  <2>4. used'[s] = used[s] BY <1>8 DEF ApproveRecovered
  <2>5. used[s] \in Nat /\ replayed[s] \in Nat /\ Cardinality(Approved(s)) \in Nat
    BY ApprovedFinite DEF TypeOK
  <2>6. Granted(remembered \cup {r}) = Granted(remembered) \cup {Scope[r]} BY DEF Granted
  <2>7. /\ replayed'[s] \in {replayed[s], replayed[s] + 1}
        /\ Held(s)' => Held(s) \/ s = Scope[r] \/ replayed'[s] = replayed[s] + 1
    <3>1. CASE Resumes(remembered \cup {r}) /\ UNCHANGED snapshot
      <4>1. remembered \cup {r} \in SUBSET Rows BY DEF TypeOK
      <4>2. s \in Granted(remembered \cup {r}) => Held(s) \/ s = Scope[r] BY <2>6 DEF Held
      <4> QED BY <1>0, <3>1, <4>1, <4>2, ResumesHeld
    <3>2. CASE ~Resumes(remembered \cup {r})
      BY <1>8, <2>6, <3>2 DEF ApproveRecovered, Held, Granted
    <3> QED BY <1>8, <3>1, <3>2 DEF ApproveRecovered
  <2> QED BY <2>1, <2>3, <2>4, <2>5, <2>7 DEF CreditOf
<1>9. ASSUME StartQueued PROVE Credit'
  <2>1. \A s \in Scopes : Held(s)' => Held(s) BY <1>9 DEF StartQueued, history, Held, Granted
  <2> QED BY <1>9, <2>1, CreditKept DEF StartQueued, history
<1>10. ASSUME ResumeInterrupted PROVE Credit'
  <2> SUFFICES ASSUME NEW s \in Scopes PROVE CreditOf(s)' BY DEF Credit
  <2>1. CreditOf(s) BY DEF Credit
  <2>2. Approved(s)' = Approved(s) BY <1>10 DEF ResumeInterrupted, Approved
  <2>3. used'[s] = used[s] BY <1>10 DEF ResumeInterrupted
  <2>4. used[s] \in Nat /\ replayed[s] \in Nat /\ Cardinality(Approved(s)) \in Nat
    BY ApprovedFinite DEF TypeOK
  <2>5. /\ replayed'[s] \in {replayed[s], replayed[s] + 1}
        /\ Held(s)' => Held(s) \/ replayed'[s] = replayed[s] + 1
    <3>1. CASE Resumes(remembered)
      <4>1. remembered \in SUBSET Rows BY DEF TypeOK
      <4>2. s \in Granted(remembered) => Held(s) BY DEF Held
      <4> QED BY <1>0, <1>10, <3>1, <4>1, <4>2, ResumesHeld DEF ResumeInterrupted
    <3>2. CASE ~Resumes(remembered) BY <1>10, <3>2 DEF ResumeInterrupted, Held, Granted
    <3> QED BY <3>1, <3>2
  <2> QED BY <2>1, <2>2, <2>3, <2>4, <2>5 DEF CreditOf
<1>11. ASSUME UserResumes PROVE Credit'
  <2>1. \A s \in Scopes : Held(s)' => Held(s)
    BY <1>11 DEF UserResumes, process, history, Held, Granted
  <2> QED BY <1>11, <2>1, CreditKept DEF UserResumes, history
<1>12. ASSUME TaskEnds PROVE Credit'
  <2>1. \A s \in Scopes : Held(s)' => Held(s) BY <1>12 DEF TaskEnds, history, Held, Granted
  <2>2. \A q \in Rows : row'[q] = "approved" <=> row[q] = "approved"
    BY <1>12 DEF TaskEnds, TypeOK, Pending
  <2> QED BY <1>12, <2>1, <2>2, CreditKept DEF TaskEnds, history
<1>13. ASSUME SaveSnapshot PROVE Credit'
  <2>1. \A s \in Scopes : Held(s)' => Held(s)
    BY <1>13 DEF SaveSnapshot, process, Held, Granted
  <2> QED BY <1>13, <2>1, CreditKept DEF SaveSnapshot
<1>14. ASSUME Crash \/ Shutdown PROVE Credit'
  <2>1. \A s \in Scopes : Held(s)' => Held(s)
    BY <1>14 DEF Crash, Dies, Shutdown, ProcessEnds, Held, Granted
  <2>2. UNCHANGED <<row, used, replayed>> BY <1>14 DEF Crash, Dies, Shutdown, ProcessEnds
  <2> QED BY <2>1, <2>2, CreditKept
<1>16. ASSUME RunFails PROVE Credit'
  <2>1. \A s \in Scopes : Held(s)' => Held(s)
    BY <1>16 DEF RunFails, process, history, Held, Granted
  <2> QED BY <1>16, <2>1, CreditKept DEF RunFails, history
<1>17. ASSUME ProcessEnds, UNCHANGED <<snapshot, stale>>
       PROVE  UNCHANGED <<used, replayed>> /\ \A s \in Scopes : Held(s)' => Held(s)
  BY <1>17 DEF ProcessEnds, Held, Granted
<1>18. ASSUME NEW rows \in SUBSET Rows, DiesEnding(rows) PROVE Credit'
  <2>1. \A q \in Rows : row'[q] = "approved" <=> row[q] = "approved"
    BY <1>18 DEF DiesEnding, TypeOK, Pending
  <2> QED BY <1>17, <1>18, <2>1, CreditKept DEF DiesEnding, Dies
<1>19. ASSUME NEW r \in Rows, DiesAsking(r) PROVE Credit'
  <2>1. \A q \in Rows : row'[q] = "approved" <=> row[q] = "approved"
    BY <1>19 DEF DiesAsking, TypeOK
  <2> QED BY <1>17, <1>19, <2>1, CreditKept DEF DiesAsking, Dies
<1>20. ASSUME NEW r \in Rows, row[r] # "approved", row' = [row EXCEPT ![r] = "approved"],
              ProcessEnds, UNCHANGED <<snapshot, stale>>
       PROVE  Credit'
  <2> SUFFICES ASSUME NEW s \in Scopes PROVE CreditOf(s)' BY DEF Credit
  <2>1. CreditOf(s) BY DEF Credit
  <2>2. Cardinality(Approved(s)') =
          IF s = Scope[r] THEN Cardinality(Approved(s)) + 1 ELSE Cardinality(Approved(s))
    BY <1>20, OneMoreApproved
  <2>3. UNCHANGED <<used, replayed>> /\ (Held(s)' => Held(s)) BY <1>17, <1>20
  <2>4. used[s] \in Nat /\ replayed[s] \in Nat /\ Cardinality(Approved(s)) \in Nat
    BY ApprovedFinite DEF TypeOK
  <2> QED BY <2>1, <2>2, <2>3, <2>4 DEF CreditOf
<1>21. ASSUME NEW r \in Rows, NEW d \in {"approved", "denied"}, DiesAnswering(r, d) PROVE Credit'
  <2>0. row[r] = "pending" BY <1>21 DEF DiesAnswering, Recoverable, TypeOK, Pending
  <2>1. CASE d = "approved" BY <1>20, <1>21, <2>0, <2>1 DEF DiesAnswering, Dies
  <2>2. CASE d = "denied"
    <3>1. \A q \in Rows : row'[q] = "approved" <=> row[q] = "approved"
      BY <1>21, <2>0, <2>2 DEF DiesAnswering, TypeOK
    <3> QED BY <1>17, <1>21, <3>1, CreditKept DEF DiesAnswering, Dies
  <2> QED BY <2>1, <2>2
<1>22. ASSUME NEW r \in Rows, DiesResuming(r) PROVE Credit'
  <2>1. row[r] = "pending" BY <1>22 DEF DiesResuming, Recoverable, Pending
  <2> QED BY <1>20, <1>22, <2>1 DEF DiesResuming
<1>15. ASSUME UNCHANGED vars PROVE Credit'
  <2>1. \A s \in Scopes : Held(s)' => Held(s)
    BY <1>15 DEF vars, database, process, history, Held, Granted
  <2> QED BY <1>15, <2>1, CreditKept DEF vars, database, history
<1> QED
  BY <1>1, <1>2, <1>3, <1>4, <1>5, <1>6, <1>7, <1>8, <1>9, <1>10, <1>11, <1>12, <1>13, <1>14,
     <1>15, <1>16, <1>18, <1>19, <1>21, <1>22 DEF Next

-----------------------------------------------------------------------------
(* The theorems. *)

(* The strengthened invariant holds in every reachable state. *)
THEOREM Inductive == Spec => []IInv
<1>1. Init => IInv BY InitInv
<1>2. IInv /\ [Next]_vars => IInv' BY TypeStep, HandedStep, CreditStep DEF IInv
<1> QED BY <1>1, <1>2, PTL DEF Spec

(* The variables keep their types; whoever waits, waits for an open row. *)
THEOREM TypeCorrect == Spec => []TypeOK
<1>1. IInv => TypeOK BY DEF IInv
<1> QED BY <1>1, Inductive, PTL

(* requestApproval(): no operation is let through twice on one answer. *)
THEOREM AnsweredAlways == Spec => []AnsweredBeforeUse
<1>1. IInv => AnsweredBeforeUse BY DEF IInv, Credit, CreditOf, AnsweredBeforeUse, Approved
<1> QED BY <1>1, Inductive, PTL

(* A settled row keeps its answer, whatever comes late. *)
LEMMA AnswerStep ==
  ASSUME TypeOK, [Next]_vars, NEW r \in Rows, row[r] \in {"approved", "denied"}
  PROVE  row'[r] = row[r]
BY DEF TypeOK, Pending, Next, vars, database, process, history, UsesGrant, GrantLapses, Asks,
       TimesOut, Decided, Respond, DenyRecovered, ApproveRecovered, Recoverable, StartQueued,
       ResumeInterrupted, UserResumes, TaskEnds, RunFails, SaveSnapshot, Becomes, Crash, Dies,
       DiesAnswering, DiesEnding, DiesAsking, DiesResuming, Shutdown, ProcessEnds

(* The timer, a second answer, the end of the task and a restart leave a    *)
(* settled row alone.                                                       *)
THEOREM AnswerFinalAlways == Spec => AnswerIsFinal
<1>1. TypeOK /\ [Next]_vars =>
        [\A r \in Rows : row[r] \in {"approved", "denied"} => row'[r] = row[r]]_vars
  BY AnswerStep
<1> QED BY <1>1, TypeCorrect, PTL DEF Spec, AnswerIsFinal
=============================================================================
