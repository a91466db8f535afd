----------------------------- MODULE MCApprovals -----------------------------
(* Three requests for one operation and one for another. *)
EXTENDS Approvals

MCScope == [r \in Rows |-> IF r = 4 THEN "other" ELSE "same"]
=============================================================================
