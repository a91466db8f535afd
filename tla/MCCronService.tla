--------------------------- MODULE MCCronService ---------------------------
(* A recurring job and a one-shot. *)
EXTENDS CronService
CONSTANTS daily, once
MCJobs == {daily, once}
=============================================================================
