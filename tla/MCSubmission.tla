---------------------------- MODULE MCSubmission ----------------------------
(* An instance of Submission for TLC: three slots for process groups, two  *)
(* for the validators of a run and one for what an earlier run left.       *)
EXTENDS Submission

MCLaunches == 1..3
=============================================================================
