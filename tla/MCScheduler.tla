---------------------------- MODULE MCScheduler ----------------------------
(* Scheduler with up to two events of known types and one of an unknown     *)
(* type (x), two executions of the cron job and a clock of three seconds.   *)
EXTENDS Scheduler, TLC

CONSTANTS e1, e2, x, r1, r2

\* Executions of the cron job are interchangeable.
RunSymmetry == Permutations(Run)
=============================================================================
