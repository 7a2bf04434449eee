---------------------------- MODULE MCScheduler ----------------------------
(* Instances of Scheduler for TLC.                                         *)
EXTENDS Scheduler

(* What the words copy_process leaves unset hold: zero in memory that was  *)
(* never used, anything that matters to the code in a reused page.         *)
FreshMemory == {0}
ReusedMemory == {0, 1}
=============================================================================
