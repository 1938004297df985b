---------------------------- MODULE MCScheduler ----------------------------
(* Bounds for TLC. Sleeps of 0, 1 and 3 ticks: due before and at the next  *)
(* tick, and long enough that the threads that run in turn all sleep at    *)
(* once and the idle thread gets the CPU.                                  *)
EXTENDS Scheduler

MCSleepTimes == {0, 1, 3}
=============================================================================
