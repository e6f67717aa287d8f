----------------------------- MODULE MCScheduler -----------------------------
(* Constants of the runs of Scheduler.                                     *)
EXTENDS Scheduler

MCPrio == {-1, 0}
MCIdlePrio == -9
=============================================================================
