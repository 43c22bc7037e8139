------------------------------ MODULE MCSched ------------------------------
(* Three tasks: enough for one to run, one to wait its turn in the running *)
(* queue and one to sleep, be woken or be dead at the same time.           *)
EXTENDS Sched

CONSTANTS a, b, c

TheTasks == {a, b, c}
=============================================================================
