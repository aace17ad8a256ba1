--------------------------- MODULE MCExecutionLock ---------------------------
(* Instances of ExecutionLock for TLC.                                     *)
EXTENDS ExecutionLock

\* The lock of the release lives half as long as the one of the cycle.
CycleTwice == [l \in LockName |-> IF l = "director_cycle" THEN 4 ELSE 2]
=============================================================================
