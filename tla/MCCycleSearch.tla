---------------------------- MODULE MCCycleSearch ----------------------------
(* Every graph over a few rows and a missing id, for TLC.                  *)
EXTENDS CycleSearch, TLC

Rows == Permutations(Node)
=============================================================================
