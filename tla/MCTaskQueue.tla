----------------------------- MODULE MCTaskQueue -----------------------------
(* Instances of TaskQueue for TLC.                                         *)
EXTENDS TaskQueue, TLC

CONSTANTS t1, t2, t3, t4, p1, p2

\* t1 and t3 are requests for the same work.
Keys == [t \in Task |-> IF t = t3 THEN t1 ELSE t]

\* t2 waits for t1, and t3 and t4 for each other.
ChainAndLoop == [t \in Task |-> CASE t = t2 -> {t1} [] t = t3 -> {t4} [] t = t4 -> {t3}
                              [] OTHER -> {}]
\* t2 waits for t1.
Chain == [t \in Task |-> IF t = t2 THEN {t1} ELSE {}]

TwoSteps == [t \in Task |-> IF t = t1 THEN 2 ELSE 1]
\* The second request for the same work may be the more urgent one.
Ranks == [t \in Task |-> IF t = t3 THEN {1, 2} ELSE {1}]
OneRank == [t \in Task |-> {1}]
Processes == Permutations(Proc)
=============================================================================
