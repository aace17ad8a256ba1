--------------------------- MODULE DependencyLoops ---------------------------
(***************************************************************************)
(* What the search of resolve_dependencies_and_detect_cycles               *)
(* (src/paa_os/task_db.py:735-758) may answer, as a set of answers: the    *)
(* rows of intertwined loops that it reports depend on the order of the    *)
(* table.  TaskQueue takes any member of Reports; CycleSearch computes one.*)
(***************************************************************************)
CONSTANTS
  Row,   \* the rows of the table
  Dep    \* of each row, the ids it depends on, rows or not

Closed(S) == \A x \in S : Dep[x] \cap Row \subseteq S

\* u can be reached from t along the dependencies of existing rows.
Reaches(t, u) ==
  \A S \in SUBSET Row : Dep[t] \cap Row \subseteq S /\ Closed(S) => u \in S

\* What the search visits when it begins at the roots.
Searched(roots) ==
  {u \in Row : \A S \in SUBSET Row : roots \subseteq S /\ Closed(S) => u \in S}

\* Every member depends on a member, so a non-empty such set holds a loop.
SelfSustained(K) == \A x \in K : Dep[x] \cap K # {}

\* Members of loops only, and at least one member of every loop searched.
Reports(roots) ==
  {C \in SUBSET Searched(roots) :
     /\ SelfSustained(C) /\ \A x \in C : Reaches(x, x)
     /\ \A K \in SUBSET (Searched(roots) \ C) : SelfSustained(K) => K = {}}
=============================================================================
