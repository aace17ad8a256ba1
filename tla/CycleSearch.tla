----------------------------- MODULE CycleSearch -----------------------------
(***************************************************************************)
(* The search for dependency loops inside                                  *)
(* resolve_dependencies_and_detect_cycles (src/paa_os/task_db.py:735-756): *)
(* a three-colour depth-first search from every BLOCKED_DEPENDENCY row,    *)
(* one action per step of its loops.  The rows and the dependencies of a   *)
(* row are visited in any order, which covers every order of the table and *)
(* of the JSON lists.                                                      *)
(***************************************************************************)
EXTENDS Integers, Sequences, FiniteSets

CONSTANTS
  Node,     \* task ids of the table, the keys of dep_map
  Missing   \* ids that dependencies name and the table does not hold

ASSUME CycleAssumption ==
  Node \cap Missing = {} /\ IsFiniteSet(Node) /\ IsFiniteSet(Missing)

VARIABLES
  deps,      \* dep_map
  blocked,   \* rows whose state_map entry is BLOCKED_DEPENDENCY
  color,     \* 0 unvisited, 1 visiting, 2 done
  stack,     \* the nodes being visited, outermost first
  rest,      \* per visited node: dependencies its loop has not looked at
  inCycle    \* in_cycle

vars == <<deps, blocked, color, stack, rest, inCycle>>

Init ==
  /\ deps \in [Node -> SUBSET (Node \cup Missing)]
  /\ blocked \in SUBSET Node
  /\ color = [n \in Node |-> 0]
  /\ stack = <<>>
  /\ rest = [n \in Node |-> {}]
  /\ inCycle = {}

Top == stack[Len(stack)]

\* _dfs(n, stack) begins.
Visit(n) ==
  /\ color' = [color EXCEPT ![n] = 1]
  /\ stack' = Append(stack, n)

StartAt(n) ==
  /\ stack = <<>>
  /\ n \in blocked /\ color[n] = 0
  /\ Visit(n)
  /\ rest' = [rest EXCEPT ![n] = deps[n]]
  /\ UNCHANGED <<deps, blocked, inCycle>>

Indices(n) == {i \in 1 .. Len(stack) : stack[i] = n}

\* Mutant: the whole stack is reported, its lead-in included.
WholeStack(d) == {stack[i] : i \in 1 .. Len(stack)}

\* stack[stack.index(d):]
Suffix(d) == {stack[i] : i \in {j \in 1 .. Len(stack) : \E k \in Indices(d) : k <= j}}

\* Mutant: the colour is not looked at.
FreshAny(d) == d \in Node

\* Mutant: an id that the table does not hold is visited.
FreshOrMissing(d) == d \in Node => color[d] = 0

Fresh(d) == d \in Node /\ color[d] = 0

\* Mutant: a dependency of a task on itself is not a loop.
VisitingOther(d) == d \in Node /\ d # Top /\ color[d] = 1

Visiting(d) == d \in Node /\ color[d] = 1

CloseCycle(d) ==
  /\ Visiting(d)
  /\ inCycle' = inCycle \cup (IF Indices(d) # {} THEN Suffix(d) ELSE {Top})
  /\ rest' = [rest EXCEPT ![Top] = @ \ {d}]
  /\ UNCHANGED <<deps, blocked, color, stack>>

Descend(d) ==
  /\ Fresh(d)
  /\ Visit(d)
  /\ rest' = [rest EXCEPT ![Top] = @ \ {d}, ![d] = deps[d]]
  /\ UNCHANGED <<deps, blocked, inCycle>>

PassOver(d) ==
  /\ ~ Visiting(d) /\ ~ Fresh(d)
  /\ rest' = [rest EXCEPT ![Top] = @ \ {d}]
  /\ UNCHANGED <<deps, blocked, color, stack, inCycle>>

Examine ==
  /\ stack # <<>>
  /\ \E d \in rest[Top] : CloseCycle(d) \/ Descend(d) \/ PassOver(d)

\* Mutant: a node that was left looks unvisited.
Unmarked == 0

Done == 2

Leave ==
  /\ stack # <<>> /\ rest[Top] = {}
  /\ color' = [color EXCEPT ![Top] = Done]
  /\ stack' = SubSeq(stack, 1, Len(stack) - 1)
  /\ UNCHANGED <<deps, blocked, rest, inCycle>>

Next == (\E n \in Node : StartAt(n)) \/ Examine \/ Leave

Spec == Init /\ [][Next]_vars

Finished == stack = <<>> /\ \A n \in blocked : color[n] = 2

-----------------------------------------------------------------------------

TypeOK ==
  /\ deps \in [Node -> SUBSET (Node \cup Missing)]
  /\ blocked \subseteq Node
  /\ color \in [Node -> 0 .. 2]
  /\ stack \in Seq(Node)
  /\ rest \in [Node -> SUBSET (Node \cup Missing)]
  /\ inCycle \subseteq Node

\* A node is on the stack, once, exactly while it is being visited: the branch
\* "nxt not in stack" of line 748 is never taken and .index() is unambiguous.
StackIsVisiting ==
  \A n \in Node : Cardinality(Indices(n)) = IF color[n] = 1 THEN 1 ELSE 0

Loops == INSTANCE DependencyLoops WITH Row <- Node, Dep <- deps

\* Whole loops are reported, at every moment of the search, and a task that
\* merely waits for a loop is never reported as part of one.
ReportsAreLoops == Loops!SelfSustained(inCycle) /\ \A n \in inCycle : Loops!Reaches(n, n)

\* When the search ends every loop that a blocked row can reach has a reported
\* member, whichever rows and dependencies it happened to visit first, and
\* nothing out of reach is reported.  This is what TaskQueue takes the search for.
EveryLoopIsTouched == Finished => inCycle \in Loops!Reports(blocked)

\* What the search may still do: begin a node, leave it, look at one of its
\* dependencies.
Unbegun == {n \in Node : color[n] = 0}
Unleft == {n \in Node : color[n] # 2}
Ahead(n) == CASE color[n] = 0 -> deps[n] [] color[n] = 1 -> rest[n] [] OTHER -> {}
Unseen == {e \in Node \X (Node \cup Missing) : e[2] \in Ahead(e[1])}

WorkLeft == Cardinality(Unbegun) + Cardinality(Unleft) + Cardinality(Unseen)

\* Every step leaves less to do, so a transaction of the monitor never spins on
\* a loop: it takes at most two steps per row and one per dependency.
SearchEnds == [][WorkLeft' < WorkLeft]_vars
=============================================================================
