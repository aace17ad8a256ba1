-------------------------- MODULE CycleSearchProofs --------------------------
(***************************************************************************)
(* The search for dependency loops is correct for every table, every       *)
(* dependency graph and every order of visits: it reports whole loops      *)
(* only, and something of every loop that a blocked row waits for.         *)
(* What an induction over a path would give, the invariants below carry    *)
(* along with the search.                                                  *)
(***************************************************************************)
EXTENDS CycleSearch, FiniteSetTheorems, SequenceTheorems, TLAPS

-----------------------------------------------------------------------------
(* The stack.                                                              *)

\* The nodes being visited are those on the stack, each of them once.
StackOnce ==
  /\ \A i, j \in 1 .. Len(stack) : stack[i] = stack[j] => i = j
  /\ \A n \in Node : color[n] = 1 <=> \E i \in 1 .. Len(stack) : stack[i] = n

StackInv == TypeOK /\ StackOnce

LEMMA TopIsLast ==
  ASSUME TypeOK, stack # <<>>
  PROVE  Len(stack) \in Nat \ {0} /\ Len(stack) \in 1 .. Len(stack) /\ Top \in Node
<1>1. Len(stack) \in Nat \ {0}
  BY DEF TypeOK
<1>2. QED
  BY <1>1 DEF TypeOK, Top

\* A visit pushes an unvisited node.
LEMMA Pushed ==
  ASSUME TypeOK, NEW n \in Node, Visit(n)
  PROVE  /\ stack' \in Seq(Node)
         /\ Len(stack') = Len(stack) + 1
         /\ \A i \in 1 .. Len(stack) : stack'[i] = stack[i]
         /\ stack'[Len(stack) + 1] = n
BY AppendProperties DEF TypeOK, Visit

\* Cutting off the last element of a sequence keeps the others where they are.
LEMMA AllButLast ==
  ASSUME NEW S, NEW s \in Seq(S), s # <<>>
  PROVE  /\ SubSeq(s, 1, Len(s) - 1) \in Seq(S)
         /\ Len(SubSeq(s, 1, Len(s) - 1)) = Len(s) - 1
         /\ \A i \in 1 .. Len(s) - 1 : SubSeq(s, 1, Len(s) - 1)[i] = s[i]
<1>1. Len(s) \in Nat \ {0}
  OBVIOUS
<1>2. \A i \in 1 .. Len(s) - 1 : s[i] \in S
  BY <1>1
<1>3. PICK m \in Int, n \in Int : m = 1 /\ n = Len(s) - 1
  BY <1>1
<1>4. \A i \in m .. n : s[i] \in S
  BY <1>2, <1>3
<1>5. /\ SubSeq(s, m, n) \in Seq(S)
      /\ Len(SubSeq(s, m, n)) = IF m <= n THEN n - m + 1 ELSE 0
      /\ \A i \in 1 .. n - m + 1 : SubSeq(s, m, n)[i] = s[m + i - 1]
  BY <1>4, SubSeqProperties
<1>6. n - m + 1 = n /\ n \in Nat
  BY <1>1, <1>3
<1>7. \A i \in 1 .. n : s[m + i - 1] = s[i]
  <2>1. \A i \in 1 .. n : m + i - 1 = i
    BY <1>3
  <2>2. QED
    BY <2>1
<1>8. QED
  BY <1>1, <1>3, <1>5, <1>6, <1>7

\* A node that is left is popped.
LEMMA Popped ==
  ASSUME TypeOK, Leave
  PROVE  /\ stack' \in Seq(Node)
         /\ Len(stack') = Len(stack) - 1
         /\ \A i \in 1 .. Len(stack) - 1 : stack'[i] = stack[i]
BY AllButLast DEF Leave, TypeOK

LEMMA StackInit == Init => StackInv
BY CycleAssumption DEF Init, StackInv, StackOnce, TypeOK

LEMMA StackStep == StackInv /\ [Next]_vars => StackInv'
<1> SUFFICES ASSUME StackInv, [Next]_vars PROVE StackInv'
  OBVIOUS
<1>1. ASSUME NEW n \in Node, Visit(n), color[n] = 0
      PROVE  color' \in [Node -> 0 .. 2] /\ stack' \in Seq(Node) /\ StackOnce'
  <2>1. /\ Len(stack) \in Nat /\ stack' \in Seq(Node)
        /\ Len(stack') = Len(stack) + 1
        /\ \A i \in 1 .. Len(stack) : stack'[i] = stack[i]
        /\ stack'[Len(stack) + 1] = n
    BY <1>1, Pushed DEF StackInv, TypeOK
  <2>2. color' = [color EXCEPT ![n] = 1]
    BY <1>1 DEF Visit
  <2>3. \A i \in 1 .. Len(stack) : stack[i] # n
    BY <1>1 DEF StackInv, StackOnce
  <2>4. \A i \in 1 .. Len(stack') : i \in 1 .. Len(stack) \/ i = Len(stack) + 1
    BY <2>1
  <2>5. \A i, j \in 1 .. Len(stack') : stack'[i] = stack'[j] => i = j
    BY <2>1, <2>3, <2>4 DEF StackInv, StackOnce
  <2>6. ASSUME NEW m \in Node PROVE color'[m] = 1 <=> \E i \in 1 .. Len(stack') : stack'[i] = m
    <3>1. CASE m = n
      <4>1. Len(stack) + 1 \in 1 .. Len(stack')
        BY <2>1
      <4>2. QED
        BY <2>1, <2>2, <3>1, <4>1 DEF StackInv, TypeOK
    <3>2. CASE m # n
      <4>1. color'[m] = color[m]
        BY <2>2, <3>2 DEF StackInv, TypeOK
      <4>2. (\E i \in 1 .. Len(stack) : stack[i] = m) => \E i \in 1 .. Len(stack') : stack'[i] = m
        BY <2>1
      <4>3. (\E i \in 1 .. Len(stack') : stack'[i] = m) => \E i \in 1 .. Len(stack) : stack[i] = m
        BY <2>1, <2>4, <3>2
      <4>4. QED
        BY <4>1, <4>2, <4>3 DEF StackInv, StackOnce
    <3>3. QED
      BY <3>1, <3>2
  <2>7. QED
    BY <2>1, <2>2, <2>5, <2>6 DEF StackInv, TypeOK, StackOnce
<1>2. ASSUME NEW n \in Node, StartAt(n) PROVE StackInv'
  BY <1>1, <1>2 DEF StartAt, StackInv, TypeOK
<1>3. ASSUME Examine PROVE StackInv'
  <2>1. Top \in Node
    BY <1>3, TopIsLast DEF Examine, StackInv
  <2>2. PICK d \in rest[Top] : CloseCycle(d) \/ Descend(d) \/ PassOver(d)
    BY <1>3 DEF Examine
  <2>3. CASE CloseCycle(d)
    <3>1. Suffix(d) \subseteq Node
      BY DEF Suffix, StackInv, TypeOK
    <3>2. inCycle' \subseteq Node /\ rest' \in [Node -> SUBSET (Node \cup Missing)]
      BY <2>1, <2>3, <3>1 DEF CloseCycle, StackInv, TypeOK
    <3>3. QED
      BY <2>3, <3>2 DEF CloseCycle, StackInv, TypeOK, StackOnce
  <2>4. CASE Descend(d)
    <3>1. d \in Node /\ color[d] = 0 /\ Visit(d)
      BY <2>4 DEF Descend, Fresh
    <3>2. rest' \in [Node -> SUBSET (Node \cup Missing)]
      BY <2>1, <2>4, <3>1 DEF Descend, StackInv, TypeOK
    <3>3. QED
      BY <1>1, <2>4, <3>1, <3>2 DEF Descend, StackInv, TypeOK
  <2>5. CASE PassOver(d)
    <3>1. rest' \in [Node -> SUBSET (Node \cup Missing)]
      BY <2>1, <2>5 DEF PassOver, StackInv, TypeOK
    <3>2. QED
      BY <2>5, <3>1 DEF PassOver, StackInv, TypeOK, StackOnce
  <2>6. QED
    BY <2>2, <2>3, <2>4, <2>5
<1>4. ASSUME Leave PROVE StackInv'
  <2>1. /\ Len(stack) \in Nat \ {0} /\ Len(stack) \in 1 .. Len(stack) /\ Top \in Node
        /\ Top = stack[Len(stack)]
    BY <1>4, TopIsLast DEF Leave, StackInv, Top
  <2>2. /\ stack' \in Seq(Node)
        /\ Len(stack') = Len(stack) - 1
        /\ \A i \in 1 .. Len(stack) - 1 : stack'[i] = stack[i]
    BY <1>4, Popped DEF StackInv
  <2>3. color' = [color EXCEPT ![Top] = 2]
    BY <1>4 DEF Leave, Done
  <2>4. \A i \in 1 .. Len(stack') : i \in 1 .. Len(stack) /\ i # Len(stack) /\ stack'[i] = stack[i]
    BY <2>1, <2>2
  <2>5. \A i, j \in 1 .. Len(stack') : stack'[i] = stack'[j] => i = j
    BY <2>4 DEF StackInv, StackOnce
  <2>6. ASSUME NEW m \in Node PROVE color'[m] = 1 <=> \E i \in 1 .. Len(stack') : stack'[i] = m
    <3>1. CASE m = Top
      <4>1. \A i \in 1 .. Len(stack') : stack'[i] # Top
        BY <2>1, <2>4 DEF StackInv, StackOnce
      <4>2. QED
        BY <2>1, <2>3, <3>1, <4>1 DEF StackInv, TypeOK
    <3>2. CASE m # Top
      <4>1. color'[m] = color[m]
        BY <2>3, <3>2 DEF StackInv, TypeOK
      <4>2. \A i \in 1 .. Len(stack) : stack[i] = m => i \in 1 .. Len(stack')
        BY <2>1, <2>2, <3>2
      <4>3. QED
        BY <2>4, <4>1, <4>2 DEF StackInv, StackOnce
    <3>3. QED
      BY <3>1, <3>2
  <2>7. QED
    BY <1>4, <2>1, <2>2, <2>3, <2>5, <2>6 DEF Leave, StackInv, TypeOK, StackOnce
<1>5. CASE UNCHANGED vars
  BY <1>5 DEF vars, StackInv, TypeOK, StackOnce
<1>6. QED
  BY <1>2, <1>3, <1>4, <1>5 DEF Next

\* The variables of the search keep their types: no id that the table does not
\* hold is ever visited or reported.
THEOREM TypeCorrect == Spec => []TypeOK
<1>1. StackInv => TypeOK
  BY DEF StackInv
<1>2. QED
  BY <1>1, StackInit, StackStep, PTL DEF Spec

\* A node is on the stack exactly once while it is visited, and never otherwise.
THEOREM StackHoldsVisiting == Spec => []StackIsVisiting
<1>1. StackInv => StackIsVisiting
  <2> SUFFICES ASSUME StackInv, NEW n \in Node
               PROVE  Cardinality(Indices(n)) = IF color[n] = 1 THEN 1 ELSE 0
    BY DEF StackIsVisiting
  <2>1. CASE color[n] = 1
    <3>1. PICK i \in 1 .. Len(stack) : stack[i] = n
      BY <2>1 DEF StackInv, StackOnce
    <3>2. Indices(n) = {i}
      BY <3>1 DEF Indices, StackInv, StackOnce
    <3>3. QED
      BY <2>1, <3>2, FS_Singleton
  <2>2. CASE color[n] # 1
    <3>1. Indices(n) = {}
      BY <2>2 DEF Indices, StackInv, StackOnce
    <3>2. QED
      BY <2>2, <3>1, FS_EmptySet
  <2>3. QED
    BY <2>1, <2>2
<1>2. QED
  BY <1>1, StackInit, StackStep, PTL DEF Spec

-----------------------------------------------------------------------------
(* The reports.                                                            *)

LEMMA DependencyIsReached ==
  ASSUME NEW m \in Node, NEW n \in Node, n \in deps[m]
  PROVE  Loops!Reaches(m, n)
BY DEF Loops!Reaches, Loops!Closed

LEMMA ReachesOn ==
  ASSUME NEW l \in Node, NEW m \in Node, NEW n \in Node, Loops!Reaches(l, m), Loops!Reaches(m, n)
  PROVE  Loops!Reaches(l, n)
BY DEF Loops!Reaches, Loops!Closed

\* The stack is a path along dependencies, and every node on it reaches those
\* after it.
PathInv ==
  /\ \A i \in 1 .. Len(stack) : i < Len(stack) => stack[i + 1] \in deps[stack[i]]
  /\ \A i, j \in 1 .. Len(stack) : i < j => Loops!Reaches(stack[i], stack[j])
  /\ \A n \in Node : rest[n] \subseteq deps[n]

LoopInv == StackInv /\ PathInv /\ ReportsAreLoops

\* A dependency that is being visited closes a loop, and what is reported is
\* that loop, from the node to the top of the stack.
LEMMA ClosedLoop ==
  ASSUME StackInv, PathInv, stack # <<>>, NEW d \in rest[Top], Visiting(d)
  PROVE  /\ Indices(d) # {}
         /\ Loops!SelfSustained(Suffix(d))
         /\ \A n \in Suffix(d) : Loops!Reaches(n, n)
<1> DEFINE L == Len(stack)
<1>1. /\ L \in Nat /\ L \in 1 .. L /\ Top \in Node /\ Top = stack[L]
      /\ \A i \in 1 .. L : stack[i] \in Node
  BY TopIsLast DEF StackInv, TypeOK, Top
<1>2. d \in Node /\ d \in deps[Top]
  BY <1>1 DEF Visiting, PathInv
<1>3. PICK k \in 1 .. L : stack[k] = d
  BY <1>2 DEF Visiting, StackInv, StackOnce
<1>4. Indices(d) = {k}
  BY <1>3 DEF Indices, StackInv, StackOnce
<1>5. \A n : n \in Suffix(d) <=> \E i \in 1 .. L : k <= i /\ n = stack[i]
  BY <1>4 DEF Suffix
<1>6. Loops!SelfSustained(Suffix(d))
  <2> SUFFICES ASSUME NEW i \in 1 .. L, k <= i
               PROVE  deps[stack[i]] \cap Suffix(d) # {}
    BY <1>5 DEF Loops!SelfSustained
  <2>1. CASE i = L
    <3>1. d \in Suffix(d)
      BY <1>3, <1>5
    <3>2. QED
      BY <1>1, <1>2, <2>1, <3>1
  <2>2. CASE i # L
    <3>1. i < L /\ i + 1 \in 1 .. L /\ k <= i + 1
      BY <1>1, <2>2
    <3>2. stack[i + 1] \in Suffix(d)
      BY <1>5, <3>1
    <3>3. stack[i + 1] \in deps[stack[i]]
      BY <3>1 DEF PathInv
    <3>4. QED
      BY <3>2, <3>3
  <2>3. QED
    BY <2>1, <2>2
<1>7. ASSUME NEW i \in 1 .. L, k <= i PROVE Loops!Reaches(stack[i], stack[i])
  <2>1. Loops!Reaches(Top, d)
    BY <1>1, <1>2, DependencyIsReached
  <2>2. Loops!Reaches(stack[i], d)
    <3>1. CASE i = L
      BY <1>1, <2>1, <3>1
    <3>2. CASE i # L
      <4>1. Loops!Reaches(stack[i], Top)
        BY <1>1, <3>2 DEF PathInv
      <4>2. QED
        BY <1>1, <1>2, <2>1, <4>1, ReachesOn
    <3>3. QED
      BY <3>1, <3>2
  <2>3. Loops!Reaches(stack[i], stack[i])
    <3>1. CASE i = k
      BY <1>3, <2>2, <3>1
    <3>2. CASE i # k
      <4>1. Loops!Reaches(d, stack[i])
        BY <1>1, <1>3, <1>7, <3>2 DEF PathInv
      <4>2. QED
        BY <1>1, <1>2, <2>2, <4>1, ReachesOn
    <3>3. QED
      BY <3>1, <3>2
  <2>4. QED
    BY <2>3 DEF Loops!Reaches, Loops!Closed
<1>8. QED
  BY <1>3, <1>4, <1>5, <1>6, <1>7

\* A visit to a dependency of the top prolongs the path.
LEMMA PathGrows ==
  ASSUME StackInv, PathInv, NEW n \in Node, Visit(n), deps' = deps,
         stack # <<>> => n \in deps[Top]
  PROVE  /\ \A i \in 1 .. Len(stack') : i < Len(stack') => stack'[i + 1] \in deps'[stack'[i]]
         /\ \A i, j \in 1 .. Len(stack') : i < j => Loops!Reaches(stack[i], stack[j])'
<1> DEFINE L == Len(stack)
<1>1. /\ L \in Nat /\ Len(stack') = L + 1 /\ stack'[L + 1] = n
      /\ \A i \in 1 .. L : stack'[i] = stack[i] /\ stack[i] \in Node
  BY Pushed DEF StackInv, TypeOK
<1>2. ASSUME NEW i \in 1 .. L PROVE L \in 1 .. L /\ Top = stack[L] /\ n \in deps[Top]
  BY <1>1, <1>2 DEF Top
<1>3. ASSUME NEW i \in 1 .. L + 1, i < L + 1 PROVE stack'[i + 1] \in deps[stack'[i]]
  <2>1. i \in 1 .. L
    BY <1>1, <1>3
  <2>2. CASE i = L
    BY <1>1, <1>2, <2>1, <2>2
  <2>3. CASE i # L
    <3>1. i < L /\ i + 1 \in 1 .. L
      BY <1>1, <2>1, <2>3
    <3>2. QED
      BY <1>1, <2>1, <3>1 DEF PathInv
  <2>4. QED
    BY <2>2, <2>3
<1>4. ASSUME NEW i \in 1 .. L + 1, NEW j \in 1 .. L + 1, i < j PROVE Loops!Reaches(stack'[i], stack'[j])
  <2>1. i \in 1 .. L
    BY <1>1, <1>4
  <2>2. CASE j = L + 1
    <3>1. Loops!Reaches(stack[L], n)
      BY <1>1, <1>2, <2>1, DependencyIsReached
    <3>2. CASE i = L
      BY <1>1, <2>1, <2>2, <3>1, <3>2
    <3>3. CASE i # L
      <4>1. Loops!Reaches(stack[i], stack[L])
        BY <1>1, <1>2, <2>1, <3>3 DEF PathInv
      <4>2. Loops!Reaches(stack[i], n)
        BY <1>1, <1>2, <2>1, <3>1, <4>1, ReachesOn
      <4>3. QED
        BY <1>1, <2>1, <2>2, <4>2
    <3>4. QED
      BY <3>2, <3>3
  <2>3. CASE j # L + 1
    <3>1. j \in 1 .. L
      BY <1>1, <2>3
    <3>2. QED
      BY <1>1, <1>4, <2>1, <3>1 DEF PathInv
  <2>4. QED
    BY <2>2, <2>3
<1>5. QED
  BY <1>1, <1>3, <1>4 DEF Loops!Reaches, Loops!Closed

LEMMA LoopInit == Init => LoopInv
<1> SUFFICES ASSUME Init PROVE LoopInv
  OBVIOUS
<1>1. StackInv
  BY StackInit
<1>2. PathInv /\ ReportsAreLoops
  BY DEF Init, PathInv, ReportsAreLoops, Loops!SelfSustained
<1>3. QED
  BY <1>1, <1>2 DEF LoopInv

LEMMA LoopStep == LoopInv /\ [Next]_vars => LoopInv'
<1> SUFFICES ASSUME LoopInv, [Next]_vars PROVE LoopInv'
  OBVIOUS
<1>s. StackInv'
  BY StackStep DEF LoopInv
<1>1. deps' = deps
  BY DEF Next, StartAt, Examine, CloseCycle, Descend, PassOver, Leave, vars
<1>2. ASSUME stack' = stack PROVE \A i, j \in 1 .. Len(stack') :
               /\ i < Len(stack') => stack'[i + 1] \in deps'[stack'[i]]
               /\ i < j => Loops!Reaches(stack[i], stack[j])'
  BY <1>1, <1>2 DEF LoopInv, PathInv, Loops!Reaches, Loops!Closed
<1>3. ASSUME inCycle' = inCycle PROVE ReportsAreLoops'
  BY <1>1, <1>3 DEF LoopInv, ReportsAreLoops, Loops!SelfSustained, Loops!Reaches, Loops!Closed
<1>4. ASSUME NEW n \in Node, StartAt(n) PROVE PathInv' /\ ReportsAreLoops'
  <2>1. Visit(n) /\ stack = <<>> /\ inCycle' = inCycle /\ rest' = [rest EXCEPT ![n] = deps[n]]
    BY <1>4 DEF StartAt
  <2>2. \A m \in Node : rest'[m] \subseteq deps'[m]
    BY <1>1, <2>1 DEF LoopInv, PathInv, StackInv, TypeOK
  <2>3. QED
    BY <1>1, <1>3, <2>1, <2>2, PathGrows DEF LoopInv, PathInv
<1>5. ASSUME Examine PROVE PathInv' /\ ReportsAreLoops'
  <2>1. Top \in Node /\ stack # <<>>
    BY <1>5, TopIsLast DEF Examine, LoopInv, StackInv
  <2>2. PICK d \in rest[Top] : CloseCycle(d) \/ Descend(d) \/ PassOver(d)
    BY <1>5 DEF Examine
  <2>3. d \in deps[Top]
    BY <2>1, <2>2 DEF LoopInv, PathInv
  <2>4. CASE CloseCycle(d)
    <3>1. Visiting(d) /\ stack' = stack /\ rest' = [rest EXCEPT ![Top] = @ \ {d}]
      BY <2>4 DEF CloseCycle
    <3>2. /\ Indices(d) # {} /\ Loops!SelfSustained(Suffix(d)) /\ \A n \in Suffix(d) : Loops!Reaches(n, n)
      BY <2>1, <2>2, <3>1, ClosedLoop DEF LoopInv
    <3>3. inCycle' = inCycle \cup Suffix(d)
      BY <2>4, <3>2 DEF CloseCycle
    <3>4. ReportsAreLoops'
      BY <1>1, <3>2, <3>3 DEF LoopInv, ReportsAreLoops, Loops!SelfSustained, Loops!Reaches, Loops!Closed
    <3>5. \A m \in Node : rest'[m] \subseteq deps'[m]
      BY <1>1, <2>1, <3>1 DEF LoopInv, PathInv, StackInv, TypeOK
    <3>6. QED
      BY <1>2, <3>1, <3>4, <3>5 DEF PathInv
  <2>5. CASE Descend(d)
    <3>1. /\ d \in Node /\ Visit(d) /\ inCycle' = inCycle
          /\ rest' = [rest EXCEPT ![Top] = @ \ {d}, ![d] = deps[d]]
      BY <2>5 DEF Descend, Fresh
    <3>2. \A m \in Node : rest'[m] \subseteq deps'[m]
      BY <1>1, <2>1, <3>1 DEF LoopInv, PathInv, StackInv, TypeOK
    <3>3. QED
      BY <1>1, <1>3, <2>3, <3>1, <3>2, PathGrows DEF LoopInv, PathInv
  <2>6. CASE PassOver(d)
    <3>1. stack' = stack /\ inCycle' = inCycle /\ rest' = [rest EXCEPT ![Top] = @ \ {d}]
      BY <2>6 DEF PassOver
    <3>2. \A m \in Node : rest'[m] \subseteq deps'[m]
      BY <1>1, <2>1, <3>1 DEF LoopInv, PathInv, StackInv, TypeOK
    <3>3. QED
      BY <1>2, <1>3, <3>1, <3>2 DEF PathInv
  <2>7. QED
    BY <2>2, <2>4, <2>5, <2>6
<1>6. ASSUME Leave PROVE PathInv' /\ ReportsAreLoops'
  <2>1. Len(stack) \in Nat \ {0}
    BY <1>6, TopIsLast DEF Leave, LoopInv, StackInv
  <2>2. /\ Len(stack') = Len(stack) - 1
        /\ \A i \in 1 .. Len(stack) - 1 : stack'[i] = stack[i]
    BY <1>6, Popped DEF LoopInv, StackInv
  <2>3. rest' = rest /\ inCycle' = inCycle
    BY <1>6 DEF Leave
  <2>4. ASSUME NEW i \in 1 .. Len(stack'), i < Len(stack') PROVE stack'[i + 1] \in deps'[stack'[i]]
    <3>1. i \in 1 .. Len(stack) - 1 /\ i + 1 \in 1 .. Len(stack) - 1 /\ i < Len(stack) /\ i \in 1 .. Len(stack)
      BY <2>1, <2>2, <2>4
    <3>2. QED
      BY <1>1, <2>2, <3>1 DEF LoopInv, PathInv
  <2>5. ASSUME NEW i \in 1 .. Len(stack'), NEW j \in 1 .. Len(stack'), i < j
        PROVE  Loops!Reaches(stack[i], stack[j])'
    <3>1. i \in 1 .. Len(stack) /\ j \in 1 .. Len(stack) /\ stack'[i] = stack[i] /\ stack'[j] = stack[j]
      BY <2>1, <2>2
    <3>2. Loops!Reaches(stack[i], stack[j])
      BY <2>5, <3>1 DEF LoopInv, PathInv
    <3>3. QED
      BY <1>1, <3>1, <3>2 DEF Loops!Reaches, Loops!Closed
  <2>6. QED
    BY <1>1, <1>3, <2>3, <2>4, <2>5 DEF LoopInv, PathInv
<1>7. CASE UNCHANGED vars
  <2>1. stack' = stack /\ rest' = rest /\ inCycle' = inCycle
    BY <1>7 DEF vars
  <2>2. \A m \in Node : rest'[m] \subseteq deps'[m]
    BY <1>1, <2>1 DEF LoopInv, PathInv
  <2>3. PathInv' /\ ReportsAreLoops'
    BY <1>2, <1>3, <2>1, <2>2 DEF PathInv
  <2>4. QED
    BY <1>s, <2>3 DEF LoopInv
<1>8. QED
  BY <1>s, <1>4, <1>5, <1>6, <1>7 DEF Next, LoopInv

\* At every moment of the search the reported rows are whole loops, and each of
\* them waits for itself: a row that merely waits for a loop is not reported.
THEOREM OnlyLoopsAreReported == Spec => []ReportsAreLoops
<1>1. LoopInv => ReportsAreLoops
  BY DEF LoopInv
<1>2. QED
  BY <1>1, LoopInit, LoopStep, PTL DEF Spec

-----------------------------------------------------------------------------
(* Completeness.                                                           *)

\* What a visited node has looked at is visited too, and all of it is within
\* reach of a blocked row.
Examined ==
  /\ \A n \in Node : color[n] # 0 => n \in Loops!Searched(blocked)
  /\ \A n \in Node : color[n] # 0 =>
       \A d \in Node : d \in deps[n] => d \in rest[n] \/ color[d] # 0
  /\ \A n \in Node : color[n] = 2 => rest[n] = {}
  /\ \A n \in inCycle : color[n] # 0

\* Everything that an unreported node has looked at was left before it, except
\* the next node on the stack, which will be.
LeftInOrder ==
  /\ \A n \in Node \ inCycle : color[n] = 2 =>
       \A d \in Node : d \in deps[n] => color[d] = 2
  /\ \A i \in 1 .. Len(stack) : stack[i] \notin inCycle =>
       \A d \in Node : d \in deps[stack[i]] =>
         d \in rest[stack[i]] \/ color[d] = 2 \/ (i < Len(stack) /\ d = stack[i + 1])

\* The nodes that were left without a report hold no loop among them.
NoLoopLeft == \A K \in SUBSET {n \in Node \ inCycle : color[n] = 2} : Loops!SelfSustained(K) => K = {}

CoverInv == LoopInv /\ Examined /\ LeftInOrder /\ NoLoopLeft

LEMMA CoverInit == Init => CoverInv
<1> SUFFICES ASSUME Init PROVE CoverInv
  OBVIOUS
<1>1. LoopInv
  BY LoopInit
<1>2. Examined /\ LeftInOrder /\ NoLoopLeft
  BY DEF Init, Examined, LeftInOrder, NoLoopLeft
<1>3. QED
  BY <1>1, <1>2 DEF CoverInv

\* What is searched is closed under dependencies.
LEMMA SearchedGoesOn ==
  ASSUME NEW n \in Loops!Searched(blocked), NEW d \in Node, d \in deps[n]
  PROVE  d \in Loops!Searched(blocked)
BY DEF Loops!Searched, Loops!Closed

\* A visit colours one node grey and leaves the others as they are.
LEMMA VisitColours ==
  ASSUME TypeOK, NEW n \in Node, Visit(n), color[n] = 0
  PROVE  /\ color'[n] = 1
         /\ \A m \in Node : m # n => color'[m] = color[m]
         /\ \A m \in Node : color'[m] = 2 <=> color[m] = 2
BY DEF TypeOK, Visit

LEMMA CoverStep == CoverInv /\ [Next]_vars => CoverInv'
<1> SUFFICES ASSUME CoverInv, [Next]_vars PROVE CoverInv'
  OBVIOUS
<1>l. LoopInv'
  BY LoopStep DEF CoverInv
<1>t. TypeOK /\ StackOnce
  BY DEF CoverInv, LoopInv, StackInv
<1>1. deps' = deps /\ blocked' = blocked
  BY DEF Next, StartAt, Examine, CloseCycle, Descend, PassOver, Leave, vars
<1>2. Loops!Searched(blocked)' = Loops!Searched(blocked)
  BY <1>1 DEF Loops!Searched, Loops!Closed
<1>3. ASSUME \A n \in Node : color'[n] = 2 <=> color[n] = 2, inCycle \subseteq inCycle'
      PROVE  NoLoopLeft'
  <2>1. {n \in Node \ inCycle' : color'[n] = 2} \subseteq {n \in Node \ inCycle : color[n] = 2}
    BY <1>3
  <2>2. QED
    BY <1>1, <2>1 DEF CoverInv, NoLoopLeft, Loops!SelfSustained
<1>4. ASSUME NEW n \in Node, StartAt(n) PROVE (Examined /\ LeftInOrder /\ NoLoopLeft)'
  <2>1. /\ Visit(n) /\ stack = <<>> /\ color[n] = 0 /\ n \in blocked
        /\ inCycle' = inCycle /\ rest' = [rest EXCEPT ![n] = deps[n]]
    BY <1>4 DEF StartAt
  <2>2. /\ color'[n] = 1
        /\ \A m \in Node : m # n => color'[m] = color[m]
        /\ \A m \in Node : color'[m] = 2 <=> color[m] = 2
    BY <1>t, <2>1, VisitColours
  <2>3. rest'[n] = deps[n] /\ \A m \in Node : m # n => rest'[m] = rest[m]
    BY <1>t, <2>1 DEF TypeOK
  <2>4. n \in Loops!Searched(blocked)
    BY <2>1 DEF Loops!Searched, Loops!Closed
  <2>5. Examined'
    BY <1>1, <1>2, <1>t, <2>1, <2>2, <2>3, <2>4 DEF CoverInv, Examined, TypeOK
  <2>6. LeftInOrder'
    <3>1. Len(stack') = 1 /\ stack'[1] = n
      BY <1>t, <2>1, Pushed
    <3>2. \A i \in 1 .. Len(stack') : stack'[i] = n
      BY <3>1
    <3>3. QED
      BY <1>1, <2>1, <2>2, <2>3, <3>2 DEF CoverInv, LeftInOrder
  <2>7. QED
    BY <1>3, <2>1, <2>2, <2>5, <2>6
<1>5. ASSUME Examine PROVE (Examined /\ LeftInOrder /\ NoLoopLeft)'
  <2> DEFINE L == Len(stack)
  <2>1. /\ L \in Nat \ {0} /\ L \in 1 .. L /\ Top \in Node /\ Top = stack[L]
        /\ \A i \in 1 .. L : stack[i] \in Node
    BY <1>5, <1>t, TopIsLast DEF Examine, Top, TypeOK
  <2>2. \A i \in 1 .. L : color[stack[i]] = 1 /\ (i # L => stack[i] # Top)
    BY <1>t, <2>1 DEF StackOnce
  <2>3. PICK d \in rest[Top] : CloseCycle(d) \/ Descend(d) \/ PassOver(d)
    BY <1>5 DEF Examine
  <2>4. d \in deps[Top]
    BY <2>1, <2>3 DEF CoverInv, LoopInv, PathInv
  \* The colours stay, and the top has looked at one more dependency.
  <2>5. ASSUME rest' = [rest EXCEPT ![Top] = @ \ {d}], UNCHANGED <<color, stack>>,
               d \in Node => color[d] # 0, inCycle \subseteq inCycle',
               \A n \in inCycle' : color[n] # 0,
               d \in Node => color[d] = 2 \/ Top \in inCycle'
        PROVE  (Examined /\ LeftInOrder /\ NoLoopLeft)'
    <3>1. rest'[Top] = rest[Top] \ {d} /\ \A m \in Node : m # Top => rest'[m] = rest[m]
      BY <1>t, <2>1, <2>5 DEF TypeOK
    <3>2. Examined'
      BY <1>1, <1>2, <2>1, <2>5, <3>1 DEF CoverInv, Examined
    <3>3. LeftInOrder'
      <4>1. ASSUME NEW i \in 1 .. L, stack[i] \notin inCycle', NEW e \in Node, e \in deps[stack[i]]
            PROVE  e \in rest'[stack[i]] \/ color[e] = 2 \/ (i < L /\ e = stack[i + 1])
        <5>1. e \in rest[stack[i]] \/ color[e] = 2 \/ (i < L /\ e = stack[i + 1])
          BY <2>5, <4>1 DEF CoverInv, LeftInOrder
        <5>2. CASE i = L
          BY <2>1, <2>5, <3>1, <4>1, <5>1, <5>2
        <5>3. CASE i # L
          BY <2>1, <2>2, <3>1, <5>1, <5>3
        <5>4. QED
          BY <5>2, <5>3
      <4>2. \A n \in Node \ inCycle' : color[n] = 2 =>
              \A e \in Node : e \in deps[n] => color[e] = 2
        BY <2>5 DEF CoverInv, LeftInOrder
      <4>3. QED
        BY <1>1, <2>5, <4>1, <4>2 DEF LeftInOrder
    <3>4. QED
      BY <1>3, <2>5, <3>2, <3>3
  <2>6. CASE CloseCycle(d)
    <3>1. /\ Visiting(d) /\ UNCHANGED <<color, stack>> /\ rest' = [rest EXCEPT ![Top] = @ \ {d}]
          /\ inCycle' = inCycle \cup (IF Indices(d) # {} THEN Suffix(d) ELSE {Top})
      BY <2>6 DEF CloseCycle
    <3>2. Indices(d) # {}
      BY <1>5, <2>3, <3>1, ClosedLoop DEF Examine, CoverInv, LoopInv
    <3>3. PICK k \in 1 .. L : k \in Indices(d)
      BY <3>2 DEF Indices
    <3>4. Top \in Suffix(d)
      BY <2>1, <3>3 DEF Suffix
    <3>5. \A n \in Suffix(d) : color[n] # 0
      BY <2>2 DEF Suffix
    <3>6. \A n \in inCycle' : color[n] # 0
      BY <3>1, <3>2, <3>5 DEF CoverInv, Examined
    <3>7. d \in Node /\ color[d] # 0
      BY <3>1 DEF Visiting
    <3>8. QED
      BY <2>5, <3>1, <3>2, <3>4, <3>6, <3>7
  <2>7. CASE PassOver(d)
    <3>1. /\ UNCHANGED <<color, stack, inCycle>> /\ rest' = [rest EXCEPT ![Top] = @ \ {d}]
          /\ ~ Visiting(d) /\ ~ Fresh(d)
      BY <2>7 DEF PassOver
    <3>2. d \in Node => color[d] = 2
      BY <1>t, <3>1 DEF Visiting, Fresh, TypeOK
    <3>3. \A n \in inCycle' : color[n] # 0
      BY <3>1 DEF CoverInv, Examined
    <3>4. QED
      BY <2>5, <3>1, <3>2, <3>3
  <2>8. CASE Descend(d)
    <3>1. /\ d \in Node /\ color[d] = 0 /\ Visit(d) /\ inCycle' = inCycle
          /\ rest' = [rest EXCEPT ![Top] = @ \ {d}, ![d] = deps[d]]
      BY <2>8 DEF Descend, Fresh
    <3>2. /\ color'[d] = 1
          /\ \A m \in Node : m # d => color'[m] = color[m]
          /\ \A m \in Node : color'[m] = 2 <=> color[m] = 2
      BY <1>t, <3>1, VisitColours
    <3>3. /\ Len(stack') = L + 1 /\ stack'[L + 1] = d
          /\ \A i \in 1 .. L : stack'[i] = stack[i]
      BY <1>t, <3>1, Pushed
    <3>4. Top # d /\ color[Top] = 1 /\ \A i \in 1 .. L : stack[i] # d
      BY <2>1, <2>2, <3>1
    <3>5. /\ rest'[Top] = rest[Top] \ {d} /\ rest'[d] = deps[d]
          /\ \A m \in Node : m # Top /\ m # d => rest'[m] = rest[m]
      BY <1>t, <2>1, <3>1, <3>4 DEF TypeOK
    <3>6. d \in Loops!Searched(blocked)
      BY <2>1, <2>4, <3>1, <3>4, SearchedGoesOn DEF CoverInv, Examined
    <3>7. Examined'
      <4>1. ASSUME NEW n \in Node, color'[n] # 0, NEW e \in Node, e \in deps[n]
            PROVE  e \in rest'[n] \/ color'[e] # 0
        <5>1. CASE n = d
          BY <3>5, <4>1, <5>1
        <5>2. CASE n # d
          <6>1. e \in rest[n] \/ color[e] # 0
            BY <3>2, <4>1, <5>2 DEF CoverInv, Examined
          <6>2. QED
            BY <3>2, <3>5, <5>2, <6>1
        <5>3. QED
          BY <5>1, <5>2
      <4>2. \A n \in Node : color'[n] # 0 => n \in Loops!Searched(blocked)
        BY <3>2, <3>6 DEF CoverInv, Examined
      <4>3. \A n \in Node : color'[n] = 2 => rest'[n] = {}
        <5> SUFFICES ASSUME NEW n \in Node, color'[n] = 2 PROVE rest'[n] = {}
          OBVIOUS
        <5>1. color[n] = 2 /\ n # d /\ n # Top
          BY <3>1, <3>2, <3>4
        <5>2. rest[n] = {}
          BY <5>1 DEF CoverInv, Examined
        <5>3. QED
          BY <3>5, <5>1, <5>2
      <4>4. \A n \in inCycle' : color'[n] # 0
        BY <1>t, <3>1, <3>2 DEF CoverInv, Examined, TypeOK
      <4>5. QED
        BY <1>1, <1>2, <4>1, <4>2, <4>3, <4>4 DEF Examined
    <3>8. LeftInOrder'
      <4>1. ASSUME NEW i \in 1 .. L + 1, stack'[i] \notin inCycle, NEW e \in Node,
                   e \in deps[stack'[i]]
            PROVE  e \in rest'[stack'[i]] \/ color'[e] = 2 \/ (i < L + 1 /\ e = stack'[i + 1])
        <5>1. CASE i = L + 1
          BY <3>3, <3>5, <4>1, <5>1
        <5>2. CASE i # L + 1
          <6>1. i \in 1 .. L /\ i < L + 1 /\ stack'[i] = stack[i]
            BY <2>1, <3>3, <5>2
          <6>2. e \in rest[stack[i]] \/ color[e] = 2 \/ (i < L /\ e = stack[i + 1])
            BY <4>1, <6>1 DEF CoverInv, LeftInOrder
          <6>3. CASE i = L
            BY <2>1, <3>2, <3>3, <3>5, <6>1, <6>2, <6>3
          <6>4. CASE i # L
            <7>1. i + 1 \in 1 .. L /\ rest'[stack[i]] = rest[stack[i]]
              BY <2>1, <2>2, <3>4, <3>5, <6>1, <6>4
            <7>2. QED
              BY <3>2, <3>3, <6>1, <6>2, <7>1
          <6>5. QED
            BY <6>3, <6>4
        <5>3. QED
          BY <5>1, <5>2
      <4>2. \A n \in Node \ inCycle : color'[n] = 2 =>
              \A e \in Node : e \in deps[n] => color'[e] = 2
        BY <3>2 DEF CoverInv, LeftInOrder
      <4>3. \A i \in 1 .. Len(stack') : stack'[i] \notin inCycle' =>
              \A e \in Node : e \in deps[stack'[i]] =>
                \/ e \in rest'[stack'[i]] \/ color'[e] = 2
                \/ i < Len(stack') /\ e = stack'[i + 1]
        BY <3>1, <3>3, <4>1
      <4>4. QED
        BY <1>1, <3>1, <4>2, <4>3 DEF LeftInOrder
    <3>9. QED
      BY <1>3, <3>1, <3>2, <3>7, <3>8
  <2>9. QED
    BY <2>3, <2>6, <2>7, <2>8
\* The top is left after all it depends on, so it completes no loop.
<1>6. ASSUME Leave PROVE (Examined /\ LeftInOrder /\ NoLoopLeft)'
  <2> DEFINE L == Len(stack)
  <2>1. /\ L \in Nat \ {0} /\ L \in 1 .. L /\ Top \in Node /\ Top = stack[L]
        /\ \A i \in 1 .. L : stack[i] \in Node
    BY <1>6, <1>t, TopIsLast DEF Leave, Top, TypeOK
  <2>2. color[Top] = 1
    BY <1>t, <2>1 DEF StackOnce
  <2>3. /\ rest[Top] = {} /\ rest' = rest /\ inCycle' = inCycle
        /\ color'[Top] = 2 /\ \A m \in Node : m # Top => color'[m] = color[m]
    BY <1>6, <1>t, <2>1 DEF Leave, Done, TypeOK
  <2>4. \A m \in Node : color[m] = 2 => color'[m] = 2
    BY <2>3
  <2>5. Top \notin inCycle => \A d \in Node : d \in deps[Top] => color[d] = 2
    BY <2>1, <2>3 DEF CoverInv, LeftInOrder
  <2>6. Examined'
    <3>1. \A m \in Node : color'[m] # 0 <=> color[m] # 0
      BY <2>2, <2>3
    <3>2. \A m \in Node : color'[m] = 2 => rest'[m] = {}
      BY <2>3 DEF CoverInv, Examined
    <3>3. \A m \in inCycle' : color'[m] # 0
      BY <1>t, <2>3, <3>1 DEF CoverInv, Examined, TypeOK
    <3>4. QED
      BY <1>1, <1>2, <2>3, <3>1, <3>2, <3>3 DEF CoverInv, Examined
  <2>7. LeftInOrder'
    <3>1. Len(stack') = L - 1 /\ \A i \in 1 .. L - 1 : stack'[i] = stack[i]
      BY <1>6, <1>t, Popped
    <3>2. ASSUME NEW i \in 1 .. L - 1, stack'[i] \notin inCycle, NEW d \in Node, d \in deps[stack'[i]]
          PROVE  d \in rest[stack'[i]] \/ color'[d] = 2 \/ (i < L - 1 /\ d = stack'[i + 1])
      <4>1. i \in 1 .. L /\ i + 1 \in 1 .. L /\ stack'[i] = stack[i]
        BY <2>1, <3>1
      <4>2. d \in rest[stack[i]] \/ color[d] = 2 \/ d = stack[i + 1]
        BY <3>2, <4>1 DEF CoverInv, LeftInOrder
      <4>3. CASE i = L - 1
        BY <2>1, <2>3, <2>4, <4>1, <4>2, <4>3
      <4>4. CASE i # L - 1
        <5>1. i < L - 1 /\ i + 1 \in 1 .. L - 1
          BY <2>1, <4>4
        <5>2. QED
          BY <2>4, <3>1, <4>1, <4>2, <5>1
      <4>5. QED
        BY <4>3, <4>4
    <3>3. ASSUME NEW n \in Node \ inCycle, color'[n] = 2, NEW d \in Node, d \in deps[n]
          PROVE  color'[d] = 2
      BY <2>3, <2>4, <2>5, <3>3 DEF CoverInv, LeftInOrder
    <3>4. QED
      BY <1>1, <2>3, <3>1, <3>2, <3>3 DEF LeftInOrder
  <2>8. NoLoopLeft'
    <3> SUFFICES ASSUME NEW K \in SUBSET {n \in Node \ inCycle : color'[n] = 2},
                        \A x \in K : deps[x] \cap K # {}
                 PROVE  K = {}
      BY <1>1, <2>3 DEF NoLoopLeft, Loops!SelfSustained
    <3>1. \A x \in K : x \in Node /\ x \notin inCycle /\ (x # Top => color[x] = 2)
      BY <2>3
    <3>2. ASSUME NEW x \in K PROVE deps[x] \cap (K \ {Top}) # {}
      <4>1. PICK y \in K : y \in deps[x]
        OBVIOUS
      <4>2. color[y] = 2
        BY <2>5, <3>1, <4>1 DEF CoverInv, LeftInOrder
      <4>3. QED
        BY <2>2, <4>1, <4>2
    <3>3. K \ {Top} = {}
      BY <3>1, <3>2 DEF CoverInv, NoLoopLeft, Loops!SelfSustained
    <3>4. QED
      BY <3>2, <3>3
  <2>9. QED
    BY <2>6, <2>7, <2>8
<1>7. CASE UNCHANGED vars
  <2>1. UNCHANGED <<color, stack, rest, inCycle>>
    BY <1>7 DEF vars
  <2>2. Examined' /\ LeftInOrder'
    BY <1>1, <1>2, <2>1 DEF CoverInv, Examined, LeftInOrder
  <2>3. NoLoopLeft'
    BY <1>3, <2>1
  <2>4. QED
    BY <1>l, <2>2, <2>3 DEF CoverInv
<1>8. QED
  BY <1>l, <1>4, <1>5, <1>6, <1>7 DEF Next, CoverInv

\* When the search is over, everything within reach of a blocked row was left.
LEMMA AllLeft ==
  ASSUME CoverInv, Finished
  PROVE  \A n \in Loops!Searched(blocked) : n \in Node /\ color[n] = 2
<1> DEFINE Left == {n \in Node : color[n] = 2}
<1>1. \A n \in Node : color[n] # 1
  BY DEF Finished, CoverInv, LoopInv, StackInv, StackOnce
<1>2. \A n \in Node : color[n] # 0 => color[n] = 2
  BY <1>1 DEF CoverInv, LoopInv, StackInv, TypeOK
<1>3. blocked \subseteq Left
  BY DEF Finished, CoverInv, LoopInv, StackInv, TypeOK
<1>4. \A x \in Left : deps[x] \cap Node \subseteq Left
  BY <1>2 DEF CoverInv, Examined
<1>5. QED
  BY <1>3, <1>4 DEF Loops!Searched, Loops!Closed

\* A search that has ended has reported something of every loop that a blocked
\* row waits for, and nothing else, in whatever order it went: its answer is one
\* of those among which TaskQueue chooses.
THEOREM NoLoopIsMissed == Spec => []EveryLoopIsTouched
<1>1. CoverInv => EveryLoopIsTouched
  <2> SUFFICES ASSUME CoverInv, Finished
               PROVE  inCycle \in Loops!Reports(blocked)
    BY DEF EveryLoopIsTouched
  <2>1. inCycle \subseteq Loops!Searched(blocked)
    BY DEF CoverInv, Examined, LoopInv, StackInv, TypeOK
  <2>2. Loops!Searched(blocked) \ inCycle \subseteq {n \in Node \ inCycle : color[n] = 2}
    BY AllLeft
  <2>3. \A K \in SUBSET (Loops!Searched(blocked) \ inCycle) : Loops!SelfSustained(K) => K = {}
    BY <2>2 DEF CoverInv, NoLoopLeft
  <2>4. QED
    BY <2>1, <2>3 DEF CoverInv, LoopInv, ReportsAreLoops, Loops!Reports
<1>2. QED
  BY <1>1, CoverInit, CoverStep, PTL DEF Spec

-----------------------------------------------------------------------------
(* Termination: a count that every step lowers.                            *)

LEMMA Fewer ==
  ASSUME NEW S, IsFiniteSet(S), NEW T \in SUBSET S
  PROVE  /\ Cardinality(S) \in Nat /\ Cardinality(T) \in Nat
         /\ Cardinality(T) <= Cardinality(S)
         /\ T # S => Cardinality(T) < Cardinality(S)
<1>1. IsFiniteSet(T) /\ Cardinality(T) <= Cardinality(S) /\ (Cardinality(S) = Cardinality(T) => S = T)
  BY FS_Subset
<1>2. Cardinality(S) \in Nat /\ Cardinality(T) \in Nat
  BY <1>1, FS_CardinalityType
<1>3. QED
  BY <1>1, <1>2

LEMMA WorkIsFinite == IsFiniteSet(Unbegun) /\ IsFiniteSet(Unleft) /\ IsFiniteSet(Unseen)
<1>1. IsFiniteSet(Node \cup Missing)
  BY CycleAssumption, FS_Union
<1>2. IsFiniteSet(Node \X (Node \cup Missing))
  BY <1>1, CycleAssumption, FS_Product
<1>3. Unseen \in SUBSET (Node \X (Node \cup Missing))
  BY DEF Unseen
<1>4. Unbegun \in SUBSET Node /\ Unleft \in SUBSET Node
  BY DEF Unbegun, Unleft
<1>5. QED
  BY <1>2, <1>3, <1>4, CycleAssumption, FS_Subset

\* It is enough that a step adds nothing to what is left and takes something away.
LEMMA WorkShrinks ==
  ASSUME Unbegun' \subseteq Unbegun, Unleft' \subseteq Unleft, Unseen' \subseteq Unseen,
         Unbegun' # Unbegun \/ Unleft' # Unleft \/ Unseen' # Unseen
  PROVE  WorkLeft' < WorkLeft
<1>1. /\ Cardinality(Unbegun) \in Nat /\ Cardinality(Unbegun') \in Nat
      /\ Cardinality(Unbegun') <= Cardinality(Unbegun)
      /\ Unbegun' # Unbegun => Cardinality(Unbegun') < Cardinality(Unbegun)
  BY WorkIsFinite, Fewer
<1>2. /\ Cardinality(Unleft) \in Nat /\ Cardinality(Unleft') \in Nat
      /\ Cardinality(Unleft') <= Cardinality(Unleft)
      /\ Unleft' # Unleft => Cardinality(Unleft') < Cardinality(Unleft)
  BY WorkIsFinite, Fewer
<1>3. /\ Cardinality(Unseen) \in Nat /\ Cardinality(Unseen') \in Nat
      /\ Cardinality(Unseen') <= Cardinality(Unseen)
      /\ Unseen' # Unseen => Cardinality(Unseen') < Cardinality(Unseen)
  BY WorkIsFinite, Fewer
<1>4. WorkLeft = Cardinality(Unbegun) + Cardinality(Unleft) + Cardinality(Unseen)
  BY DEF WorkLeft
<1>5. WorkLeft' = Cardinality(Unbegun') + Cardinality(Unleft') + Cardinality(Unseen')
  BY DEF WorkLeft
<1>6. QED
  BY <1>1, <1>2, <1>3, <1>4, <1>5

LEMMA LessAhead ==
  ASSUME \A m \in Node : Ahead(m)' \subseteq Ahead(m)
  PROVE  Unseen' \subseteq Unseen
<1> SUFFICES ASSUME NEW e \in Node \X (Node \cup Missing), e[2] \in Ahead(e[1])'
             PROVE  e[2] \in Ahead(e[1])
  BY DEF Unseen
<1>1. e[1] \in Node
  OBVIOUS
<1>2. QED
  BY <1>1

LEMMA WorkStep ==
  ASSUME StackInv, Next
  PROVE  WorkLeft' < WorkLeft
<1>1. deps' = deps
  BY DEF Next, StartAt, Examine, CloseCycle, Descend, PassOver, Leave
<1>2. TypeOK
  BY DEF StackInv
<1>3. ASSUME NEW n \in Node, StartAt(n) PROVE WorkLeft' < WorkLeft
  <2>1. /\ color[n] = 0 /\ color'[n] = 1 /\ \A m \in Node : m # n => color'[m] = color[m]
    BY <1>2, <1>3, VisitColours DEF StartAt
  <2>2. rest'[n] = deps[n] /\ \A m \in Node : m # n => rest'[m] = rest[m]
    BY <1>2, <1>3 DEF StartAt, TypeOK
  <2>3. Unbegun' \subseteq Unbegun /\ Unbegun' # Unbegun /\ Unleft' \subseteq Unleft
    BY <2>1 DEF Unbegun, Unleft
  <2>4. \A m \in Node : Ahead(m)' \subseteq Ahead(m)
    BY <1>1, <2>1, <2>2 DEF Ahead
  <2>5. Unseen' \subseteq Unseen
    BY <2>4, LessAhead
  <2>6. QED
    BY <2>3, <2>5, WorkShrinks
<1>4. CASE Examine
  <2>1. Top \in Node /\ color[Top] = 1
    <3>1. Len(stack) \in 1 .. Len(stack) /\ Top \in Node /\ Top = stack[Len(stack)]
      BY <1>2, <1>4, TopIsLast DEF Examine, Top
    <3>2. QED
      BY <3>1 DEF StackInv, StackOnce
  <2>2. PICK d \in rest[Top] : CloseCycle(d) \/ Descend(d) \/ PassOver(d)
    BY <1>4 DEF Examine
  <2>3. <<Top, d>> \in Unseen
    BY <1>2, <2>1, <2>2 DEF Unseen, Ahead, TypeOK
  <2>4. CASE CloseCycle(d) \/ PassOver(d)
    <3>1. color' = color /\ rest' = [rest EXCEPT ![Top] = @ \ {d}]
      BY <2>4 DEF CloseCycle, PassOver
    <3>2. rest'[Top] = rest[Top] \ {d} /\ \A m \in Node : m # Top => rest'[m] = rest[m]
      BY <1>2, <2>1, <3>1 DEF TypeOK
    <3>3. \A m \in Node : Ahead(m)' \subseteq Ahead(m)
      BY <1>1, <2>1, <3>1, <3>2 DEF Ahead
    <3>4. Unseen' \subseteq Unseen
      BY <3>3, LessAhead
    <3>5. Unseen' # Unseen
      <4>1. PICK t \in Node : t = Top
        BY <2>1
      <4>2. Ahead(t)' = rest[t] \ {d}
        BY <2>1, <3>1, <3>2, <4>1 DEF Ahead
      <4>3. <<t, d>> \notin Unseen'
        BY <4>2 DEF Unseen
      <4>4. QED
        BY <2>3, <4>1, <4>3
    <3>6. Unbegun' = Unbegun /\ Unleft' = Unleft
      BY <3>1 DEF Unbegun, Unleft
    <3>7. QED
      BY <3>4, <3>5, <3>6, WorkShrinks
  <2>5. CASE Descend(d)
    <3>1. /\ d \in Node /\ color[d] = 0 /\ Visit(d)
          /\ rest' = [rest EXCEPT ![Top] = @ \ {d}, ![d] = deps[d]]
      BY <2>5 DEF Descend, Fresh
    <3>2. color'[d] = 1 /\ \A m \in Node : m # d => color'[m] = color[m]
      BY <1>2, <3>1, VisitColours
    <3>3. Top # d
      BY <2>1, <3>1
    <3>4. /\ rest'[Top] = rest[Top] \ {d} /\ rest'[d] = deps[d]
          /\ \A m \in Node : m # Top /\ m # d => rest'[m] = rest[m]
      BY <1>2, <2>1, <3>1, <3>3 DEF TypeOK
    <3>5. Unbegun' \subseteq Unbegun /\ Unbegun' # Unbegun /\ Unleft' \subseteq Unleft
      BY <3>1, <3>2 DEF Unbegun, Unleft
    <3>6. \A m \in Node : Ahead(m)' \subseteq Ahead(m)
      <4>1. \A m \in Node : m = Top => Ahead(m)' \subseteq Ahead(m)
        BY <1>1, <2>1, <3>2, <3>3, <3>4 DEF Ahead
      <4>2. Ahead(d)' \subseteq Ahead(d)
        BY <1>1, <3>1, <3>2, <3>4 DEF Ahead
      <4>3. \A m \in Node : m # Top /\ m # d => Ahead(m)' \subseteq Ahead(m)
        BY <1>1, <3>2, <3>4 DEF Ahead
      <4>4. QED
        BY <4>1, <4>2, <4>3
    <3>7. Unseen' \subseteq Unseen
      BY <3>6, LessAhead
    <3>8. QED
      BY <3>5, <3>7, WorkShrinks
  <2>6. QED
    BY <2>2, <2>4, <2>5
<1>5. CASE Leave
  <2>1. Top \in Node /\ color[Top] = 1
    <3>1. Len(stack) \in 1 .. Len(stack) /\ Top \in Node /\ Top = stack[Len(stack)]
      BY <1>2, <1>5, TopIsLast DEF Leave, Top
    <3>2. QED
      BY <3>1 DEF StackInv, StackOnce
  <2>2. /\ rest' = rest /\ color'[Top] = 2 /\ \A m \in Node : m # Top => color'[m] = color[m]
    BY <1>2, <1>5, <2>1 DEF Leave, Done, TypeOK
  <2>3. Unbegun' \subseteq Unbegun /\ Unleft' \subseteq Unleft /\ Unleft' # Unleft
    BY <2>1, <2>2 DEF Unbegun, Unleft
  <2>4. \A m \in Node : Ahead(m)' \subseteq Ahead(m)
    BY <1>1, <2>1, <2>2 DEF Ahead
  <2>5. Unseen' \subseteq Unseen
    BY <2>4, LessAhead
  <2>6. QED
    BY <2>3, <2>5, WorkShrinks
<1>6. QED
  BY <1>3, <1>4, <1>5 DEF Next

\* Every step of the search lowers a count of what is left to do, so a search
\* of a finite table ends after at most that many steps.
THEOREM SearchMakesProgress == Spec => SearchEnds
<1>1. StackInv /\ [Next]_vars => [WorkLeft' < WorkLeft]_vars
  BY WorkStep
<1>2. QED
  BY <1>1, StackInit, StackStep, PTL DEF Spec, SearchEnds
=============================================================================
