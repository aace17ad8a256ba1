-------------------------- MODULE TaskQueueProofs ---------------------------
(***************************************************************************)
(* Theorems about TaskQueue for every number of tasks, processes, steps,   *)
(* retries and every dependency graph.                                     *)
(***************************************************************************)
EXTENDS TaskQueue, TLAPS

USE DEF rowVars, saved, procVars, histVars

-----------------------------------------------------------------------------
(* Types.                                                                  *)

Held == {"claimed", "executing", "effected", "discrepant", "verifying"}

\* A process holds a task exactly while it works, and is never past its last
\* step; a step it has just executed is one of the task's.
JobsHeld ==
  \A p \in Proc :
    /\ pc[p] \in Held => job[p] \in Task /\ done[p] <= Steps[job[p]]
    /\ pc[p] \notin Held => job[p] = NoTask
    /\ pc[p] = "effected" => done[p] < Steps[job[p]]

TypeInv == TypeOK /\ JobsHeld

LEMMA TypeInit == Init => TypeInv
BY ConstantsAssumption
   DEF Init, TypeInv, TypeOK, JobsHeld, Held, States, ActiveStates, SettledStates,
       DoneStates, BrokenStates, Phases, StepsOf

\* Every action preserves the types.
LEMMA TypeStep == TypeInv /\ [Next]_vars => TypeInv'
<1> SUFFICES ASSUME TypeInv, [Next]_vars PROVE TypeInv'
  OBVIOUS
<1> USE ConstantsAssumption
<1> USE DEF TypeInv, TypeOK, JobsHeld, Held, States, ActiveStates, SettledStates,
            DoneStates, BrokenStates, Phases
<1>1. CASE Enqueue
  <2>1. ASSUME NEW t \in Task, NEW p \in Priority[t], EnqueueNew(t, p) PROVE TypeInv'
    BY <2>1 DEF EnqueueNew
  <2>2. ASSUME NEW t \in Task, NEW p \in Priority[t], EnqueueDuplicate(t, p) PROVE TypeInv'
    BY <2>2 DEF EnqueueDuplicate, Duplicates
  <2>3. QED
    BY <1>1, <2>1, <2>2 DEF Enqueue
<1>2. CASE Recover
  <2> SUFFICES ASSUME NEW kill \in KillFlags, RecoverInterrupted(kill) PROVE TypeInv'
    BY <1>2 DEF Recover
  <2> USE DEF RecoverInterrupted
  <2>1. state' \in [Task -> States]
    BY DEF Resumable
  <2>2. attempts' \in [Task -> Nat]
    BY DEF Charged
  <2>3. due' \in [Task -> BOOLEAN]
    OBVIOUS
  <2>4. worker' \in [Task -> Proc \cup {NoProc}] /\ lease' \in [Task -> {"none", "live", "expired"}]
    OBVIOUS
  <2>5. /\ pc' \in [Proc -> Phases]
        /\ job' \in [Proc -> Task \cup {NoTask}]
        /\ done' \in [Proc -> Nat]
        /\ JobsHeld'
    BY DEF Terminated
  <2>6. QED
    BY <2>1, <2>2, <2>3, <2>4, <2>5
<1>3. CASE ResolveDependencies
  BY <1>3 DEF ResolveDependencies, Resolved
<1>4. ASSUME NEW p \in Proc, Start(p) PROVE TypeInv'
  BY <1>4 DEF Start
<1>5. ASSUME NEW p \in Proc, ClaimNext(p) PROVE TypeInv'
  BY <1>5 DEF ClaimNext, Claim, Lease, CompletedSteps
<1>6. ASSUME NEW p \in Proc, PassGate(p) PROVE TypeInv'
  BY <1>6 DEF PassGate
<1>7. ASSUME NEW p \in Proc, BlockAuthorization(p) PROVE TypeInv'
  BY <1>7 DEF BlockAuthorization, Settle, Return
<1>8. ASSUME NEW p \in Proc, Execute(p) PROVE TypeInv'
  <2>1. job[p] \in Task /\ done[p] + 1 \in StepsOf(job[p])
    BY <1>8 DEF Execute, StepsLeft, StepsOf
  <2>2. effects' = [t \in Task |-> effects'[t]]
    BY <1>8 DEF Execute
  <2>3. ASSUME NEW t \in Task PROVE effects'[t] \in [StepsOf(t) -> Nat]
    BY <1>8, <2>1 DEF Execute
  <2>4. JobsHeld'
    BY <1>8 DEF Execute, StepsLeft
  <2>5. QED
    BY <1>8, <2>2, <2>3, <2>4 DEF Execute
<1>9. ASSUME NEW p \in Proc, SaveCheckpoint(p) PROVE TypeInv'
  BY <1>9 DEF SaveCheckpoint, Lease
<1>9a. ASSUME NEW p \in Proc, SaveDiscrepancy(p) PROVE TypeInv'
  BY <1>9a DEF SaveDiscrepancy, Lease
<1>10. ASSUME NEW p \in Proc, Complete(p) PROVE TypeInv'
  BY <1>10 DEF Complete, AllStepsDone, LastStepWaived, Settle, Return
<1>11. ASSUME NEW p \in Proc, SubmitForVerification(p) PROVE TypeInv'
  BY <1>11 DEF SubmitForVerification, AllStepsDone, Settle
<1>12. ASSUME NEW p \in Proc, NEW v \in VerdictStates, RecordVerdict(p, v) PROVE TypeInv'
  BY <1>12 DEF RecordVerdict, VerdictStates, Settle, Return
<1>13. ASSUME NEW p \in Proc, Fail(p) PROVE TypeInv'
  BY <1>13 DEF Fail, Settle, Return, Charged, Exhausted
<1>14. ASSUME NEW p \in Proc, Crash(p) PROVE TypeInv'
  BY <1>14 DEF Crash, Terminated
<1>15. ASSUME NEW t \in Task, Approve(t) PROVE TypeInv'
  BY <1>15 DEF Approve
<1>16. CASE Clock
  <2>1. ASSUME NEW t \in Task, LeaseExpires(t) PROVE TypeInv'
    BY <2>1 DEF LeaseExpires
  <2>2. ASSUME NEW t \in Task, BackoffElapses(t) PROVE TypeInv'
    BY <2>2 DEF BackoffElapses
  <2>3. QED
    BY <1>16, <2>1, <2>2 DEF Clock
<1>17. CASE UNCHANGED vars
  BY <1>17 DEF vars
<1>18. QED
  BY <1>1, <1>2, <1>3, <1>4, <1>5, <1>6, <1>7, <1>8, <1>9, <1>9a, <1>10, <1>11, <1>12,
     <1>13, <1>14, <1>15, <1>16, <1>17 DEF Next, Work

\* The variables keep their types and no checkpoint outgrows its task.
THEOREM TypeCorrect == Spec => []TypeOK
<1>1. TypeInv => TypeOK
  BY DEF TypeInv
<1>2. QED
  BY <1>1, TypeInit, TypeStep, PTL DEF Spec

-----------------------------------------------------------------------------
(* Exclusive work, when every sweep kills the hung worker it supersedes.   *)

SweepsKill == KillFlags \subseteq {TRUE}

Running == {"claimed", "executing", "effected", "discrepant"}

\* The row a process works on is its own: RUNNING under its pid, or handed to
\* the verification by it alone.
RowsOwned ==
  /\ \A p \in Proc : pc[p] \in Running => state[job[p]] = "RUNNING" /\ worker[job[p]] = p
  /\ \A p \in Proc : pc[p] = "verifying" => state[job[p]] = "PENDING_VERIFICATION"
  /\ \A p, q \in Proc : pc[p] = "verifying" /\ pc[q] = "verifying" /\ job[p] = job[q] => p = q

Ownership == RowsOwned /\ RunningIsReclaimable

LEMMA OwnershipInit == Init => Ownership
BY DEF Init, Ownership, RowsOwned, RunningIsReclaimable, Running

\* A sweep leaves a row with a working owner alone, or kills the owner.
LEMMA RecoverSparesOrKills ==
  ASSUME SweepsKill, TypeInv, Ownership,
         NEW kill \in KillFlags, RecoverInterrupted(kill),
         NEW p \in Proc, pc'[p] \in Running
  PROVE  pc[p] = pc'[p] /\ job'[p] = job[p] /\ ~ Interrupted(job[p])
<1> USE DEF TypeInv, TypeOK, JobsHeld, Held, Running
<1>1. /\ p \notin Hung(kill) /\ pc'[p] = pc[p] /\ job'[p] = job[p]
  BY DEF RecoverInterrupted, Terminated
<1>2. worker[job[p]] = p /\ job[p] \in Task
  BY <1>1 DEF Ownership, RowsOwned
<1>3. Alive(p)
  BY <1>1, ConstantsAssumption DEF Alive
<1>4. kill
  BY DEF SweepsKill
<1>5. Interrupted(job[p]) => p \in Hung(kill)
  BY <1>2, <1>3, <1>4 DEF Hung
<1>6. QED
  BY <1>1, <1>5

LEMMA OwnershipStep ==
  ASSUME SweepsKill, TypeInv, Ownership, [Next]_vars
  PROVE  Ownership'
<1> USE ConstantsAssumption
<1> USE DEF TypeInv, TypeOK, JobsHeld, Held, Running, Ownership, RowsOwned, RunningIsReclaimable
<1>1. ASSUME NEW t \in Task, NEW r \in Priority[t], EnqueueNew(t, r) PROVE Ownership'
  BY <1>1 DEF EnqueueNew
<1>2. ASSUME NEW t \in Task, NEW r \in Priority[t], EnqueueDuplicate(t, r) PROVE Ownership'
  BY <1>2 DEF EnqueueDuplicate
<1>3. CASE Recover
  <2> SUFFICES ASSUME NEW kill \in KillFlags, RecoverInterrupted(kill) PROVE Ownership'
    BY <1>3 DEF Recover
  <2>1. ASSUME NEW p \in Proc, pc'[p] \in Running
        PROVE  state'[job'[p]] = "RUNNING" /\ worker'[job'[p]] = p
    <3>1. pc[p] = pc'[p] /\ job'[p] = job[p] /\ ~ Interrupted(job[p])
      BY <2>1, RecoverSparesOrKills
    <3>2. QED
      BY <3>1, <2>1 DEF RecoverInterrupted, RetryElapsed
  <2>2. \A p \in Proc : pc'[p] = "verifying" => pc[p] = "verifying" /\ job'[p] = job[p]
    BY DEF RecoverInterrupted, Terminated
  <2>3. \A t \in Task : state[t] = "PENDING_VERIFICATION" => state'[t] = state[t]
    BY DEF RecoverInterrupted, Interrupted, RetryElapsed
  <2>4. RunningIsReclaimable'
    BY DEF RecoverInterrupted, RetryElapsed, Interrupted, Resumable
  <2>5. QED
    BY <2>1, <2>2, <2>3, <2>4
<1>4. CASE ResolveDependencies
  BY <1>4 DEF ResolveDependencies, Resolved
<1>5. ASSUME NEW p \in Proc, Start(p) PROVE Ownership'
  BY <1>5 DEF Start
<1>6. ASSUME NEW p \in Proc, ClaimNext(p) PROVE Ownership'
  BY <1>6 DEF ClaimNext, Claim, Claimable, Lease
<1>7. ASSUME NEW p \in Proc, PassGate(p) PROVE Ownership'
  BY <1>7 DEF PassGate
<1>8. ASSUME NEW p \in Proc, BlockAuthorization(p) PROVE Ownership'
  BY <1>8 DEF BlockAuthorization, Settle, Return
<1>9. ASSUME NEW p \in Proc, Execute(p) PROVE Ownership'
  BY <1>9 DEF Execute
<1>10. ASSUME NEW p \in Proc, SaveCheckpoint(p) PROVE Ownership'
  BY <1>10 DEF SaveCheckpoint, Lease
<1>10a. ASSUME NEW p \in Proc, SaveDiscrepancy(p) PROVE Ownership'
  BY <1>10a DEF SaveDiscrepancy, Lease
<1>11. ASSUME NEW p \in Proc, Complete(p) PROVE Ownership'
  BY <1>11 DEF Complete, AllStepsDone, LastStepWaived, Settle, Return
<1>12. ASSUME NEW p \in Proc, SubmitForVerification(p) PROVE Ownership'
  BY <1>12 DEF SubmitForVerification, AllStepsDone, Settle
<1>13. ASSUME NEW p \in Proc, NEW v \in VerdictStates, RecordVerdict(p, v) PROVE Ownership'
  BY <1>13 DEF RecordVerdict, VerdictStates, Settle, Return
<1>14. ASSUME NEW p \in Proc, Fail(p) PROVE Ownership'
  BY <1>14 DEF Fail, Settle, Return
<1>15. ASSUME NEW p \in Proc, Crash(p) PROVE Ownership'
  BY <1>15 DEF Crash, Terminated
<1>16. ASSUME NEW t \in Task, Approve(t) PROVE Ownership'
  BY <1>16 DEF Approve
<1>17. ASSUME NEW t \in Task, LeaseExpires(t) \/ BackoffElapses(t) PROVE Ownership'
  BY <1>17 DEF LeaseExpires, BackoffElapses
<1>18. CASE UNCHANGED vars
  BY <1>18 DEF vars
<1>19. QED
  BY <1>1, <1>2, <1>3, <1>4, <1>5, <1>6, <1>7, <1>8, <1>9, <1>10, <1>10a, <1>11, <1>12,
     <1>13, <1>14, <1>15, <1>16, <1>17, <1>18 DEF Next, Enqueue, Work, Clock

\* Two live processes never work on the same task, provided every sweep kills
\* the hung worker whose row it takes back.
THEOREM ExclusiveWork ==
  ASSUME SweepsKill
  PROVE  Spec => []OneWorkerPerTask
<1>1. TypeInv /\ Ownership => OneWorkerPerTask
  BY DEF TypeInv, TypeOK, JobsHeld, Held, Running, Ownership, RowsOwned, OneWorkerPerTask,
         Working
<1>2. TypeInv /\ Ownership /\ [Next]_vars => TypeInv' /\ Ownership'
  BY TypeStep, OwnershipStep
<1>3. Init => TypeInv /\ Ownership
  BY TypeInit, OwnershipInit
<1>4. QED
  BY <1>1, <1>2, <1>3, PTL DEF Spec

-----------------------------------------------------------------------------
(* The sweep can always act, also where workers share a task because a     *)
(* sweep under --no-recover spared one of them.                            *)

LEMMA ReclaimableStep ==
  ASSUME TypeInv, RunningIsReclaimable, [Next]_vars
  PROVE  RunningIsReclaimable'
<1> USE ConstantsAssumption
<1> USE DEF TypeInv, TypeOK, JobsHeld, Held, RunningIsReclaimable
<1>1. CASE Enqueue
  BY <1>1 DEF Enqueue, EnqueueNew, EnqueueDuplicate
<1>2. CASE Recover
  BY <1>2 DEF Recover, RecoverInterrupted, RetryElapsed, Interrupted, Resumable
<1>3. CASE ResolveDependencies
  BY <1>3 DEF ResolveDependencies, Resolved
<1>4. ASSUME NEW p \in Proc, ClaimNext(p) PROVE RunningIsReclaimable'
  BY <1>4 DEF ClaimNext, Claim, Lease
<1>5. ASSUME NEW p \in Proc, Work(p) PROVE RunningIsReclaimable'
  BY <1>5 DEF Work, PassGate, BlockAuthorization, Execute, SaveCheckpoint,
              SaveDiscrepancy, Complete, AllStepsDone, LastStepWaived,
              SubmitForVerification, RecordVerdict, VerdictStates, Fail, Settle, Lease
<1>6. ASSUME NEW p \in Proc, Start(p) \/ Crash(p) PROVE RunningIsReclaimable'
  BY <1>6 DEF Start, Crash
<1>7. ASSUME NEW t \in Task, Approve(t) PROVE RunningIsReclaimable'
  BY <1>7 DEF Approve
<1>8. CASE Clock
  BY <1>8 DEF Clock, LeaseExpires, BackoffElapses
<1>9. CASE UNCHANGED vars
  BY <1>9 DEF vars
<1>10. QED
  BY <1>1, <1>2, <1>3, <1>4, <1>5, <1>6, <1>7, <1>8, <1>9 DEF Next

\* Whatever the sweeps spare, a RUNNING row names a worker and carries a lease,
\* so a later sweep can take it back.
THEOREM RunningRowsReclaimable == Spec => []RunningIsReclaimable
<1>1. Init => RunningIsReclaimable
  BY DEF Init, RunningIsReclaimable
<1>2. QED
  BY <1>1, TypeInit, TypeStep, ReclaimableStep, PTL DEF Spec

-----------------------------------------------------------------------------
(* What exclusive work buys: settled rows stay settled, dependencies are   *)
(* honoured, retries are bounded.  Each theorem adds one invariant to      *)
(* TypeInv and Ownership.                                                  *)

Safe == TypeInv /\ Ownership

LEMMA SafeAlways == ASSUME SweepsKill PROVE Spec => []Safe
<1>1. Safe /\ [Next]_vars => Safe'
  BY TypeStep, OwnershipStep DEF Safe
<1>2. Init => Safe
  BY TypeInit, OwnershipInit DEF Safe
<1>3. QED
  BY <1>1, <1>2, PTL DEF Spec

-----------------------------------------------------------------------------
(* Settled rows.                                                           *)

\* The row a working process may write is RUNNING or PENDING_VERIFICATION.
LEMMA WorkedRowIsOpen ==
  ASSUME Safe, NEW p \in Proc, pc[p] \in Held
  PROVE  job[p] \in Task /\ state[job[p]] \in {"RUNNING", "PENDING_VERIFICATION"}
BY DEF Safe, TypeInv, JobsHeld, Held, Ownership, RowsOwned, Running

LEMMA SettledStep ==
  ASSUME Safe, [Next]_vars, NEW t \in Task, state[t] \in SettledStates
  PROVE  state'[t] = state[t]
<1> USE DEF Safe, TypeInv, TypeOK, Held, SettledStates, DoneStates, BrokenStates
<1>1. CASE Enqueue
  BY <1>1 DEF Enqueue, EnqueueNew, EnqueueDuplicate
<1>2. CASE Recover
  BY <1>2 DEF Recover, RecoverInterrupted, Interrupted, RetryElapsed
<1>3. CASE ResolveDependencies
  BY <1>3 DEF ResolveDependencies, Resolved
<1>4. ASSUME NEW p \in Proc, ClaimNext(p) PROVE state'[t] = state[t]
  BY <1>4 DEF ClaimNext, Claim, Claimable
<1>5. ASSUME NEW p \in Proc, Work(p) PROVE state'[t] = state[t]
  <2>1. pc[p] \in Held
    BY <1>5 DEF Work, PassGate, BlockAuthorization, Execute, SaveCheckpoint, SaveDiscrepancy,
                Complete, AllStepsDone, LastStepWaived, SubmitForVerification, RecordVerdict,
                Fail
  <2>2. job[p] # t
    BY <2>1, WorkedRowIsOpen
  <2>3. QED
    BY <1>5, <2>2 DEF Work, PassGate, BlockAuthorization, Execute, SaveCheckpoint,
                      SaveDiscrepancy, Complete, SubmitForVerification, RecordVerdict, Fail,
                      Settle
<1>6. ASSUME NEW p \in Proc, Start(p) \/ Crash(p) PROVE state'[t] = state[t]
  BY <1>6 DEF Start, Crash
<1>7. ASSUME NEW u \in Task, Approve(u) PROVE state'[t] = state[t]
  BY <1>7 DEF Approve
<1>8. CASE Clock
  BY <1>8 DEF Clock, LeaseExpires, BackoffElapses
<1>9. CASE UNCHANGED vars
  BY <1>9 DEF vars
<1>10. QED
  BY <1>1, <1>2, <1>3, <1>4, <1>5, <1>6, <1>7, <1>8, <1>9 DEF Next

\* No row that reached a final state is ever written again.
THEOREM SettledRowsAreFinal ==
  ASSUME SweepsKill PROVE Spec => SettledIsFinal
<1>1. Safe /\ [Next]_vars => [\A t \in Task : state[t] \in SettledStates => state'[t] = state[t]]_vars
  BY SettledStep
<1>2. QED
  BY <1>1, SafeAlways, PTL DEF Spec, SettledIsFinal

-----------------------------------------------------------------------------
(* Dependencies.                                                           *)

\* A row enters the states that presuppose its dependencies only when they are
\* all done, or from another such state.
LEMMA DependenciesStep ==
  ASSUME Safe, DependenciesHonoured, [Next]_vars
  PROVE  DependenciesHonoured'
<1> DEFINE Past == {"READY", "RUNNING", "CHECKPOINTED", "FAILED_RETRYABLE",
                    "PENDING_VERIFICATION", "COMPLETED", "VERIFIED_COMPLETE"}
<1>1. ASSUME NEW t \in Task, state'[t] \in Past
      PROVE  state[t] \in Past \/ DependenciesDone(t)
  <2> USE <1>1 DEF Safe, TypeInv, TypeOK
  <2>1. CASE Enqueue
    BY <2>1 DEF Enqueue, EnqueueNew, EnqueueDuplicate
  <2>2. CASE Recover
    BY <2>2 DEF Recover, RecoverInterrupted, Interrupted, RetryElapsed
  <2>3. CASE ResolveDependencies
    BY <2>3 DEF ResolveDependencies, Resolved
  <2>4. ASSUME NEW p \in Proc, ClaimNext(p) PROVE state[t] \in Past
    BY <2>4 DEF ClaimNext, Claim, Claimable
  <2>5. ASSUME NEW p \in Proc, Work(p) PROVE state[t] \in Past
    <3>1. pc[p] \in Held
      BY <2>5 DEF Work, PassGate, BlockAuthorization, Execute, SaveCheckpoint,
                  SaveDiscrepancy, Complete, AllStepsDone, LastStepWaived,
                  SubmitForVerification, RecordVerdict, Fail, Held
    <3>2. state[job[p]] \in Past
      BY <3>1, WorkedRowIsOpen
    <3>3. QED
      BY <2>5, <3>2 DEF Work, PassGate, BlockAuthorization, Execute, SaveCheckpoint,
                        SaveDiscrepancy, Complete, SubmitForVerification, RecordVerdict, Fail,
                        Settle
  <2>6. ASSUME NEW p \in Proc, Start(p) \/ Crash(p) PROVE state[t] \in Past
    BY <2>6 DEF Start, Crash
  <2>7. ASSUME NEW u \in Task, Approve(u) PROVE state[t] \in Past
    BY <2>7 DEF Approve
  <2>8. CASE Clock
    BY <2>8 DEF Clock, LeaseExpires, BackoffElapses
  <2>9. CASE UNCHANGED vars
    BY <2>9 DEF vars
  <2>10. QED
    BY <2>1, <2>2, <2>3, <2>4, <2>5, <2>6, <2>7, <2>8, <2>9 DEF Next
<1>2. ASSUME NEW t \in Task, state'[t] \in Past, NEW d \in Dependencies[t]
      PROVE  state'[d] \in DoneStates
  <2>1. d \in Task /\ state[d] \in DoneStates
    BY <1>1, <1>2, ConstantsAssumption DEF DependenciesHonoured, DependenciesDone
  <2>2. QED
    BY <2>1, SettledStep DEF SettledStates
<1>3. QED
  BY <1>2 DEF DependenciesHonoured

\* A task is runnable, running or done only when all it depends on is done.
THEOREM DependenciesAlwaysHonoured ==
  ASSUME SweepsKill PROVE Spec => []DependenciesHonoured
<1>1. Init => DependenciesHonoured
  BY DEF Init, DependenciesHonoured
<1>2. QED
  BY <1>1, SafeAlways, DependenciesStep, PTL DEF Spec

-----------------------------------------------------------------------------
(* Retries.                                                                *)

Waiting == {"ABSENT", "READY", "CHECKPOINTED", "BLOCKED_DEPENDENCY", "FAILED_RETRYABLE"}

\* Between two attempts every claim has been counted; during one, all but it.
RetryBudget ==
  \A t \in Task :
    /\ claims[t] <= attempts[t] + 1
    /\ state[t] \in Waiting => claims[t] <= attempts[t]
    /\ state[t] \notin SettledStates => attempts[t] <= MaxRetries

BudgetInv == RetryBudget /\ ClaimsBounded

LEMMA BudgetInit == Init => BudgetInv
BY ConstantsAssumption DEF Init, BudgetInv, RetryBudget, ClaimsBounded

LEMMA BudgetStep ==
  ASSUME Safe, BudgetInv, [Next]_vars
  PROVE  BudgetInv'
<1> USE ConstantsAssumption
<1> USE DEF BudgetInv, RetryBudget, ClaimsBounded, Safe, TypeInv, TypeOK, Waiting,
            SettledStates, DoneStates, BrokenStates
<1>1. CASE Enqueue
  BY <1>1 DEF Enqueue, EnqueueNew, EnqueueDuplicate
<1>2. CASE Recover
  <2> SUFFICES ASSUME NEW kill \in KillFlags, RecoverInterrupted(kill), NEW t \in Task
               PROVE  /\ claims'[t] <= attempts'[t] + 1
                      /\ state'[t] \in Waiting => claims'[t] <= attempts'[t]
                      /\ state'[t] \notin SettledStates => attempts'[t] <= MaxRetries
                      /\ claims'[t] <= MaxRetries + 1 /\ attempts'[t] <= MaxRetries + 1
    BY <1>2 DEF Recover
  <2>0. /\ claims'[t] = claims[t] /\ claims[t] \in Nat /\ attempts[t] \in Nat
        /\ claims[t] <= attempts[t] + 1
    BY DEF RecoverInterrupted, histVars
  <2>1. CASE Interrupted(t)
    <3>1. attempts[t] <= MaxRetries
      BY <2>1 DEF Interrupted
    <3>2. attempts'[t] = attempts[t] + 1
      BY <2>1 DEF RecoverInterrupted, Charged
    <3>3. state'[t] \notin SettledStates => attempts[t] + 1 <= MaxRetries
      BY <2>0, <2>1 DEF RecoverInterrupted, Exhausted
    <3>4. QED
      BY <2>0, <3>1, <3>2, <3>3
  <2>2. CASE ~ Interrupted(t)
    <3>1. attempts'[t] = attempts[t]
      BY <2>2 DEF RecoverInterrupted
    <3>2. state'[t] = state[t] \/ state[t] = "FAILED_RETRYABLE"
      BY <2>2 DEF RecoverInterrupted, RetryElapsed
    <3>3. QED
      BY <2>0, <3>1, <3>2
  <2>3. QED
    BY <2>1, <2>2
<1>3. CASE ResolveDependencies
  BY <1>3 DEF ResolveDependencies, Resolved
<1>4. ASSUME NEW p \in Proc, NEW t \in Task, NEW allowed, Claim(p, t, allowed) PROVE BudgetInv'
  <2>1. state[t] \in Waiting /\ claims[t] <= attempts[t] /\ attempts[t] <= MaxRetries
    BY <1>4 DEF Claim, Claimable
  <2>2. claims' = [claims EXCEPT ![t] = @ + 1] /\ attempts' = attempts
    BY <1>4 DEF Claim
  <2>3. state' = [state EXCEPT ![t] = "RUNNING"]
    BY <1>4 DEF Claim
  <2>4. QED
    BY <2>1, <2>2, <2>3
<1>5. ASSUME NEW p \in Proc, Fail(p) PROVE BudgetInv'
  <2>1. job[p] \in Task /\ state[job[p]] \in {"RUNNING", "PENDING_VERIFICATION"}
    BY <1>5, WorkedRowIsOpen DEF Fail, Held
  <2>2. claims[job[p]] <= attempts[job[p]] + 1 /\ attempts[job[p]] <= MaxRetries
    BY <2>1
  <2>3. /\ state' = [state EXCEPT ![job[p]] =
                        IF attempts[job[p]] + 1 > MaxRetries THEN "ESCALATED" ELSE "FAILED_RETRYABLE"]
        /\ attempts' = [attempts EXCEPT ![job[p]] = attempts[job[p]] + 1]
        /\ claims' = claims
    BY <1>5 DEF Fail, Settle, Exhausted, Charged
  <2>4. QED
    BY <2>1, <2>2, <2>3
<1>6. ASSUME NEW p \in Proc,
             \/ PassGate(p) \/ Execute(p) \/ SaveCheckpoint(p) \/ SaveDiscrepancy(p)
             \/ Start(p) \/ Crash(p)
      PROVE BudgetInv'
  BY <1>6 DEF PassGate, Execute, SaveCheckpoint, SaveDiscrepancy, Start, Crash
<1>7. ASSUME NEW p \in Proc,
             BlockAuthorization(p) \/ Complete(p) \/ SubmitForVerification(p)
               \/ \E v \in VerdictStates : RecordVerdict(p, v)
      PROVE BudgetInv'
  <2>1. job[p] \in Task /\ state[job[p]] \in {"RUNNING", "PENDING_VERIFICATION"}
    BY <1>7, WorkedRowIsOpen
       DEF BlockAuthorization, Complete, SubmitForVerification, AllStepsDone, LastStepWaived,
           RecordVerdict, Held
  <2>2. UNCHANGED <<attempts, claims>>
    BY <1>7 DEF BlockAuthorization, Complete, SubmitForVerification, RecordVerdict
  <2>3. \A t \in Task : t # job[p] => state'[t] = state[t]
    BY <1>7 DEF BlockAuthorization, Complete, SubmitForVerification, RecordVerdict, Settle
  <2>4. state'[job[p]] \notin Waiting
    BY <1>7, <2>1
       DEF BlockAuthorization, Complete, SubmitForVerification, RecordVerdict, VerdictStates,
           Settle
  <2>5. QED
    BY <2>1, <2>2, <2>3, <2>4
<1>8. ASSUME NEW u \in Task, Approve(u) PROVE BudgetInv'
  BY <1>8 DEF Approve
<1>9. CASE Clock
  BY <1>9 DEF Clock, LeaseExpires, BackoffElapses
<1>10. CASE UNCHANGED vars
  BY <1>10 DEF vars
<1>11. QED
  BY <1>1, <1>2, <1>3, <1>4, <1>5, <1>6, <1>7, <1>8, <1>9, <1>10 DEF Next, ClaimNext, Work

\* A task is handed out at most max_retries + 1 times, however it is interrupted.
THEOREM RetriesAreBounded ==
  ASSUME SweepsKill PROVE Spec => []ClaimsBounded
<1>1. BudgetInv => ClaimsBounded
  BY DEF BudgetInv
<1>2. QED
  BY <1>1, SafeAlways, BudgetInit, BudgetStep, PTL DEF Spec

-----------------------------------------------------------------------------
(* TaskQueue implements TaskLifecycle: whatever the workers, the crashes   *)
(* and the sweeps do to the rows, each task lives the life it promises.    *)

\* An open row still has an attempt left, which is what makes a failure a retry.
OpenRowsMayRetry == \A t \in Task : state[t] \notin SettledStates => attempts[t] <= MaxRetries

Ground == Safe /\ OpenRowsMayRetry

\* One row of one step.
TaskStep(t) ==
  \/ state[t] = "ABSENT" /\ state'[t] \in {"READY", "BLOCKED_DEPENDENCY"} /\ attempts'[t] = attempts[t]
  \/ state[t] = "BLOCKED_DEPENDENCY" /\ state'[t] \in {"READY", "ESCALATED"} /\ attempts'[t] = attempts[t]
  \/ state[t] \in {"READY", "CHECKPOINTED"} /\ state'[t] = "RUNNING" /\ attempts'[t] = attempts[t]
  \/ /\ state[t] = "RUNNING"
     /\ state'[t] \in {"COMPLETED", "PENDING_VERIFICATION", "BLOCKED_AUTHORIZATION"}
     /\ attempts'[t] = attempts[t]
  \/ state[t] = "PENDING_VERIFICATION" /\ state'[t] \in VerdictStates /\ attempts'[t] = attempts[t]
  \/ state[t] = "FAILED_RETRYABLE" /\ state'[t] \in {"READY", "CHECKPOINTED"} /\ attempts'[t] = attempts[t]
  \/ /\ state[t] = "RUNNING" /\ state'[t] \in {"READY", "CHECKPOINTED", "FAILED_RETRYABLE"}
     /\ attempts[t] < MaxRetries /\ attempts'[t] = attempts[t] + 1
  \/ /\ state[t] = "PENDING_VERIFICATION" /\ state'[t] = "FAILED_RETRYABLE"
     /\ attempts[t] < MaxRetries /\ attempts'[t] = attempts[t] + 1
  \/ /\ state[t] \in {"RUNNING", "PENDING_VERIFICATION"} /\ state'[t] = "ESCALATED"
     /\ attempts[t] = MaxRetries /\ attempts'[t] = attempts[t] + 1
  \/ state'[t] = state[t] /\ attempts'[t] = attempts[t]

\* An open row that is exhausted has used up its last retry.
LEMMA LastRetry ==
  ASSUME NEW a \in Nat, NEW m \in Nat, a <= m, a + 1 > m
  PROVE  a = m
OBVIOUS

LEMMA RowsStep ==
  ASSUME Ground, [Next]_vars, NEW t \in Task
  PROVE  TaskStep(t)
<1> USE ConstantsAssumption
<1> USE DEF Ground, Safe, TypeInv, TypeOK, TaskStep
<1>1. CASE Enqueue
  BY <1>1 DEF Enqueue, EnqueueNew, EnqueueDuplicate
<1>2. CASE Recover
  <2> SUFFICES ASSUME NEW kill \in KillFlags, RecoverInterrupted(kill) PROVE TaskStep(t)
    BY <1>2 DEF Recover
  <2>1. CASE Interrupted(t)
    <3>1. state[t] = "RUNNING" /\ attempts[t] <= MaxRetries
      BY <2>1 DEF Interrupted, OpenRowsMayRetry, SettledStates, DoneStates, BrokenStates
    <3>2. attempts'[t] = attempts[t] + 1
      BY <2>1 DEF RecoverInterrupted, Charged
    <3>3. CASE Exhausted(t)
      <4>1. attempts[t] = MaxRetries
        BY <3>1, <3>3, LastRetry DEF Exhausted
      <4>2. state'[t] = "ESCALATED"
        BY <2>1, <3>3 DEF RecoverInterrupted
      <4> QED
        BY <3>1, <3>2, <4>1, <4>2
    <3>4. CASE ~ Exhausted(t)
      BY <2>1, <3>1, <3>2, <3>4 DEF RecoverInterrupted, Exhausted, Resumable
    <3> QED
      BY <3>3, <3>4
  <2>2. CASE ~ Interrupted(t)
    BY <2>2 DEF RecoverInterrupted, RetryElapsed, Resumable
  <2> QED
    BY <2>1, <2>2
<1>3. CASE ResolveDependencies
  BY <1>3 DEF ResolveDependencies, Resolved
<1>4. ASSUME NEW p \in Proc, ClaimNext(p) PROVE TaskStep(t)
  BY <1>4 DEF ClaimNext, Claim, Claimable
<1>5. ASSUME NEW p \in Proc, BlockAuthorization(p) PROVE TaskStep(t)
  <2>1. state[job[p]] = "RUNNING"
    BY <1>5 DEF BlockAuthorization, Ownership, RowsOwned, Running
  <2> QED
    BY <1>5, <2>1 DEF BlockAuthorization, Settle
<1>6. ASSUME NEW p \in Proc, Complete(p) \/ SubmitForVerification(p) PROVE TaskStep(t)
  <2>1. state[job[p]] = "RUNNING"
    BY <1>6 DEF Complete, SubmitForVerification, AllStepsDone, LastStepWaived, Ownership,
                RowsOwned, Running
  <2> QED
    BY <1>6, <2>1 DEF Complete, SubmitForVerification, Settle
<1>7. ASSUME NEW p \in Proc, NEW v \in VerdictStates, RecordVerdict(p, v) PROVE TaskStep(t)
  <2>1. state[job[p]] = "PENDING_VERIFICATION"
    BY <1>7 DEF RecordVerdict, Ownership, RowsOwned
  <2> QED
    BY <1>7, <2>1 DEF RecordVerdict, Settle
<1>8. ASSUME NEW p \in Proc, Fail(p) PROVE TaskStep(t)
  <2>1. job[p] \in Task /\ state[job[p]] \in {"RUNNING", "PENDING_VERIFICATION"}
    BY <1>8, WorkedRowIsOpen DEF Fail, Held
  <2>2. attempts[job[p]] \in Nat /\ attempts[job[p]] <= MaxRetries
    BY <2>1 DEF OpenRowsMayRetry, SettledStates, DoneStates, BrokenStates
  <2>3. CASE job[p] = t /\ Exhausted(t)
    <3>1. attempts[t] = MaxRetries
      BY <2>2, <2>3, LastRetry DEF Exhausted
    <3>2. state'[t] = "ESCALATED" /\ attempts'[t] = attempts[t] + 1
      BY <1>8, <2>1, <2>3 DEF Fail, Settle, Charged
    <3> QED
      BY <2>1, <2>3, <3>1, <3>2
  <2>4. CASE job[p] = t /\ ~ Exhausted(t)
    BY <1>8, <2>1, <2>2, <2>4 DEF Fail, Settle, Exhausted, Charged
  <2>5. CASE job[p] # t
    BY <1>8, <2>5 DEF Fail, Settle
  <2> QED
    BY <2>3, <2>4, <2>5
<1>9. ASSUME NEW p \in Proc,
             \/ PassGate(p) \/ Execute(p) \/ SaveCheckpoint(p) \/ SaveDiscrepancy(p)
             \/ Start(p) \/ Crash(p)
      PROVE TaskStep(t)
  BY <1>9 DEF PassGate, Execute, SaveCheckpoint, SaveDiscrepancy, Start, Crash
<1>10. ASSUME NEW u \in Task, Approve(u) PROVE TaskStep(t)
  BY <1>10 DEF Approve
<1>11. CASE Clock
  BY <1>11 DEF Clock, LeaseExpires, BackoffElapses
<1>12. CASE UNCHANGED vars
  BY <1>12 DEF vars
<1> QED
  BY <1>1, <1>2, <1>3, <1>4, <1>5, <1>6, <1>7, <1>8, <1>9, <1>10, <1>11, <1>12 DEF Next, Work

\* The step of a row is a step of its task.
LEMMA RowStepIsTaskStep ==
  ASSUME NEW t \in Task, TaskStep(t)
  PROVE  Lifecycle!Step(t) \/ Lifecycle!Stay(t)
BY DEF TaskStep, PhaseOf, VerdictStates, Lifecycle!Step, Lifecycle!Stay, Lifecycle!Moves,
       Lifecycle!Submit, Lifecycle!Unblock, Lifecycle!Abandon, Lifecycle!HandOut,
       Lifecycle!Finish, Lifecycle!Judge, Lifecycle!Requeue, Lifecycle!Retry, Lifecycle!GiveUp

LEMMA GroundAlways == ASSUME SweepsKill PROVE Spec => []Ground
<1>1. Safe /\ BudgetInv => Ground
  BY DEF Ground, BudgetInv, RetryBudget, OpenRowsMayRetry
<1>2. Safe /\ BudgetInv /\ [Next]_vars => BudgetInv'
  BY BudgetStep
<1>3. QED
  BY <1>1, <1>2, SafeAlways, BudgetInit, PTL DEF Spec

\* The life of every task is one that TaskLifecycle allows: the SQLite rows,
\* their workers and their sweeps implement it.
THEOREM ImplementsLifecycle ==
  ASSUME SweepsKill PROVE Spec => FollowsLifecycle
<1>1. Init => Lifecycle!Start
  BY DEF Init, Lifecycle!Start, PhaseOf
<1>2. Ground /\ [Next]_vars => [Lifecycle!Next]_Lifecycle!LifeVars
  <2> SUFFICES ASSUME Ground, [Next]_vars PROVE Lifecycle!Next
    OBVIOUS
  <2> QED
    BY RowsStep, RowStepIsTaskStep DEF Lifecycle!Next
<1> QED
  BY <1>1, <1>2, GroundAlways, PTL DEF Spec, FollowsLifecycle, Lifecycle!Spec
=============================================================================
