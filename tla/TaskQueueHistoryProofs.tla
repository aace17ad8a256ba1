----------------------- MODULE TaskQueueHistoryProofs -----------------------
(***************************************************************************)
(* What TaskQueue promises about the side effects of a task over all its   *)
(* attempts: a repetition is paid for, a checkpoint is respected, nothing  *)
(* runs before its approval, and no request is taken in twice.             *)
(***************************************************************************)
EXTENDS TaskQueueProofs

USE DEF rowVars, saved, procVars, histVars

-----------------------------------------------------------------------------
(* Side effects and checkpoints.                                           *)

Stepping == {"claimed", "executing", "effected"}

\* What a worker skips is what its row holds to its credit, and of the steps it
\* has not come to none was performed more often than attempts of the task were
\* charged.
WorkersInStep ==
  \A p \in Proc :
    /\ pc[p] \in Stepping => done[p] = CompletedSteps(job[p])
    /\ pc[p] \in {"claimed", "executing"} =>
         \A s \in StepsOf(job[p]) : s > done[p] => effects[job[p]][s] <= attempts[job[p]]
    /\ pc[p] = "effected" =>
         \A s \in StepsOf(job[p]) : s > done[p] + 1 => effects[job[p]][s] <= attempts[job[p]]

\* The same between two attempts: what was performed and not checkpointed has
\* been charged by then.
WaitingRowsPaid ==
  \A t \in Task : state[t] \in Waiting =>
    \A s \in StepsOf(t) : s > CompletedSteps(t) => effects[t][s] <= attempts[t]

PaidInv == WorkersInStep /\ WaitingRowsPaid /\ RepetitionIsPaidFor

LEMMA PaidInit == Init => PaidInv
BY ConstantsAssumption
   DEF Init, PaidInv, WorkersInStep, WaitingRowsPaid, RepetitionIsPaidFor, Stepping, Waiting,
       CompletedSteps

\* One execution touches one counter.
LEMMA ExecuteEffects ==
  ASSUME TypeInv, NEW p \in Proc, Execute(p)
  PROVE  /\ job[p] \in Task /\ done[p] + 1 \in StepsOf(job[p])
         /\ \A t \in Task : t # job[p] => effects'[t] = effects[t]
         /\ \A s \in StepsOf(job[p]) : effects'[job[p]][s] =
              IF s = done[p] + 1 THEN effects[job[p]][s] + 1 ELSE effects[job[p]][s]
<1> USE ConstantsAssumption DEF TypeInv, TypeOK, JobsHeld, Held
<1>1. job[p] \in Task /\ done[p] + 1 \in StepsOf(job[p])
  BY DEF Execute, StepsLeft, StepsOf
<1>2. effects' = [effects EXCEPT ![job[p]][done[p] + 1] = @ + 1]
  BY DEF Execute
<1>3. effects'[job[p]] = [effects[job[p]] EXCEPT ![done[p] + 1] = @ + 1]
  BY <1>1, <1>2
<1>4. QED
  BY <1>1, <1>2, <1>3

LEMMA PaidStep ==
  ASSUME SweepsKill, Safe, PaidInv, [Next]_vars
  PROVE  PaidInv'
<1>e. ASSUME NEW p \in Proc, Execute(p)
      PROVE  /\ job[p] \in Task /\ done[p] + 1 \in StepsOf(job[p])
             /\ \A t \in Task : t # job[p] => effects'[t] = effects[t]
             /\ \A s \in StepsOf(job[p]) : effects'[job[p]][s] =
                  IF s = done[p] + 1 THEN effects[job[p]][s] + 1 ELSE effects[job[p]][s]
  BY <1>e, ExecuteEffects DEF Safe
<1> USE ConstantsAssumption
<1> USE DEF Safe, TypeInv, TypeOK, JobsHeld, Held, PaidInv, WorkersInStep, WaitingRowsPaid,
            RepetitionIsPaidFor, Running, Stepping, Waiting, CompletedSteps
<1>1. CASE Enqueue
  <2>1. UNCHANGED <<attempts, ckpt, unsound, effects, pc, job, done>>
    BY <1>1 DEF Enqueue, EnqueueNew, EnqueueDuplicate
  <2>2. \A t \in Task : state'[t] \in Waiting => state[t] \in Waiting
    BY <1>1 DEF Enqueue, EnqueueNew, EnqueueDuplicate
  <2>3. QED
    BY <2>1, <2>2
<1>2. CASE Recover
  <2> SUFFICES ASSUME NEW kill \in KillFlags, RecoverInterrupted(kill) PROVE PaidInv'
    BY <1>2 DEF Recover
  <2>1. /\ UNCHANGED <<ckpt, unsound, effects>>
        /\ \A t \in Task : attempts'[t] \in Nat /\ attempts[t] <= attempts'[t]
    BY DEF RecoverInterrupted, Charged
  <2>2. RepetitionIsPaidFor'
    <3> SUFFICES ASSUME NEW t \in Task, NEW s \in StepsOf(t)
                 PROVE  effects[t][s] <= attempts'[t] + 1
      BY <2>1
    <3>1. effects[t][s] \in Nat /\ attempts[t] \in Nat /\ effects[t][s] <= attempts[t] + 1
      OBVIOUS
    <3>2. QED
      BY <2>1, <3>1
  <2>3. WaitingRowsPaid'
    <3> SUFFICES ASSUME NEW t \in Task, state'[t] \in Waiting,
                        NEW s \in StepsOf(t), s > CompletedSteps(t)
                 PROVE  effects[t][s] <= attempts'[t]
      BY <2>1
    <3>1. effects[t][s] \in Nat /\ effects[t][s] <= attempts[t] + 1
      OBVIOUS
    <3>2. CASE Interrupted(t)
      BY <3>1, <3>2 DEF RecoverInterrupted, Charged
    <3>3. CASE ~ Interrupted(t)
      BY <3>3 DEF RecoverInterrupted, RetryElapsed
    <3>4. QED
      BY <3>2, <3>3
  <2>4. WorkersInStep'
    <3> SUFFICES ASSUME NEW p \in Proc, pc'[p] \in Stepping
                 PROVE  /\ done'[p] = IF job'[p] \in unsound THEN 0 ELSE ckpt[job'[p]]
                        /\ pc'[p] \in {"claimed", "executing"} =>
                             \A s \in StepsOf(job'[p]) :
                               s > done'[p] => effects[job'[p]][s] <= attempts'[job'[p]]
                        /\ pc'[p] = "effected" =>
                             \A s \in StepsOf(job'[p]) :
                               s > done'[p] + 1 => effects[job'[p]][s] <= attempts'[job'[p]]
      BY <2>1
    <3>1. pc'[p] = pc[p] /\ job'[p] = job[p] /\ ~ Interrupted(job[p])
      BY RecoverSparesOrKills
    <3>2. done'[p] = done[p] /\ attempts'[job[p]] = attempts[job[p]] /\ job[p] \in Task
      BY <3>1 DEF RecoverInterrupted, Terminated
    <3>3. QED
      BY <3>1, <3>2
  <2>5. QED
    BY <2>2, <2>3, <2>4
<1>3. CASE ResolveDependencies
  <2>1. UNCHANGED <<attempts, ckpt, unsound, effects, pc, job, done>>
    BY <1>3 DEF ResolveDependencies
  <2>2. \A t \in Task : state'[t] \in Waiting => state[t] \in Waiting
    BY <1>3 DEF ResolveDependencies, Resolved
  <2>3. QED
    BY <2>1, <2>2
<1>4. ASSUME NEW p \in Proc, NEW t \in Task, NEW allowed, Claim(p, t, allowed) PROVE PaidInv'
  <2>1. state[t] \in Waiting
    BY <1>4 DEF Claim, Claimable
  <2>2. UNCHANGED <<attempts, ckpt, unsound, effects>>
    BY <1>4 DEF Claim
  <2>3. \A u \in Task : state'[u] \in Waiting => state[u] \in Waiting
    BY <1>4 DEF Claim
  <2>4. WorkersInStep'
    BY ZenonT(60), <1>4, <2>1, <2>2 DEF Claim, CompletedSteps
  <2>5. QED
    BY <2>2, <2>3, <2>4
<1>5. ASSUME NEW p \in Proc, PassGate(p) PROVE PaidInv'
  BY ZenonT(60), <1>5 DEF PassGate
<1>6. ASSUME NEW p \in Proc, Execute(p) PROVE PaidInv'
  <2>1. /\ pc[p] = "executing" /\ pc' = [pc EXCEPT ![p] = "effected"]
        /\ UNCHANGED <<state, attempts, ckpt, unsound, job, done>>
    BY <1>6 DEF Execute
  <2>2. state[job[p]] = "RUNNING" /\ worker[job[p]] = p
    BY <2>1 DEF Ownership, RowsOwned
  <2>3. /\ job[p] \in Task /\ done[p] + 1 \in StepsOf(job[p])
        /\ \A t \in Task : t # job[p] => effects'[t] = effects[t]
        /\ \A s \in StepsOf(job[p]) : s # done[p] + 1 => effects'[job[p]][s] = effects[job[p]][s]
        /\ effects'[job[p]][done[p] + 1] = effects[job[p]][done[p] + 1] + 1
    BY <1>6, <1>e
  <2>4. effects[job[p]][done[p] + 1] <= attempts[job[p]]
    <3>1. done[p] + 1 > done[p]
      OBVIOUS
    <3>2. \A s \in StepsOf(job[p]) : s > done[p] => effects[job[p]][s] <= attempts[job[p]]
      BY <2>1
    <3>3. QED
      BY <2>3, <3>1, <3>2
  <2>5. \A q \in Proc : q # p /\ pc[q] \in Running => job[q] # job[p] /\ job[q] \in Task
    BY <2>2 DEF Ownership, RowsOwned
  <2>6. RepetitionIsPaidFor'
    <3> SUFFICES ASSUME NEW t \in Task, NEW s \in StepsOf(t)
                 PROVE  effects'[t][s] <= attempts[t] + 1
      BY <2>1
    <3>1. CASE t = job[p] /\ s = done[p] + 1
      BY <2>3, <2>4, <3>1
    <3>2. CASE ~ (t = job[p] /\ s = done[p] + 1)
      BY <2>3, <3>2
    <3>3. QED
      BY <3>1, <3>2
  <2>7. WaitingRowsPaid'
    BY <2>1, <2>2, <2>3
  <2>8. WorkersInStep'
    <3> SUFFICES ASSUME NEW q \in Proc, pc'[q] \in Stepping
                 PROVE  /\ done[q] = CompletedSteps(job[q])
                        /\ pc'[q] \in {"claimed", "executing"} =>
                             \A s \in StepsOf(job[q]) :
                               s > done[q] => effects'[job[q]][s] <= attempts[job[q]]
                        /\ pc'[q] = "effected" =>
                             \A s \in StepsOf(job[q]) :
                               s > done[q] + 1 => effects'[job[q]][s] <= attempts[job[q]]
      BY <2>1
    <3>1. CASE q = p
      <4>1. done[p] = CompletedSteps(job[p])
        BY <2>1
      <4>2. ASSUME NEW s \in StepsOf(job[p]), s > done[p] + 1
            PROVE  effects'[job[p]][s] <= attempts[job[p]]
        <5>1. s > done[p] /\ s # done[p] + 1
          BY <4>2 DEF StepsOf
        <5>2. QED
          BY <2>1, <2>3, <5>1
      <4>3. QED
        BY <2>1, <3>1, <4>1, <4>2
    <3>2. CASE q # p
      <4>1. pc'[q] = pc[q]
        BY <2>1, <3>2
      <4>2. effects'[job[q]] = effects[job[q]]
        BY <2>3, <2>5, <3>2, <4>1
      <4>3. QED
        BY <4>1, <4>2
    <3>3. QED
      BY <3>1, <3>2
  <2>9. QED
    BY <2>6, <2>7, <2>8
<1>7. ASSUME NEW p \in Proc, SaveCheckpoint(p) PROVE PaidInv'
  <2>1. /\ pc[p] = "effected" /\ pc' = [pc EXCEPT ![p] = "executing"]
        /\ done' = [done EXCEPT ![p] = @ + 1]
        /\ ckpt' = [ckpt EXCEPT ![job[p]] = done[p] + 1]
        /\ unsound' = unsound \ {job[p]}
        /\ UNCHANGED <<state, attempts, effects, job>>
    BY <1>7 DEF SaveCheckpoint
  <2>2. job[p] \in Task /\ state[job[p]] = "RUNNING" /\ worker[job[p]] = p
    BY <2>1 DEF Ownership, RowsOwned
  <2>3. \A q \in Proc : q # p /\ pc[q] \in Running => job[q] # job[p] /\ job[q] \in Task
    BY <2>2 DEF Ownership, RowsOwned
  <2>4. WaitingRowsPaid'
    BY <2>1, <2>2
  <2>5. WorkersInStep'
    BY ZenonT(60), <2>1, <2>2, <2>3
  <2>6. QED
    BY <2>1, <2>4, <2>5
<1>7a. ASSUME NEW p \in Proc, SaveDiscrepancy(p) PROVE PaidInv'
  <2>1. /\ pc[p] = "effected" /\ pc' = [pc EXCEPT ![p] = "discrepant"]
        /\ done' = [done EXCEPT ![p] = @ + 1]
        /\ ckpt' = [ckpt EXCEPT ![job[p]] = done[p] + 1]
        /\ unsound' = unsound \cup {job[p]}
        /\ UNCHANGED <<state, attempts, effects, job>>
    BY <1>7a DEF SaveDiscrepancy
  <2>2. job[p] \in Task /\ state[job[p]] = "RUNNING" /\ worker[job[p]] = p
    BY <2>1 DEF Ownership, RowsOwned
  <2>3. \A q \in Proc : q # p /\ pc[q] \in Running => job[q] # job[p] /\ job[q] \in Task
    BY <2>2 DEF Ownership, RowsOwned
  <2>4. WaitingRowsPaid'
    BY <2>1, <2>2
  <2>5. WorkersInStep'
    BY ZenonT(60), <2>1, <2>2, <2>3
  <2>6. QED
    BY <2>1, <2>4, <2>5
<1>8. ASSUME NEW p \in Proc,
             BlockAuthorization(p) \/ Complete(p) \/ SubmitForVerification(p)
               \/ \E v \in VerdictStates : RecordVerdict(p, v)
      PROVE PaidInv'
  <2>1. UNCHANGED <<attempts, ckpt, unsound, effects>>
    BY <1>8 DEF BlockAuthorization, Complete, SubmitForVerification, RecordVerdict
  <2>2. \A t \in Task : state'[t] \in Waiting => state[t] \in Waiting
    BY <1>8 DEF BlockAuthorization, Complete, SubmitForVerification, RecordVerdict,
                VerdictStates, Settle
  <2>3. \A q \in Proc : pc'[q] \in Running =>
          pc'[q] = pc[q] /\ job'[q] = job[q] /\ done'[q] = done[q]
    BY <1>8 DEF BlockAuthorization, Complete, SubmitForVerification, RecordVerdict, Return
  <2>4. QED
    BY <2>1, <2>2, <2>3
<1>9. ASSUME NEW p \in Proc, Fail(p) PROVE PaidInv'
  <2>1. /\ job[p] \in Task
        /\ attempts' = [attempts EXCEPT ![job[p]] = @ + 1]
        /\ UNCHANGED <<ckpt, unsound, effects>>
    BY <1>9 DEF Fail, Charged
  <2>2. \A t \in Task : t # job[p] => state'[t] = state[t]
    BY <1>9 DEF Fail, Settle
  <2>3. \A q \in Proc : pc'[q] \in Running =>
          pc'[q] = pc[q] /\ job'[q] = job[q] /\ done'[q] = done[q] /\ job[q] \in Task
    BY <1>9 DEF Fail, Return
  <2>4. \A t \in Task : \A s \in StepsOf(t) : effects[t][s] \in Nat
    OBVIOUS
  <2>5. RepetitionIsPaidFor'
    BY <2>1, <2>4
  <2>6. WaitingRowsPaid'
    BY <2>1, <2>2, <2>4
  <2>7. \A t \in Task, n \in Nat : n <= attempts[t] => n <= attempts'[t]
    BY <2>1
  <2>8. ASSUME NEW q \in Proc, pc'[q] \in Stepping
        PROVE  /\ done'[q] = IF job'[q] \in unsound' THEN 0 ELSE ckpt'[job'[q]]
               /\ pc'[q] \in {"claimed", "executing"} =>
                    \A s \in StepsOf(job'[q]) :
                      s > done'[q] => effects'[job'[q]][s] <= attempts'[job'[q]]
               /\ pc'[q] = "effected" =>
                    \A s \in StepsOf(job'[q]) :
                      s > done'[q] + 1 => effects'[job'[q]][s] <= attempts'[job'[q]]
    <3>1. pc[q] = pc'[q] /\ pc[q] \in Stepping /\ job[q] \in Task
      BY <2>3, <2>8
    <3>2. \A n \in Nat : n <= attempts[job[q]] => n <= attempts'[job[q]]
      BY <2>7, <3>1
    <3>3. \A s \in StepsOf(job[q]) : effects[job[q]][s] \in Nat
      BY <2>4, <3>1
    <3>4. done'[q] = done[q] /\ job'[q] = job[q] /\ UNCHANGED <<ckpt, unsound, effects>>
      BY <2>1, <2>3, <2>8
    <3>5. QED
      BY <3>1, <3>2, <3>3, <3>4
  <2>9. WorkersInStep'
    BY <2>8
  <2>10. QED
    BY <2>5, <2>6, <2>9
<1>10. ASSUME NEW p \in Proc, Start(p) \/ Crash(p) PROVE PaidInv'
  <2>1. UNCHANGED <<state, attempts, ckpt, unsound, effects>>
    BY <1>10 DEF Start, Crash
  <2>2. \A q \in Proc : pc'[q] \in Running =>
          pc'[q] = pc[q] /\ job'[q] = job[q] /\ done'[q] = done[q]
    BY <1>10 DEF Start, Crash, Terminated
  <2>3. QED
    BY <2>1, <2>2
<1>11. ASSUME NEW u \in Task, Approve(u) PROVE PaidInv'
  BY <1>11 DEF Approve
<1>12. CASE Clock
  BY <1>12 DEF Clock, LeaseExpires, BackoffElapses
<1>13. CASE UNCHANGED vars
  BY <1>13 DEF vars
<1>14. QED
  BY <1>1, <1>2, <1>3, <1>4, <1>5, <1>6, <1>7, <1>7a, <1>8, <1>9, <1>10, <1>11, <1>12,
     <1>13
     DEF Next, ClaimNext, Work

LEMMA PaidAlways == ASSUME SweepsKill PROVE Spec => []PaidInv
<1>1. Safe /\ PaidInv /\ [Next]_vars => PaidInv'
  BY PaidStep
<1>2. QED
  BY <1>1, PaidInit, SafeAlways, PTL DEF Spec

\* However often the workers of a task die, hang, fail or are stopped, a side
\* effect was performed at most once more than attempts were charged.
THEOREM RepetitionsArePaid ==
  ASSUME SweepsKill PROVE Spec => []RepetitionIsPaidFor
<1>1. PaidInv => RepetitionIsPaidFor
  BY DEF PaidInv
<1>2. QED
  BY <1>1, PaidAlways, PTL

\* A save counts one step more than the row held to its credit, and writes down
\* an unsound result only where nothing was saved or an unsound one was.
LEMMA SaveStep ==
  ASSUME TypeInv, PaidInv, NEW p \in Proc, SaveCheckpoint(p) \/ SaveDiscrepancy(p)
  PROVE  /\ job[p] \in Task /\ ckpt' = [ckpt EXCEPT ![job[p]] = done[p] + 1]
         /\ done[p] + 1 >= ckpt[job[p]]
         /\ SaveDiscrepancy(p) => job[p] \in unsound \/ ckpt[job[p]] = 0
<1> USE ConstantsAssumption DEF TypeInv, TypeOK, JobsHeld, Held
<1>1. pc[p] = "effected" /\ ckpt' = [ckpt EXCEPT ![job[p]] = done[p] + 1]
  BY DEF SaveCheckpoint, SaveDiscrepancy
<1>2. /\ job[p] \in Task /\ done[p] < Steps[job[p]] /\ ckpt[job[p]] <= Steps[job[p]]
      /\ done[p] \in Nat /\ ckpt[job[p]] \in Nat /\ Steps[job[p]] \in Nat
  BY <1>1
<1>3. done[p] = CompletedSteps(job[p])
  BY <1>1 DEF PaidInv, WorkersInStep, Stepping
<1>4. job[p] \in unsound => Steps[job[p]] = 1
  OBVIOUS
<1>5. done[p] + 1 >= ckpt[job[p]]
  BY <1>2, <1>3, <1>4 DEF CompletedSteps
<1>6. SaveDiscrepancy(p) => job[p] \in unsound \/ ckpt[job[p]] = 0
  BY <1>2, <1>3 DEF SaveDiscrepancy, CompletedSteps
<1>7. QED
  BY <1>1, <1>2, <1>5, <1>6

LEMMA CheckpointStep ==
  ASSUME Safe, PaidInv, [Next]_vars, NEW t \in Task
  PROVE  /\ ckpt'[t] >= ckpt[t]
         /\ t \in unsound' => t \in unsound \/ ckpt[t] = 0
         /\ \A s \in Kept(t) : effects'[t][s] = effects[t][s]
<1> DEFINE Lasts ==
             /\ ckpt'[t] >= ckpt[t]
             /\ t \in unsound' => t \in unsound \/ ckpt[t] = 0
             /\ \A s \in Kept(t) : effects'[t][s] = effects[t][s]
<1> SUFFICES Lasts
  OBVIOUS
<1> USE ConstantsAssumption
<1>1. ASSUME NEW p \in Proc, Execute(p) PROVE Lasts
  <2>1. /\ \A u \in Task : u # job[p] => effects'[u] = effects[u]
        /\ \A s \in StepsOf(job[p]) : s # done[p] + 1 => effects'[job[p]][s] = effects[job[p]][s]
    BY <1>1, ExecuteEffects DEF Safe
  <2>2. done[p] = CompletedSteps(job[p])
    BY <1>1 DEF Execute, PaidInv, WorkersInStep, Stepping
  <2>3. /\ ckpt[t] \in Nat /\ ckpt[t] <= Steps[t] /\ Steps[t] \in Nat
        /\ UNCHANGED <<ckpt, unsound>>
    BY <1>1 DEF Execute, Safe, TypeInv, TypeOK
  <2>4. CASE t = job[p] /\ t \notin unsound
    <3>1. \A s \in Kept(t) : s \in StepsOf(t) /\ s # ckpt[t] + 1
      BY <2>3 DEF StepsOf, Kept
    <3>2. QED
      BY <2>1, <2>2, <2>3, <2>4, <3>1 DEF CompletedSteps
  <2>5. CASE t \in unsound
    BY <2>3, <2>5 DEF Kept
  <2>6. QED
    BY <2>1, <2>3, <2>4, <2>5
<1>2. ASSUME NEW p \in Proc, SaveCheckpoint(p) \/ SaveDiscrepancy(p) PROVE Lasts
  <2>1. /\ job[p] \in Task /\ ckpt' = [ckpt EXCEPT ![job[p]] = done[p] + 1]
        /\ done[p] + 1 >= ckpt[job[p]]
        /\ SaveDiscrepancy(p) => job[p] \in unsound \/ ckpt[job[p]] = 0
    BY <1>2, SaveStep DEF Safe
  <2>2. ckpt \in [Task -> Nat]
    BY DEF Safe, TypeInv, TypeOK
  <2>3. ckpt'[t] >= ckpt[t]
    BY <2>1, <2>2
  <2>4. t \in unsound' => t \in unsound \/ ckpt[t] = 0
    BY <1>2, <2>1 DEF SaveCheckpoint, SaveDiscrepancy
  <2>5. effects' = effects
    BY <1>2 DEF SaveCheckpoint, SaveDiscrepancy
  <2>6. QED
    BY <2>3, <2>4, <2>5
<1>3. ASSUME UNCHANGED <<ckpt, unsound, effects>> PROVE Lasts
  BY <1>3 DEF Safe, TypeInv, TypeOK
<1>4. \/ \E p \in Proc : Execute(p) \/ SaveCheckpoint(p) \/ SaveDiscrepancy(p)
      \/ UNCHANGED <<ckpt, unsound, effects>>
  BY ZenonT(60) DEF Next, Enqueue, EnqueueNew, EnqueueDuplicate, Recover, RecoverInterrupted,
         ResolveDependencies, Start, ClaimNext, Claim, Work, PassGate, BlockAuthorization,
         Complete, SubmitForVerification, RecordVerdict, Fail, Crash, Approve, Clock,
         LeaseExpires, BackoffElapses, vars
<1> HIDE DEF Lasts
<1>5. QED
  BY <1>1, <1>2, <1>3, <1>4

\* No step that a checkpoint recorded to the credit of its task is executed
\* again, no checkpoint forgets a step, and no sound result is replaced by an
\* unsound one, whoever resumes the task.
THEOREM CheckpointsLast ==
  ASSUME SweepsKill PROVE Spec => CheckpointedStepsStayDone
<1>1. Safe /\ PaidInv /\ [Next]_vars =>
        [\A t \in Task :
           /\ ckpt'[t] >= ckpt[t]
           /\ t \in unsound' => t \in unsound \/ ckpt[t] = 0
           /\ \A s \in Kept(t) : effects'[t][s] = effects[t][s]]_vars
  BY CheckpointStep
<1>2. QED
  BY <1>1, SafeAlways, PaidAlways, PTL DEF Spec, CheckpointedStepsStayDone

-----------------------------------------------------------------------------
(* Approvals.                                                              *)

\* A worker past the gate holds a task that may run.
GatePassed ==
  \A p \in Proc : pc[p] \in {"executing", "effected", "verifying"} => Authorized(job[p])

ApprovalInv == GatePassed /\ NoEffectBeforeApproval

LEMMA ApprovalInit == Init => ApprovalInv
BY ConstantsAssumption DEF Init, ApprovalInv, GatePassed, NoEffectBeforeApproval

LEMMA ApprovalStep ==
  ASSUME TypeInv, ApprovalInv, [Next]_vars
  PROVE  ApprovalInv'
<1>1. approved \subseteq approved'
  BY DEF Next, Enqueue, EnqueueNew, EnqueueDuplicate, Recover, RecoverInterrupted,
         ResolveDependencies, Start, ClaimNext, Claim, Work, PassGate, BlockAuthorization,
         Execute, SaveCheckpoint, SaveDiscrepancy, Complete, SubmitForVerification,
         RecordVerdict, Fail, Crash, Approve, Clock, LeaseExpires, BackoffElapses, vars
<1>2. GatePassed'
  <2> SUFFICES ASSUME NEW p \in Proc, pc'[p] \in {"executing", "effected", "verifying"}
               PROVE  Authorized(job[p]) /\ job'[p] = job[p]
    BY <1>1 DEF GatePassed, Authorized
  <2> USE DEF TypeInv, TypeOK, ApprovalInv, GatePassed
  <2>1. CASE pc'[p] = pc[p] /\ job'[p] = job[p]
    BY <2>1
  <2>2. CASE Work(p)
    BY <2>2 DEF Work, PassGate, BlockAuthorization, Execute, SaveCheckpoint, SaveDiscrepancy,
                Complete, SubmitForVerification, AllStepsDone, LastStepWaived, RecordVerdict,
                Fail, Return
  <2>3. ASSUME NEW q \in Proc, q # p, Work(q) PROVE pc'[p] = pc[p] /\ job'[p] = job[p]
    BY <2>3 DEF Work, PassGate, BlockAuthorization, Execute, SaveCheckpoint, SaveDiscrepancy,
                Complete, SubmitForVerification, AllStepsDone, LastStepWaived, RecordVerdict,
                Fail, Return
  <2>4. ASSUME NEW q \in Proc, Start(q) \/ ClaimNext(q) \/ Crash(q)
        PROVE  pc'[p] = pc[p] /\ job'[p] = job[p]
    BY <2>4 DEF Start, ClaimNext, Claim, Crash, Terminated
  <2>5. CASE Recover
    BY <2>5 DEF Recover, RecoverInterrupted, Terminated
  <2>6. CASE \/ Enqueue \/ ResolveDependencies \/ (\E t \in Task : Approve(t)) \/ Clock
             \/ UNCHANGED vars
    BY <2>6 DEF Enqueue, EnqueueNew, EnqueueDuplicate, ResolveDependencies, Approve, Clock,
                LeaseExpires, BackoffElapses, vars
  <2>7. QED
    BY <2>1, <2>2, <2>3, <2>4, <2>5, <2>6 DEF Next
<1>3. NoEffectBeforeApproval'
  <2>1. ASSUME NEW p \in Proc, Execute(p) PROVE NoEffectBeforeApproval'
    <3>1. job[p] \notin NeedApproval \/ job[p] \in approved
      BY <2>1 DEF Execute, ApprovalInv, GatePassed, Authorized
    <3>2. \A t \in Task : t # job[p] => effects'[t] = effects[t]
      BY <2>1, ExecuteEffects
    <3>3. QED
      BY <1>1, <3>1, <3>2, ConstantsAssumption DEF ApprovalInv, NoEffectBeforeApproval
  <2>2. CASE effects' = effects
    BY <1>1, <2>2 DEF ApprovalInv, NoEffectBeforeApproval
  <2>3. effects' = effects \/ \E p \in Proc : Execute(p)
    BY DEF Next, Enqueue, EnqueueNew, EnqueueDuplicate, Recover, RecoverInterrupted,
           ResolveDependencies, Start, ClaimNext, Claim, Work, PassGate, BlockAuthorization,
           SaveCheckpoint, SaveDiscrepancy, Complete, SubmitForVerification, RecordVerdict,
           Fail, Crash, Approve, Clock, LeaseExpires, BackoffElapses, vars
  <2>4. QED
    BY <2>1, <2>2, <2>3
<1>4. QED
  BY <1>2, <1>3 DEF ApprovalInv

\* No step of a task that needs an approval is performed without one, on no
\* attempt and whatever the sweeps spare.
THEOREM ApprovalComesFirst == Spec => []NoEffectBeforeApproval
<1>1. ApprovalInv => NoEffectBeforeApproval
  BY DEF ApprovalInv
<1>2. QED
  BY <1>1, TypeInit, TypeStep, ApprovalInit, ApprovalStep, PTL DEF Spec

-----------------------------------------------------------------------------
(* Duplicate requests.                                                     *)

\* A row that waits out a back-off has failed: it is what the lookup of
\* enqueue_task may pass over.
BackoffFollowsFailure == \A t \in Task : state[t] = "FAILED_RETRYABLE" => attempts[t] > 0

FreshInv == BackoffFollowsFailure /\ OneFreshRowPerKey

OpenStates == ActiveStates \cup {"BLOCKED_AUTHORIZATION"}

Unfailed(t) == state[t] \in OpenStates /\ attempts[t] = 0

LEMMA FreshInit == Init => FreshInv
BY DEF Init, FreshInv, BackoffFollowsFailure, OneFreshRowPerKey, ActiveStates

\* A new row is the only change of its step, and was not absorbed.
LEMMA OneEnqueueAtATime ==
  ASSUME Safe, [Next]_vars, NEW t \in Task, state[t] = "ABSENT", state'[t] # "ABSENT"
  PROVE  Duplicates(t) = {} /\ \A u \in Task : u # t => state'[u] = state[u]
<1>1. CASE Enqueue
  <2>1. PICK v \in Task : \E r \in Priority[v] : EnqueueNew(v, r) \/ EnqueueDuplicate(v, r)
    BY <1>1 DEF Enqueue
  <2>1a. PICK r \in Priority[v] : EnqueueNew(v, r) \/ EnqueueDuplicate(v, r)
    BY <2>1
  <2>2. EnqueueNew(v, r) /\ v = t
    BY <2>1a DEF EnqueueNew, EnqueueDuplicate, Safe, TypeInv, TypeOK
  <2>3. QED
    BY <2>2 DEF EnqueueNew, Safe, TypeInv, TypeOK
<1>2. CASE ~ Enqueue
  <2> USE DEF Safe, TypeInv, TypeOK
  <2>1. CASE Recover
    BY <2>1 DEF Recover, RecoverInterrupted, Interrupted, RetryElapsed
  <2>2. CASE ResolveDependencies
    BY <2>2 DEF ResolveDependencies, Resolved
  <2>3. ASSUME NEW p \in Proc, ClaimNext(p) PROVE state'[t] = state[t]
    BY <2>3 DEF ClaimNext, Claim, Claimable
  <2>4. ASSUME NEW p \in Proc, Work(p) PROVE state'[t] = state[t]
    <3>1. pc[p] \in Held
      BY <2>4 DEF Work, PassGate, BlockAuthorization, Execute, SaveCheckpoint,
                  SaveDiscrepancy, Complete, AllStepsDone, LastStepWaived,
                  SubmitForVerification, RecordVerdict, Fail, Held
    <3>2. job[p] # t
      BY <3>1, WorkedRowIsOpen
    <3>3. QED
      BY <2>4, <3>2 DEF Work, PassGate, BlockAuthorization, Execute, SaveCheckpoint,
                        SaveDiscrepancy, Complete, SubmitForVerification, RecordVerdict, Fail,
                        Settle
  <2>5. ASSUME NEW p \in Proc, Start(p) \/ Crash(p) PROVE state'[t] = state[t]
    BY <2>5 DEF Start, Crash
  <2>6. CASE (\E u \in Task : Approve(u)) \/ Clock \/ UNCHANGED vars
    BY <2>6 DEF Approve, Clock, LeaseExpires, BackoffElapses, vars
  <2>7. QED
    BY <1>2, <2>1, <2>2, <2>3, <2>4, <2>5, <2>6 DEF Next
<1>3. QED
  BY <1>1, <1>2

LEMMA FreshStep ==
  ASSUME Ground, FreshInv, [Next]_vars
  PROVE  FreshInv'
<1>1. \A t \in Task : TaskStep(t) /\ attempts[t] \in Nat
  BY RowsStep DEF Ground, Safe, TypeInv, TypeOK
<1>2. BackoffFollowsFailure'
  BY <1>1 DEF TaskStep, FreshInv, BackoffFollowsFailure, VerdictStates
<1>3. ASSUME NEW t \in Task, Unfailed(t)'
      PROVE  Unfailed(t) \/ (state[t] = "ABSENT" /\ state'[t] # "ABSENT")
  BY <1>1, <1>3 DEF TaskStep, Unfailed, OpenStates, ActiveStates, VerdictStates, FreshInv,
                    BackoffFollowsFailure
<1>4. ASSUME NEW t \in Task, NEW u \in Task, DedupeKey[t] = DedupeKey[u],
             state[t] = "ABSENT", state'[t] # "ABSENT", Unfailed(u)'
      PROVE  t = u
  <2> SUFFICES ASSUME t # u PROVE FALSE
    OBVIOUS
  <2>1. Duplicates(t) = {} /\ state'[u] = state[u]
    BY <1>4, OneEnqueueAtATime DEF Ground
  <2>2. state[u] \in DedupeStates
    BY <1>4, <2>1 DEF Unfailed, OpenStates, DedupeStates
  <2>3. QED
    BY <1>4, <2>1, <2>2 DEF Duplicates
<1>5. ASSUME NEW t \in Task, NEW u \in Task, DedupeKey[t] = DedupeKey[u],
             Unfailed(t)', Unfailed(u)'
      PROVE  t = u
  <2>1. CASE Unfailed(t) /\ Unfailed(u)
    BY <1>5, <2>1 DEF FreshInv, OneFreshRowPerKey, Unfailed, OpenStates
  <2>2. CASE ~ Unfailed(t)
    BY <1>3, <1>4, <1>5, <2>2
  <2>3. CASE ~ Unfailed(u)
    BY <1>3, <1>4, <1>5, <2>3
  <2>4. QED
    BY <2>1, <2>2, <2>3
<1>6. OneFreshRowPerKey'
  BY <1>5 DEF OneFreshRowPerKey, Unfailed, OpenStates
<1>7. QED
  BY <1>2, <1>6 DEF FreshInv

\* A request finds the rows of its key that no worker has failed yet: of these
\* there is never a second one.
THEOREM OneFreshRow ==
  ASSUME SweepsKill PROVE Spec => []OneFreshRowPerKey
<1>1. Ground /\ FreshInv /\ [Next]_vars => FreshInv'
  BY FreshStep
<1>2. FreshInv => OneFreshRowPerKey
  BY DEF FreshInv
<1>3. QED
  BY <1>1, <1>2, FreshInit, GroundAlways, PTL DEF Spec
=============================================================================
