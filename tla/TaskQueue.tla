------------------------------ MODULE TaskQueue ------------------------------
(***************************************************************************)
(* The durable task queue of PAA OS: the SQLite table paa_tasks            *)
(* (src/paa_os/task_db.py) and the processes that work on it.              *)
(*                                                                         *)
(* Every method of PAATaskDB runs in one BEGIN IMMEDIATE transaction, so a *)
(* method is one atomic action.  A director process (director.py) claims a *)
(* row, runs its steps, checkpoints after each, and settles the row; it    *)
(* can crash between any two of those transactions.  The recovery and      *)
(* dependency sweeps are run by the one-minute monitor (monitor.py) and by *)
(* every director cycle, concurrently with the workers.                    *)
(*                                                                         *)
(* Time is abstracted: a lease is live until it expires at an arbitrary    *)
(* moment, a back-off lasts until an arbitrary moment.  A process stands   *)
(* for an operating-system pid; a pid is not given out again while a row   *)
(* still names it.                                                         *)
(***************************************************************************)
EXTENDS Integers, FiniteSets

CONSTANTS
  Task,           \* task ids
  Proc,           \* pids of director processes
  NoTask, NoProc, \* "no task" in a process, worker_pid NULL in a row
  DedupeKey,      \* [Task -> key]: dedupe_key of each task
  Dependencies,   \* [Task -> SUBSET Task]: dependencies_json
  Steps,          \* [Task -> Nat]: length of payload["steps"]
  VerifyTasks,    \* tasks whose payload sets zero_trust_verify
  Reconciling,    \* tasks of category SAFETY_ACCOUNTING: one step, judged by its result
  Audits,         \* tasks of the categories whose last step need not be done or saved
  NeedApproval,   \* tasks of class EXPLICIT_AUTHORIZATION_REQUIRED
  Engineering,    \* tasks of the categories withheld while a repair runs
  Priority,       \* [Task -> SUBSET Nat]: the priority ranks each task is requested with
  MaxRetries,     \* max_retries column (every task alike)
  KillFlags       \* values kill_hung_local_worker is called with

VARIABLES
  state,          \* execution_state, ABSENT before the row is inserted
  prio,           \* priority_rank
  attempts,       \* attempts
  worker,         \* worker_pid
  lease,          \* lease_expires_utc: NULL, still ahead, or passed
  due,            \* next_eligible_at_utc <= now
  ckpt,           \* number of completed_steps in last_checkpoint_json
  unsound,        \* rows whose saved reconcile_pass has accounting_ok false
  pc,             \* where each process stands
  job,            \* the task a process holds in memory
  done,           \* its in-memory len(completed_steps)
  approved,       \* tasks with an operator approval record
  effects,        \* history: times each step's side effect was performed
  claims          \* history: times each task was handed to a worker

saved    == <<ckpt, unsound>>
rowVars  == <<state, prio, attempts, worker, lease, due, saved>>
procVars == <<pc, job, done>>
histVars == <<approved, effects, claims>>
vars     == <<rowVars, procVars, histVars>>

ActiveStates == {"READY", "RUNNING", "PENDING_VERIFICATION", "CHECKPOINTED", "BLOCKED_DEPENDENCY"}
DoneStates   == {"COMPLETED", "VERIFIED_COMPLETE"}
VerdictStates == {"VERIFIED_COMPLETE", "REJECTED", "BLOCKED", "FAILED"}
BrokenStates == {"FAILED", "REJECTED", "BLOCKED", "ESCALATED", "BLOCKED_AUTHORIZATION"}
SettledStates == DoneStates \cup BrokenStates
States == ActiveStates \cup SettledStates \cup {"ABSENT", "FAILED_RETRYABLE"}

Phases == {"down", "idle", "claimed", "executing", "effected", "discrepant", "verifying"}

ASSUME ConstantsAssumption ==
  /\ NoTask \notin Task
  /\ NoProc \notin Proc
  /\ Dependencies \in [Task -> SUBSET Task]
  /\ Steps \in [Task -> Nat]
  /\ VerifyTasks \subseteq Task /\ NeedApproval \subseteq Task /\ Engineering \subseteq Task
  /\ Reconciling \subseteq Task \ VerifyTasks /\ \A t \in Reconciling : Steps[t] = 1
  /\ Audits \subseteq Task \ (VerifyTasks \cup Reconciling)
  /\ Priority \in [Task -> SUBSET Nat]
  /\ MaxRetries \in Nat
  /\ KillFlags \subseteq BOOLEAN

StepsOf(t) == 1 .. Steps[t]

Init ==
  /\ state = [t \in Task |-> "ABSENT"]
  /\ prio = [t \in Task |-> 0]
  /\ attempts = [t \in Task |-> 0]
  /\ worker = [t \in Task |-> NoProc]
  /\ lease = [t \in Task |-> "none"]
  /\ due = [t \in Task |-> FALSE]
  /\ ckpt = [t \in Task |-> 0]
  /\ unsound = {}
  /\ pc = [p \in Proc |-> "down"]
  /\ job = [p \in Proc |-> NoTask]
  /\ done = [p \in Proc |-> 0]
  /\ approved = {}
  /\ effects = [t \in Task |-> [s \in StepsOf(t) |-> 0]]
  /\ claims = [t \in Task |-> 0]

-----------------------------------------------------------------------------
(* Enqueueing.                                                             *)

\* Mutant: the lookup forgets the rows that are being worked on.
DedupeQueuedStates == {"READY", "CHECKPOINTED", "BLOCKED_DEPENDENCY", "BLOCKED_AUTHORIZATION"}

\* The states in which a row with the same dedupe_key absorbs a new request.
DedupeStates == ActiveStates \cup {"BLOCKED_AUTHORIZATION"}

Duplicates(t) == {u \in Task : DedupeKey[u] = DedupeKey[t] /\ state[u] \in DedupeStates}

\* Mutant: a dependency that has not failed counts as done.
DependenciesNotFailed(t) == \A d \in Dependencies[t] : state[d] \notin BrokenStates \cup {"ABSENT"}

DependenciesDone(t) == \A d \in Dependencies[t] : state[d] \in DoneStates

EnqueueNew(t, p) ==
  /\ state[t] = "ABSENT"
  /\ Duplicates(t) = {}
  /\ state' = [state EXCEPT ![t] = IF DependenciesDone(t) THEN "READY" ELSE "BLOCKED_DEPENDENCY"]
  /\ prio' = [prio EXCEPT ![t] = p]
  /\ due' = [due EXCEPT ![t] = TRUE]
  /\ UNCHANGED <<attempts, worker, lease, saved, procVars, histVars>>

\* The request is absorbed; the row it found keeps the higher priority.
EnqueueDuplicate(t, p) ==
  /\ state[t] = "ABSENT"
  /\ \E u \in Duplicates(t) :
        /\ p > prio[u]
        /\ prio' = [prio EXCEPT ![u] = p]
  /\ UNCHANGED <<state, attempts, worker, lease, due, saved, procVars, histVars>>

-----------------------------------------------------------------------------
(* The sweeps.                                                             *)

Alive(p) == p # NoProc /\ pc[p] # "down"

\* Mutant: an expired lease is not looked at.
InterruptedByCrash(t) == state[t] = "RUNNING" /\ ~ Alive(worker[t])

\* RUNNING rows recover_interrupted_tasks acts on.
Interrupted(t) ==
  /\ state[t] = "RUNNING"
  /\ ~ Alive(worker[t]) \/ lease[t] = "expired"

RetryElapsed(t) == state[t] = "FAILED_RETRYABLE" /\ due[t]

\* Mutant: the comparison is made before the attempt is counted.
ExhaustedTooLate(t) == attempts[t] > MaxRetries

Exhausted(t) == attempts[t] + 1 > MaxRetries

\* Mutant: an interruption after a checkpoint is not counted.
ChargedUnlessSaved(t) == IF ckpt[t] > 0 THEN attempts[t] ELSE attempts[t] + 1

Charged(t) == attempts[t] + 1

Resumable(t) == IF ckpt[t] > 0 THEN "CHECKPOINTED" ELSE "READY"

\* Mutant: the sweep takes the row back and leaves the process running.
HungSpared(kill) == {}

\* Live processes whose lease ran out and that the sweep sends SIGTERM.
Hung(kill) == {worker[t] : t \in {u \in Task : kill /\ Interrupted(u) /\ Alive(worker[u])}}

Terminated(P) ==
  /\ pc' = [p \in Proc |-> IF p \in P THEN "down" ELSE pc[p]]
  /\ job' = [p \in Proc |-> IF p \in P THEN NoTask ELSE job[p]]
  /\ done' = [p \in Proc |-> IF p \in P THEN 0 ELSE done[p]]

RecoverInterrupted(kill) ==
  /\ \E t \in Task : Interrupted(t) \/ RetryElapsed(t)
  /\ state' = [t \in Task |-> IF Interrupted(t) /\ Exhausted(t) THEN "ESCALATED"
                              ELSE IF Interrupted(t) \/ RetryElapsed(t) THEN Resumable(t)
                              ELSE state[t]]
  /\ attempts' = [t \in Task |-> IF Interrupted(t) THEN Charged(t) ELSE attempts[t]]
  /\ due' = [t \in Task |-> IF Interrupted(t) /\ ~ Exhausted(t)
                            THEN ckpt[t] > 0 /\ attempts[t] = 0 /\ lease[t] # "expired"
                            ELSE due[t]]
  /\ worker' = [t \in Task |-> IF Interrupted(t) THEN NoProc ELSE worker[t]]
  /\ lease' = [t \in Task |-> IF Interrupted(t) THEN "none" ELSE lease[t]]
  /\ Terminated(Hung(kill))
  /\ UNCHANGED <<prio, saved, histVars>>

Present == {t \in Task : state[t] # "ABSENT"}

Loops == INSTANCE DependencyLoops WITH Row <- Present, Dep <- Dependencies

\* Mutant: no cycle is ever found.
NoCycleReports == {{}}

\* The search starts from every blocked row (module CycleSearch is the search).
CycleReports == Loops!Reports({t \in Present : state[t] = "BLOCKED_DEPENDENCY"})

Broken(t, C) ==
  \E d \in Dependencies[t] :
     state[d] \in BrokenStates \cup {"ABSENT"} \/ (d \in C /\ state[d] = "BLOCKED_DEPENDENCY")

Resolved(t, C) ==
  IF state[t] # "BLOCKED_DEPENDENCY" THEN state[t]
  ELSE IF t \in C \/ Broken(t, C) THEN "ESCALATED"
  ELSE IF DependenciesDone(t) THEN "READY"
  ELSE state[t]

ResolveDependencies ==
  /\ \E C \in CycleReports : state' = [t \in Task |-> Resolved(t, C)]
  /\ state' # state
  /\ UNCHANGED <<prio, attempts, worker, lease, due, saved, procVars, histVars>>

-----------------------------------------------------------------------------
(* A director process.                                                     *)

\* A pid is reused only when no row names it.
Start(p) ==
  /\ pc[p] = "down"
  /\ \A t \in Task : worker[t] # p
  /\ pc' = [pc EXCEPT ![p] = "idle"]
  /\ UNCHANGED <<rowVars, job, done, histVars>>

Claimable(t) == state[t] \in {"READY", "CHECKPOINTED"} /\ due[t]

\* ORDER BY of the claim; expected value and age only break ties.
Precedes(t, u) ==
  \/ prio[t] > prio[u]
  \/ prio[t] = prio[u] /\ state[t] = "CHECKPOINTED" /\ state[u] # "CHECKPOINTED"

\* Mutant: a resumed task starts over.
RestartFromScratch(t) == 0

\* The steps a worker skips for the row it claimed: those in completed_steps,
\* except a reconciliation whose saved result was not sound.
CompletedSteps(t) == IF t \in unsound THEN 0 ELSE ckpt[t]

Lease(t) == lease' = [lease EXCEPT ![t] = "live"]

Claim(p, t, allowed) ==
  /\ pc[p] = "idle"
  /\ t \in allowed /\ Claimable(t)
  /\ ~ \E u \in allowed : Claimable(u) /\ Precedes(u, t)
  /\ state' = [state EXCEPT ![t] = "RUNNING"]
  /\ worker' = [worker EXCEPT ![t] = p]
  /\ Lease(t)
  /\ pc' = [pc EXCEPT ![p] = "claimed"]
  /\ job' = [job EXCEPT ![p] = t]
  /\ done' = [done EXCEPT ![p] = CompletedSteps(t)]
  /\ claims' = [claims EXCEPT ![t] = @ + 1]
  /\ UNCHANGED <<prio, attempts, due, saved, approved, effects>>

\* The process is through with its task and returns to the claim loop.
Return(p) ==
  /\ pc' = [pc EXCEPT ![p] = "idle"]
  /\ job' = [job EXCEPT ![p] = NoTask]
  /\ done' = [done EXCEPT ![p] = 0]

\* Every settling UPDATE clears the worker and the lease.
Settle(t, st) ==
  /\ state' = [state EXCEPT ![t] = st]
  /\ worker' = [worker EXCEPT ![t] = NoProc]
  /\ lease' = [lease EXCEPT ![t] = "none"]

\* Mutant: the gate is passed once a first attempt was counted.
AuthorizedOnRetry(t) == t \notin NeedApproval \/ t \in approved \/ attempts[t] > 0

Authorized(t) == t \notin NeedApproval \/ t \in approved

PassGate(p) ==
  /\ pc[p] = "claimed"
  /\ Authorized(job[p])
  /\ pc' = [pc EXCEPT ![p] = "executing"]
  /\ UNCHANGED <<rowVars, job, done, histVars>>

\* The gate refuses, or a step raises PermissionDeniedError.
BlockAuthorization(p) ==
  /\ \/ pc[p] = "claimed" /\ ~ Authorized(job[p])
     \/ pc[p] \in {"executing", "effected"}
  /\ Settle(job[p], "BLOCKED_AUTHORIZATION")
  /\ Return(p)
  /\ UNCHANGED <<prio, attempts, due, saved, histVars>>

\* Mutant: the loop runs one step too many.
StepsLeftOrDone(p) == done[p] <= Steps[job[p]]

StepsLeft(p) == done[p] < Steps[job[p]]

\* The side effect of the first step that is not skipped.
Execute(p) ==
  /\ pc[p] = "executing"
  /\ StepsLeft(p)
  /\ effects' = [effects EXCEPT ![job[p]][done[p] + 1] = @ + 1]
  /\ pc' = [pc EXCEPT ![p] = "effected"]
  /\ UNCHANGED <<rowVars, job, done, approved, claims>>

\* The UPDATE of save_checkpoint names the task only: no state, no owner.
SaveCheckpoint(p) ==
  /\ pc[p] = "effected"
  /\ ckpt' = [ckpt EXCEPT ![job[p]] = done[p] + 1]
  /\ unsound' = unsound \ {job[p]}
  /\ Lease(job[p])
  /\ done' = [done EXCEPT ![p] = @ + 1]
  /\ pc' = [pc EXCEPT ![p] = "executing"]
  /\ UNCHANGED <<state, prio, attempts, worker, due, job, histVars>>

\* The reconciliation ran and the books do not agree: its step is saved all the
\* same, and what is left for the worker is fail_task.
SaveDiscrepancy(p) ==
  /\ pc[p] = "effected"
  /\ job[p] \in Reconciling
  /\ ckpt' = [ckpt EXCEPT ![job[p]] = done[p] + 1]
  /\ unsound' = unsound \cup {job[p]}
  /\ Lease(job[p])
  /\ done' = [done EXCEPT ![p] = @ + 1]
  /\ pc' = [pc EXCEPT ![p] = "discrepant"]
  /\ UNCHANGED <<state, prio, attempts, worker, due, job, histVars>>

AllStepsDone(p) == pc[p] = "executing" /\ ~ StepsLeft(p)

\* The audits complete without their last step when no AI budget is left for
\* it, and most of them do it without saving a checkpoint.
LastStepWaived(p) ==
  /\ pc[p] \in {"executing", "effected"}
  /\ job[p] \in Audits
  /\ done[p] + 1 = Steps[job[p]]

Complete(p) ==
  /\ AllStepsDone(p) \/ LastStepWaived(p)
  /\ job[p] \notin VerifyTasks
  /\ Settle(job[p], "COMPLETED")
  /\ Return(p)
  /\ UNCHANGED <<prio, attempts, due, saved, histVars>>

SubmitForVerification(p) ==
  /\ AllStepsDone(p)
  /\ job[p] \in VerifyTasks
  /\ Settle(job[p], "PENDING_VERIFICATION")
  /\ pc' = [pc EXCEPT ![p] = "verifying"]
  /\ UNCHANGED <<prio, attempts, due, saved, job, done, histVars>>

RecordVerdict(p, v) ==
  /\ pc[p] = "verifying"
  /\ Settle(job[p], v)
  /\ Return(p)
  /\ UNCHANGED <<prio, attempts, due, saved, histVars>>

\* A discrepancy, or any other exception: fail_task(retryable=True).
Fail(p) ==
  /\ pc[p] \in {"claimed", "executing", "effected", "discrepant", "verifying"}
  /\ LET t == job[p] IN
       /\ Settle(t, IF Exhausted(t) THEN "ESCALATED" ELSE "FAILED_RETRYABLE")
       /\ attempts' = [attempts EXCEPT ![t] = Charged(t)]
       /\ due' = [due EXCEPT ![t] = Exhausted(t)]
  /\ Return(p)
  /\ UNCHANGED <<prio, saved, histVars>>

\* The process dies between two transactions; the row keeps naming it.
Crash(p) ==
  /\ job[p] # NoTask
  /\ Terminated({p})
  /\ UNCHANGED <<rowVars, histVars>>

-----------------------------------------------------------------------------
(* The operator and the clock.                                             *)

Approve(t) ==
  /\ t \in NeedApproval \ approved
  /\ approved' = approved \cup {t}
  /\ UNCHANGED <<rowVars, procVars, effects, claims>>

LeaseExpires(t) ==
  /\ lease[t] = "live"
  /\ lease' = [lease EXCEPT ![t] = "expired"]
  /\ UNCHANGED <<state, prio, attempts, worker, due, saved, procVars, histVars>>

BackoffElapses(t) ==
  /\ ~ due[t] /\ state[t] # "ABSENT"
  /\ due' = [due EXCEPT ![t] = TRUE]
  /\ UNCHANGED <<state, prio, attempts, worker, lease, saved, procVars, histVars>>

-----------------------------------------------------------------------------
Enqueue == \E t \in Task : \E p \in Priority[t] : EnqueueNew(t, p) \/ EnqueueDuplicate(t, p)

Recover == \E kill \in KillFlags : RecoverInterrupted(kill)

\* allowed is what check_engineering_concurrency made of the categories: it
\* ran in an earlier transaction, so either answer may reach the claim.
ClaimNext(p) == \E allowed \in {Task, Task \ Engineering}, t \in Task : Claim(p, t, allowed)

Work(p) ==
  \/ PassGate(p) \/ BlockAuthorization(p)
  \/ Execute(p) \/ SaveCheckpoint(p) \/ SaveDiscrepancy(p)
  \/ Complete(p) \/ SubmitForVerification(p)
  \/ \E v \in VerdictStates : RecordVerdict(p, v)
  \/ Fail(p)

Clock == \E t \in Task : LeaseExpires(t) \/ BackoffElapses(t)

Next ==
  \/ Enqueue \/ Recover \/ ResolveDependencies
  \/ \E p \in Proc : Start(p) \/ ClaimNext(p) \/ Work(p) \/ Crash(p)
  \/ \E t \in Task : Approve(t)
  \/ Clock

Spec == Init /\ [][Next]_vars

\* Time passes, the timers of systemd start the monitor and the director again
\* and again, and an idle director claims.  Nothing is asked of a process that
\* holds a task: it may hang or crash.
Fairness ==
  /\ WF_vars(Recover)
  /\ WF_vars(ResolveDependencies)
  /\ \A t \in Task : WF_vars(LeaseExpires(t)) /\ WF_vars(BackoffElapses(t))
  /\ \A p \in Proc : WF_vars(Start(p)) /\ WF_vars(ClaimNext(p))

FairSpec == Spec /\ Fairness

\* The same, when no process hangs either; it may still crash.
DiligentSpec == FairSpec /\ \A p \in Proc : WF_vars(Work(p))

-----------------------------------------------------------------------------
(* Invariants.                                                             *)

\* Every column and every process variable keeps its type, and a checkpoint
\* never counts more steps than the task has.
TypeOK ==
  /\ state \in [Task -> States]
  /\ prio \in [Task -> Nat]
  /\ attempts \in [Task -> Nat]
  /\ worker \in [Task -> Proc \cup {NoProc}]
  /\ lease \in [Task -> {"none", "live", "expired"}]
  /\ due \in [Task -> BOOLEAN]
  /\ ckpt \in [Task -> Nat] /\ \A t \in Task : ckpt[t] <= Steps[t]
  /\ unsound \subseteq Reconciling
  /\ pc \in [Proc -> Phases]
  /\ job \in [Proc -> Task \cup {NoTask}]
  /\ done \in [Proc -> Nat]
  /\ approved \subseteq Task
  /\ claims \in [Task -> Nat]
  /\ effects = [t \in Task |-> effects[t]]
  /\ \A t \in Task : effects[t] \in [StepsOf(t) -> Nat]

Working(p) == pc[p] \in {"claimed", "executing", "effected", "discrepant", "verifying"}

\* A task is worked on by one live process at a time, whatever crashes, expires
\* or is swept in between: save_checkpoint, complete_task, fail_task and the
\* others update a row by its id alone and rely on it (task_db.py:1011-1331).
OneWorkerPerTask ==
  \A p, q \in Proc : Working(p) /\ Working(q) /\ job[p] = job[q] => p = q

\* A RUNNING row names a worker and carries a lease, so that the sweep can
\* always take it back (task_db.py:855-861 skips a row with neither).
RunningIsReclaimable ==
  \A t \in Task : state[t] = "RUNNING" => worker[t] # NoProc /\ lease[t] # "none"

\* Crashes, hangs and failures together hand a task out at most max_retries + 1
\* times, counted over all workers, and attempts stops one above max_retries
\* (task_db.py:867-870, 1301-1311).
ClaimsBounded ==
  \A t \in Task : claims[t] <= MaxRetries + 1 /\ attempts[t] <= MaxRetries + 1

\* A task is runnable, running or done only if everything it depends on is done,
\* although the check is made once, when it is enqueued or resolved
\* (task_db.py:626-633, 818-823).
DependenciesHonoured ==
  \A t \in Task :
    state[t] \in {"READY", "RUNNING", "CHECKPOINTED", "FAILED_RETRYABLE",
                  "PENDING_VERIFICATION", "COMPLETED", "VERIFIED_COMPLETE"}
      => \A d \in Dependencies[t] : state[d] \in DoneStates

\* A side effect is repeated only after an interruption that was counted as an
\* attempt: executions of one step never exceed attempts + 1.
RepetitionIsPaidFor ==
  \A t \in Task : \A s \in StepsOf(t) : effects[t][s] <= attempts[t] + 1

\* No step of a task that needs an operator approval has run without one, not
\* even when it is resumed from a checkpoint (director.py:342-347).
NoEffectBeforeApproval ==
  \A t \in NeedApproval : t \notin approved => \A s \in StepsOf(t) : effects[t][s] = 0

\* Among the rows of one dedupe_key that a worker may still pick up, at most one
\* has never failed: the lookup of enqueue_task admits a second row only while
\* the first waits out a back-off (task_db.py:596-602).
OneFreshRowPerKey ==
  \A t, u \in Task :
    /\ DedupeKey[t] = DedupeKey[u]
    /\ state[t] \in ActiveStates \cup {"BLOCKED_AUTHORIZATION"} /\ attempts[t] = 0
    /\ state[u] \in ActiveStates \cup {"BLOCKED_AUTHORIZATION"} /\ attempts[u] = 0
    => t = u

-----------------------------------------------------------------------------
(* What a step may never do.                                               *)

\* A settled row is never touched again, although no UPDATE checks for it.
SettledIsFinal ==
  [][\A t \in Task : state[t] \in SettledStates => state'[t] = state[t]]_vars

\* The saved steps of a row that count: all of them, unless its books disagreed.
Kept(t) == {s \in 1 .. ckpt[t] : t \notin unsound}

\* A step recorded in a checkpoint is never executed again, unless it is a
\* reconciliation recorded as unsound; a checkpoint never loses a step, and what
\* was once recorded as sound is never overwritten by an unsound result
\* (director.py:354-375, 545-548, 621-625).
CheckpointedStepsStayDone ==
  [][\A t \in Task :
       /\ ckpt'[t] >= ckpt[t]
       /\ t \in unsound' => t \in unsound \/ ckpt[t] = 0
       /\ \A s \in Kept(t) : effects'[t][s] = effects[t][s]]_vars

\* The phase of TaskLifecycle that each execution_state stands for.
PhaseOf(st) ==
  CASE st = "ABSENT" -> "new"
    [] st = "BLOCKED_DEPENDENCY" -> "blocked"
    [] st \in {"READY", "CHECKPOINTED"} -> "queued"
    [] st = "RUNNING" -> "running"
    [] st = "PENDING_VERIFICATION" -> "verifying"
    [] st = "FAILED_RETRYABLE" -> "backoff"
    [] OTHER -> "settled"

Lifecycle == INSTANCE TaskLifecycle WITH
  phase <- [t \in Task |-> PhaseOf(state[t])],
  failures <- attempts,
  Limit <- MaxRetries

\* Rows, workers, leases, crashes and sweeps add up to the life of a task that
\* TaskLifecycle promises: in particular nothing fails that was not handed out
\* and every retry is counted (task_db.py:1-21, Section 4.A.2).
FollowsLifecycle == Lifecycle!Spec

-----------------------------------------------------------------------------
(* Progress.                                                               *)

\* However often its workers hang or crash, a task outside the verification
\* flow eventually settles (Section 4.D, Anti-Stall Mechanism).
EveryTaskSettles ==
  \A t \in Task \ VerifyTasks : state[t] # "ABSENT" ~> state[t] \in SettledStates

-----------------------------------------------------------------------------
(* What the documentation says and the code does not do.                   *)

\* A task interrupted mid-flight is resumed by a later cycle
\* (director.py:333-334).  The sweep looks at RUNNING rows only, so a row whose
\* worker dies during the verification stays PENDING_VERIFICATION.
VerificationSettles ==
  \A t \in VerifyTasks : state[t] # "ABSENT" ~> state[t] \in SettledStates
=============================================================================
