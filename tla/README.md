# A verification of PAA OS and of the live trading daemon

`quant_pipeline` is a trading repository.  Most of its 1281 files are numerical:
strategies, back-tests, data pipelines, archives.  Two parts must be right
whatever order things happen in.  **PAA OS** (`src/paa_os`) is the autonomous
system that audits the trading services, queues work, lets agents write code and
puts releases in place: short-lived processes, started by systemd timers, that
share one SQLite file and a few JSON files and may be killed at any moment.  The
**live daemon** (`src/execution/production_apex_daemon.py`) trades on Hyperliquid
and keeps its books, and the decision whether it may trade at all, in an event
journal it replays.  This directory models both in TLA+, checks them with TLC and
proves what matters most with TLAPS.

All paths below are relative to the repository's `src/` directory.

## 1. Inventory

### Components, their state and their operations

| Component | State | Operations |
|---|---|---|
| Task queue (`task_db.py:563-1331`) | table `paa_tasks`: execution state, priority, attempts, worker pid, lease, back-off, checkpoint | enqueue, recover, resolve dependencies, claim, checkpoint, complete, submit, verdict, block, fail |
| Cycle search (`task_db.py:735-756`) | colours and stack of a depth-first search inside the dependency sweep | visit, report, leave |
| Execution locks (`task_db.py:477-543`) | table `execution_locks`: owner, pid, expiry | acquire, renew, release |
| Director (`director.py`) | the task it holds, the steps it has done | run a cycle: lock, sweep, audit, claim and execute tasks |
| Release controller (`builder_and_deployer.py:225-683`) | `CURRENT_RELEASE.json`, release directories, live files and their backups, table `deployments` | seed or refresh the baseline, release a candidate, promote, roll back |
| Worktree builder (`builder_and_deployer.py:40-224`) | git worktrees | build and commit a candidate |
| Zero-trust controller (`zero_trust.py`) | `session_runs`, the checkpoint of the task | sessions A, B and C, five verification gates, verdict |
| Permission gate (`permissions.py`) | none; reads approval files | authorize a task, inspect a diff or a configuration |
| Monitor and supervisor (`monitor.py`) | heartbeats, incident log, wake-up trigger | sweep, reconcile, restart units; the supervisor repairs the monitor |
| Accountant (`accountant.py`) | `ACCOUNTING_SAFEGUARD_ACTIVE.json`, snapshots | reconcile, raise and clear the safeguard |
| Budget (`budget.py`) | `budget_ledger` | record a call, check caps, check the engineering slot |
| Agent runtime, researcher, optimizer | none that others write | call an agent; scan and enqueue |
| Command line and timers (`scripts/paa_cli.py`, `systemd/`) | `PAA_MASTER_STOP` | one command per timer |
| Live daemon (`execution/production_apex_daemon.py`) | the event journal, the emergency latch, the state replayed from them; orders on the exchange | boot, trip the breaker, reconcile fills and funding, judge the books, freeze a target, send orders, protect positions: one stop loss each, checked every minute |
| Operator scripts (`scripts/repair_journal_chain.py`, `scripts/reconcile_and_unhalt_apex.py`) | rewrite the journal, remove the latch | repair the chain; reset a halt |
| Polymarket harvester (`polymarket_research/`) | positions with their exit orders, a state file | supervise positions, post and cancel exits, book resolutions |
| Maker state machine, dead man's switch, risk governors (`pipeline/execution`, `risk/`) | quotes, heartbeats, stops | small loops over prices |
| IronCore, strategies, optimizers, data pipelines | arrays | batch computations |

### How they interact

- **Through the queue.**  The monitor (every minute), the director (every 15
  minutes and on a trigger file), the hourly, six-hourly and weekly commands and
  the accountant all enqueue.  Only a director claims.  The recovery and
  dependency sweeps are run by the monitor and by every director cycle, while
  other directors work.
- **Through the locks.**  A director holds `director_cycle` around a cycle and,
  inside it, `production_deploy` around each release.  The monitor, the
  supervisor and the six-hour evaluation hold neither.
- **Through the staging pointer.**  Releases and the six-hour evaluation write
  it; the verification reads it.
- **Through files.**  The safeguard file stops releases, the approval files let a
  task run, the harvester's state file says whether positions are open.
- **Through the exchange.**  The daemon is alone with its journal.  It learns of
  fills and funding by asking, up to a day late and more than once, and its
  orders may be accepted without an answer.
- **Through signals.**  The sweep sends SIGTERM to a worker whose lease ran out.

### What is hard, and what must hold

- *Queue.*  No update of a running row checks who owns it.  Correctness rests on
  the sweep stopping the worker before it hands the row to another: one worker
  per task, settled rows final, checkpoints never repeated, dependencies and
  approvals honoured, retries bounded, every task settled in the end.
- *Cycle search.*  The result depends on the order of the table.  It must report
  loops only, miss none for good, and end.
- *Locks.*  A holder never learns that its lock expired.  One holder per lock,
  and no lock blocked for ever by a dead process.
- *Releases.*  The pointer moves before the candidate is probed; any subprocess
  may time out; files are copied one by one; another process refreshes the
  pointer.  Nothing rejected is served, a rollback restores what it replaced, a
  failed promotion restores the files.
- *Engineering sessions.*  A commit is built, reviewed, staged and judged in steps
  of minutes, each of which may be the last of its process, while other sessions
  move the same staging pointer.  A verified task carries a reviewed commit and a
  release that stands, and its tests ran on nothing older.
- *Journal and breaker.*  A line has a number and the hash of the one before; a
  write may fail half-way, and the disk that refuses it may refuse the latch.  A
  halt outlives everything but the operator's reset, no entry is counted twice, the
  books are judged whole, no order precedes its intent, the file stays readable.
- *Stop losses.*  A sweep reads the account and the triggers, cancels and places,
  in steps the exchange does not wait for: stops fire, orders fill, answers are lost.
  Every position ends a sweep guarded or the daemon halts, no stop is dropped when it
  is about to serve, and what an earlier position left behind does not pass for good
  as the protection of the next.
- *Supervision, budget, safeguard.*  Values checked at one time and
  used at another; see the plan.

`PROJECT.json` lists every hazard with its line and the properties that cover it.

## 2. Modules

| Module | Models | Kind |
|---|---|---|
| `TaskQueue` | the queue, the processes that work on it, the sweeps, crashes, leases | detailed specification |
| `TaskLifecycle` | what the queue promises about a task | abstract specification |
| `CycleSearch` | the depth-first search, one action per step | algorithm |
| `DependencyLoops` | which rows a search for loops may report | operators on a graph, used by both |
| `ExecutionLock` | the two locks, time, systemd's limit, reused pids | detailed specification |
| `Release` | a release, the six-hour evaluation, the live files | detailed specification |
| `Staging` | what a release may do to the pointer of the active release | abstract specification, implemented by `Release` and by `EngineeringSession` |
| `EngineeringSession` | the sessions A, B and C, the release, the verification gates | composition with the queue and the release, each reduced to what a session sees |
| `ApexJournal` | the live daemon's journal, breaker, reconciliation and order of orders; the operator's scripts | detailed specification |
| `ApexBrackets` | the stop losses of the live daemon, one sweep after another, against the exchange | detailed specification |
| `MC...` | the instances that TLC checks | |
| `TaskQueueProofs`, `TaskQueueHistoryProofs`, `CycleSearchProofs`, `ExecutionLockProofs`, `ReleaseProofs`, `EngineeringSessionProofs`, `ApexJournalProofs`, `ApexBracketsProofs` | theorems | |

Operators whose comment begins with "Mutant:" are wrong variants of the operator
after them.  Put in its place, each makes a property fail: the property can tell
the code from a plausible mistake in it.

### TaskQueue

One row per task id.  `state`, `prio`, `attempts`, `worker`, `lease`, `due` and
`ckpt` are columns (a lease is absent, live or expired; `due` says that
`next_eligible_at_utc` has passed; `ckpt` counts `completed_steps`).  `pc`, `job`
and `done` are the memory of a director process.  `effects` and `claims` are
history and read by properties only.

Every method of `PAATaskDB` is one `BEGIN IMMEDIATE` transaction and therefore one
action: `EnqueueNew`, `EnqueueDuplicate`, `RecoverInterrupted`,
`ResolveDependencies`, `Claim`, `SaveCheckpoint`, `Complete`,
`SubmitForVerification`, `RecordVerdict`, `BlockAuthorization`, `Fail`.  Between
them a process acts on its own memory (`PassGate`, `Execute`), and can be killed
(`Crash`).  `_execute_task_with_checkpoints` performs a step and then saves the
checkpoint; `Execute` and `SaveCheckpoint` are two actions for that reason.
`ClaimNext` is given all categories or all but the engineering ones, since the
count of the engineering jobs was taken in an earlier transaction.

Abstractions and assumptions:
- a lease and a back-off end at an arbitrary moment, so every ratio of their
  lengths to the length of a step is covered;
- a hang is a process that takes no step; the sweep notices it by the lease;
- SIGTERM stops the worker within the transaction of the sweep.  In the code the
  signal is sent before the commit and no handler is installed;
- a pid is not given to a new process while a row still names it.  With reuse, a
  row stays RUNNING until its lease ends, and SIGTERM reaches a stranger: listed
  as a hazard;
- all processes run on one host, as the systemd units do;
- the step list stands for `payload["steps"]`, for the single step of categories
  without one, and for the fixed steps of the audits.  The audits (`Audits`) may
  complete without their last step, for want of AI budget, or without saving it
  (`LastStepWaived`).  The reconciliation of an accounting repair (`Reconciling`) is
  saved with its result: when the books disagree the step is in the checkpoint and
  counts for nothing (`SaveDiscrepancy`, `unsound`, `CompletedSteps`), and the next
  attempt reconciles again (`director.py:354-375`).  A `ZERO_TRUST_MULTI_SESSION_BUILD`
  step, which checkpoints and submits by itself, is `EngineeringSession`; a custom
  handler, used by tests, is left out;
- `CycleReports` is any answer that `DependencyLoops` allows for the rows and
  dependencies of the moment.  `CycleSearch` shows, and `NoLoopIsMissed` proves for
  every table, that the answer of the search is one of them.

### TaskLifecycle

A task is new, blocked, queued, running, verifying, in back-off or settled.  It
leaves `running` and `verifying` settled, or with one more failure; the failure
that exceeds the limit settles it.  `TaskQueue!Lifecycle` maps execution states to
phases and `attempts` to failures.  The queue implements it
(`FollowsLifecycle`), which says of rows, leases, crashes and sweeps together that
no retry goes uncounted and nothing fails that was not handed out.

### CycleSearch

`StartAt` is the outer loop, `Examine` one turn of the inner loop (`CloseCycle`,
`Descend` or `PassOver`), `Leave` the end of `_dfs`.  Rows and dependencies come
in any order, and so the search has many answers.  `DependencyLoops` says which are
right: members of loops only, with every member one it depends on, within reach of a
blocked row, and at least one member of each loop within reach.

### ExecutionLock

A row has a pid and ticks left; a process has the names of the locks whose
`owner_id` it keeps.  `Reclaimable` is the condition in `acquire_lock`.  `Tick`
lets time pass; a process under systemd cannot outlive `RunLimit`.  `Manual`
processes, started from a shell, can.  Here a pid may be reused at once.  The
release is nested in the cycle, as in the director; the acceptance script that
releases without a cycle is left out.

### Release

`pc` follows `release_candidate` through its gates, activation, canary,
promotion and record.  Any step may raise (`Raise`, a subprocess timeout for
instance) or be the last of the process (`Crash`); both leave the pointer and the
files as they are.  A promotion copies file by file (`CopyFile`); a copy that fails
(`CopyFails`) may leave the file torn, and what was copied is put back one file after
another (`RestoreFile`), in the same `except` block and on the same disk: a
restoration may raise or die too, tear the file it was writing and leave the rest as
they are (`RestoreFails`).  `before` is history: pointer and files at the last
activation.  `Evaluate` and `EvaluationWrites` are the six-hour
evaluation: it looks at the pointer, and writes it after git calls and file
copies.  `World` changes HEAD, the safeguard and the open positions.  The symlink
`current` is written and never read, and is left out.

### Staging

Releases come one at a time and under fresh ids.  One is opened on the release it
finds active (or on a baseline it seeds first), passes its gates or is rejected
before it was active, is made active, is probed, and is judged once: a failed probe
puts back what was active when it began.  It may be abandoned at any point, and then
leaves the pointer where it is.  `Refreshing` says whether a baseline may be made
active beside it.

Two modules implement it (`FollowsStaging`).  `Release` is the controller itself,
with its files, its promotion and the evaluation beside it: `StageOf` groups the
points of `release_candidate` into stages, and `FateOf` the states of a deployment
record into "rejected" and "deployed" (an undone promotion ends in an exception and
is a release abandoned).  `EngineeringSession` has the reduced release of a session: there is one
release for every holder of the deploy lock, and the evaluation is reduced to its
look at the pointer and its write.  That both implement
`Staging` is what allows a session to be checked against the reduced release: nothing
it does to the pointer is outside what the controller is known to do.

### EngineeringSession

One session per task, called by a director that runs the row.  `mem` is what
`execute_multi_session_engineering_task` keeps in `completed_steps` and
`stage_artifacts`, `ckpt` the same in the database.  `Investigate`, `Build` and
`Review` are the sessions; each ends in `SaveCheckpoint`, a step of its own since
the process may die before it.  A resumed run skips what the checkpoint holds and
nothing else: the release (`BeginRelease` to `RecordRelease`), `Submit`,
`ChooseDirectory` and `RecordVerdict` leave no checkpoint.  `Verdict` is the five
gates in their order.  Git, the canary, the tests, the permission gate and the
reviewer answer as they like.

The queue is reduced to a row that is claimed, given back with one more attempt, or
settled; the release to its lock, pointer and record; the six-hour evaluation to
`EvaluationLooks`, which finds an outdated baseline active, and `EvaluationWrites`,
which makes a new one active without the lock and whatever the pointer names by then
(`MaxEvaluations` bounds how often).  A baseline is named by the number of
activations before it, so that baselines and releases can be compared by age.
`TestedNoOlder` says that the tests of a verdict never run over what was active before
the release; it does not say that they run over the release, and when the evaluation
overtook it (see `release_refresh_race`) they run over a baseline without the
candidate's change.  Promotion is in `Release` and left out here.  A process that dies
frees the deploy lock at once, where
the code waits for the next taker to notice.  Builds and releases are numbered by
attempt; a task that had `MaxRetries + 1` attempts is escalated, which bounds both.

A list of steps that names `ZERO_TRUST_MULTI_SESSION_BUILD` ends there: the
director returns when the session does (`director.py:590`), and later steps never
run.

### ApexJournal

`file` is the journal; a hash is abstracted to the number of the line it covers, so
that a line carries its own number and its predecessor's.  `lastId` and `lastHash`
are the tail that `append_event` keeps: the first moves before the write, the
second after it.  `LogFails` covers the four things a failing append may leave:
nothing, the whole line, a torn one, or the line without its newline (`open`), which a
replay still reads and the next append joins to its own.  A line written behind a torn
one joins it.  `latch` is the file that `trip_halt` writes first (`WriteLatch`), before
the HALTED line and the breaker in memory (`HaltLogged`); its writer swallows every
exception, so it may fail and the trip goes on.  `halt` is history: a halt stands until
the operator's reset, and is forgotten when the process dies with neither the latch nor
the line on the disk.

`pc` walks through the cycles of `run_continuous_daemon`: `ReadAccount`, the fills
and the funding row by row (`Query`, `JournalRow`, and `AuditFill`, the second line of
each fill, whose failure is swallowed), `Replay`, `Judge...`, the high
water mark, the frozen target, then for each order `Intend`, `Send`, `Confirm`, and
the brackets (`Protected`, `GatewayOutage`, `Unhedged`).  `cycle` says which caller
gets the result.  A halted daemon keeps reconciling (`"watch"`).  Every step may be
the last (`Die`), and a death in an append may tear the line.  `RepairChain`,
`ResetJournal` and `ResetLatch` are the operator's scripts, which are assumed to
run one at a time while the daemon is down.

Two gaps of the reconciliation are in the model, and `JudgedOnWholeBooks` names them as
its only exceptions.  An answer that is no list is passed over (`PassOver`, lines 2458
and 2548) without a mark in `inputs_incomplete`, and the books are then judged, although
the comment at 2579-2581 says "Fail closed: never classify NAV ... on partial accounting
inputs" (`passed` is what lay behind such an answer).  And a clean journal stamps its
epoch (line 722) some calls after it read the opening equity (712): what the exchange
booked in between (`early`) is ignored ever after.

Left out: the paper modes; the satellites of experiment 112, switched off by a
constant (line 147); the 24-hour limit of the queries (every query returns all
rows); the second trip of `arm_position_brackets` after a trip that failed.  Dust
sweeps and stops, placed also while halted, reduce risk and are not "orders".  A
script that dies in the middle of rewriting the journal is a hazard without a
property.

### ApexBrackets

`arm_position_brackets` in live mode, for one coin.  `pos`, `entry`, `mark`, `stops`
and `exit` are the exchange's; `seen` is what `get_account_state` answered, `found`
the stop behind `existing_sl_px`, `sl` the level, `listed` the triggers still to be
cancelled, `valid`, `breached` and `armed` the flags of the function.  A sweep runs
from `ReadAccount` to `Verdict`; each call to the exchange is a step, which may be
refused, or taken and its answer lost.  Meanwhile maker orders and take-profits fill
(`Fill`), the macro rebalance's orders among them, which are not reduce-only and may
turn a position over in one fill (lines 3394-3402), the mark moves, stops fire late, a resting exit fills or is swept by a macro
cycle (`ExitEnds`), and the process may die.  `Level` is
`compute_v5_catastrophe_bracket`; `Close` is `close_position` with its two
immediate-or-cancel orders and the resting one.  `still` is history: nothing but the
sweep has touched the position since it was read.

Prices are levels of a grid wider than the tolerances of the code, so that "within
0.5 %" and "within 1 %" mean the same level.  The coins of a sweep share nothing but
the breaker.  The exchange is external and modelled by what the code takes it to do:
reduce-only orders never turn a position over, a resting one dies with its position,
a stop outlives its position (the orphan sweep exists for that) and a stop that fires
leaves the book.  A resting exit order counts as a guard, as it does in the code.
Left out: take-profits, whose failure is logged and nothing else; DEGRADED, which
does not stop a sweep; the paper mode; the tight ratchet, switched off by a constant.
The transient errors that `call_with_gateway_retry` repeats appear as the call that
succeeds in the end, or as the one that fails for good.

*Positions that turn over.*  The code never looks at the side of a stop, and a stop
outlives its position until a sweep finds the book flat or cancels it for its size or
level.  So the stop of a short may be taken for the protection of the long that followed
it, when it has the size of the long and lies where the long's own would be kept: the
sweep ends and the long has no stop (`Mistaken`).  `SweepProtects` allows this one case
and no other; without it TLC finds the property violated, against the docstring "so every
open position remains L1-protected" (line 2795).  `GuardLasts` shows that the mistake
does not last: the exchange executes the old stop once the mark has reached it, which
closes nothing, or the next sweep takes the position for breached and exits.  The reverse
is also what the code does: a long is "already breached" when its mark is below the
stop of the short (lines 3096-3097), and is dumped at once, far from its own level.
Nothing in the repository says otherwise of such a position, and no property claims it.

## 3. Runs

| Run | Instance | States | Shows |
|---|---|---|---|
| `queue_workers` | 3 tasks (an audit, one that waits for it and is verified, an accounting repair with the key of the first), 2 processes, up to 2 steps, 1 retry, 2 priorities | 928,518 | types, one worker per task, bounded claims, paid repetition, dependencies, approvals, one fresh row per key, settled and checkpointed work final, refinement of `TaskLifecycle` |
| `queue_progress` | 4 tasks (a chain and a loop, an audit and an accounting repair among them), 2 processes | 58,041 | every task outside the verification flow settles |
| `lock_supervised` | 3 directors, limit 4 ticks, locks of 4 and 2 ticks | 20,628 | one holder per lock; rows left behind are reclaimed |
| `cycle_search` | all graphs on 3 rows and a missing id, all sets of blocked rows, all orders | 346,240 | loops only, none missed, the search ends |
| `release_pipeline` | 3 candidates (one changes a file, one changes it and adds another, one deletes that), 2 files, 2 commits, the evaluation | 2,478,688 | nothing rejected is served; a rollback restores; no file is lost by a promotion, undone or not; refinement of `Staging` |
| `session_gates` | 2 tasks, one with a retry and one without, 1 lock, 1 pointer, 1 evaluation | 404,098 | a verified task carries a reviewed commit, a release that stands and tests on nothing older; every session ends; refinement of `Staging` |
| `apex_journal` | 1 fill, 1 funding payment, 1 order, 4 lines, 1 failing write, any deaths | 5,871,846 | a halt lasts, entries counted once, books judged whole, intents before orders, the chain keeps up |
| `apex_brackets` | 2 lots, 6 price levels, 2 distances, 5 moves, 1 fault | 2,702,652 | a sweep protects or halts, whatever turned over; a quiet book stays guarded |

*Why these bounds.*  Two processes are enough for one to lose a row to the other;
a third meets the same row in the same states.  Two steps give a crash before,
between and after checkpoints, one retry the first and the last attempt.  Three
rows hold self-loops, loops that share rows, and rows that wait for a loop.  Three
releases give one to serve, one to displace it, and one to roll back to or
restore from what the earlier two left.  Two sessions are enough for one to
activate, roll back or hold the lock between any two steps of the other, and one
retry for a session to be resumed once at each of its checkpoints; one evaluation
writes once, between any two of these steps.  Four lines
hold the epoch, a fill or a funding payment, an intent and a halt, or other lines in
their place; the failing write, of a line, of a newline or of the latch, may be any of
them.  The theorems about the journal hold for any number.  In `apex_brackets`
two lots tell a stop of the wrong size from a right one, two distances a stop of an
older ATR from today's, and six levels let a mark pass a stop or stay short of it on
both sides; five moves are an opening, an increase or a turn, moves of the mark and one of
the ATR, in any order, and a fault is a lost answer, a failed query or cancel, or a death.
The same properties hold with two faults on five levels (5,798,795 states, five minutes).  In the lock run the
cycle lock lives exactly as long as systemd allows, as deployed (600 s and
`TimeoutStartSec=600`), and the deploy lock half as long (300 s).

*Symmetry.*  Only processes (`queue_workers`) and rows (`cycle_search`) are
permuted, in runs without liveness.

*Fairness.*  `TaskQueue!Fairness` lets time pass, lets the sweeps run again and
again (the one-minute timer, repaired by the supervisor), and lets an idle director
start and claim (the 15-minute timer).  Nothing is asked of a process that holds
a task.  `DiligentSpec`, used only to refute, adds that processes do not hang.
`ExecutionLock!FairSpec` lets time pass and lets systemd stop what outlives its
limit.  `EngineeringSession!FairSpec` asks every session to go on: timers start directors
again and again, and every agent call and subprocess of a session has a timeout,
whose expiry is `Raise`.  It asks for no particular answer of the gates.
`ApexBrackets!FairSpec` asks the sweep to go on: the heartbeat comes every minute, an
exception leaves it running, and every call returns or raises.  Of the exchange it asks
that a stop the mark has reached is executed in the end, without which the old stop of a
turned position could be taken for its protection for ever; of the operator, nothing.
`CycleSearch`, `Release` and `ApexJournal` claim no liveness; `SearchEnds` is an action
property on a decreasing measure.

Queues may drain, a search finishes, and release ids may be used up: those
configurations turn the deadlock check off and say why.  The locks never stop.

### Where the code departs from its documentation

Each of these runs must find its property violated; `PROJECT.json` quotes the text.

| Run | What happens |
|---|---|
| `queue_verification_settles` | a worker that dies after submitting leaves its row PENDING_VERIFICATION for ever |
| `release_refresh_race` | the evaluation replaces a candidate that was activated after it looked |
| `apex_halt_forgotten` | the latch cannot be written, which is swallowed, the process dies before the line of the halt is on the disk, and its successor trades |
| `apex_stop_dropped` | after the ATR has widened, a stop that the mark has just reached is cancelled and placed again further away |

More facts show in the models and have no run:
- the side effect of a step comes before its checkpoint, so that a crash in between
  repeats it although `task_db.py:834-835` promises no duplicates;
  `RepetitionIsPaidFor` bounds the repetitions by the attempts;
- a row in back-off does not absorb a request with its key and later returns to
  the queue beside the new row (`task_db.py:597`);
- a sweep under `--no-recover` takes the row of a hung worker and lets the worker
  live (`monitor.py:164`);
- a director started from a shell can outlive its lock, and two releases overlap;
- a release whose canary times out stays active, and the next one takes it for the
  release to roll back to;
- a changed file that the release does not hold is passed over by a promotion
  reported complete, and a file that a failed promotion had added stays in place;
- a restoration that fails half way leaves the files behind it changed; their former
  contents are in the release's backup directory and nothing puts them back;
- a commit that session C turned down is staged all the same, and only the verdict after
  the release looks at the review (`zero_trust.py:998`);
- a task blocked for want of an approval has no way back once the approval
  arrives (`task_db.py:1277`);
- an append that fails without a trace leaves the number of the last event advanced;
  a second append before the next replay writes its line behind a gap that no replay
  gets over (`production_apex_daemon.py:424`); `ChainKeepsUp` says that nothing else
  breaks the chain;
- an answer that is no list counts as no rows, and the books are judged on it
  (`production_apex_daemon.py:2458, 2548`);
- the stop of an earlier position of the other side may pass for the protection of the
  next one, or have it dumped (lines 3059, 3096, 3104);
- a halted daemon sweeps no brackets (line 4254): a stop that fires in part, or that a
  fill outgrows, is not renewed until the operator's reset;
- a journal whose last line is torn stops the daemon at its start, and
  `repair_journal_chain.py` too, which parses every line.

## 4. Proofs

Every theorem holds for any tasks, processes, steps, graphs, candidates or files.
The module assumptions (`ConstantsAssumption`, `CycleAssumption`,
`LockAssumption`, `ReleaseAssumption`, `SessionAssumption`, `JournalAssumption`,
`BracketAssumption`) only type the constants and keep the kinds of entries apart;
the table that `CycleSearch` searches is finite.

| Theorem | Property | Assumes besides | Argument |
|---|---|---|---|
| `TaskQueueProofs!TypeCorrect` | `TypeOK` | | inductive with `JobsHeld`: a process holds a task exactly while it works and is never past its last step |
| `TaskQueueProofs!ExclusiveWork` | `OneWorkerPerTask` | `SweepsKill` | `RowsOwned`: a row in progress names the process that works on it, and a row under verification has one submitter; the only action that takes a RUNNING row away stops its worker in the same step (`RecoverSparesOrKills`) |
| `TaskQueueProofs!SettledRowsAreFinal` | `SettledIsFinal` | `SweepsKill` | a worker's row is RUNNING or PENDING_VERIFICATION, and each writer but the workers looks at the state first |
| `TaskQueueProofs!DependenciesAlwaysHonoured` | `DependenciesHonoured` | `SweepsKill` | a row that leaves BLOCKED_DEPENDENCY has its dependencies done, and done is final |
| `TaskQueueProofs!RetriesAreBounded` | `ClaimsBounded` | `SweepsKill` | `RetryBudget`: a waiting row has been handed out no more often than it was charged, any other at most once more, and an open row may still be charged |
| `TaskQueueProofs!ImplementsLifecycle` | `FollowsLifecycle` | `SweepsKill` | the invariants above give the phase and the failure count before each step; each action moves each row by a step of the abstract task or not at all |
| `TaskQueueProofs!RunningRowsReclaimable` | `RunningIsReclaimable` (no run checks it) | | inductive by itself: every writer of RUNNING sets the worker and the lease, and both are cleared only with the state |
| `TaskQueueHistoryProofs!RepetitionsArePaid` | `RepetitionIsPaidFor` | `SweepsKill` | `WorkersInStep`: a worker is exactly one step ahead of its checkpoint, and what lies past that step has been performed no more often than attempts were charged; `WaitingRowsPaid`: so has what a waiting row has not checkpointed |
| `TaskQueueHistoryProofs!CheckpointsLast` | `CheckpointedStepsStayDone` | `SweepsKill` | the same invariant: the step a worker performs is the first that its row's checkpoint does not credit; a reconciliation saved as unsound is credited to nobody and may be performed again |
| `TaskQueueHistoryProofs!ApprovalComesFirst` | `NoEffectBeforeApproval` | | `GatePassed`: whoever performs a step has passed the gate of its task, and no approval is taken back |
| `TaskQueueHistoryProofs!OneFreshRow` | `OneFreshRowPerKey` | `SweepsKill` | `BackoffFollowsFailure`: a row that waits out a back-off has been charged, so a request of its key finds every row that has not; no step makes an old row fresh |
| `ExecutionLockProofs!NoTwoHolders` | `OneHolder`, and that the result of `renew_lock` is always true | `Supervised` | `CycleOutlivesHolder`: the time left on the cycle lock plus the age of its holder exceeds the limit, so the lock outlives the holder; the deploy lock is held inside the cycle only, so its own expiry does not matter |
| `ExecutionLockProofs!TypeCorrect` | `TypeOK` | | inductive by itself; also with directors started by hand |
| `ReleaseProofs!TypeCorrect` | `TypeOK` | | inductive by itself |
| `ReleaseProofs!RejectedStaysOut` | `NothingRejectedIsServed` | | `ReachIsClean`: nothing the pointer, the saved pointer, the live files or the backups name has been rejected; `CandidateIsFresh`: a candidate under a gate is in none of them |
| `ReleaseProofs!RollbacksUndo` | `RollbackUndoesActivation` | | `SavedPointer`: another candidate that is active while one is under its gates is the one the release saved, since the evaluation writes baselines only |
| `ReleaseProofs!FailedPromotionsRestore` | `ExistingFilesRestored` | | `BackupsHold`: until a file is copied it is the one the activation found, and afterwards its backup is, whatever backups earlier releases left; while a promotion is being undone, a file still to be restored is in the backup and any other in place, so that a restoration that fails loses none |
| `ReleaseProofs!ImplementsStaging` | `FollowsStaging` | | `CleanInv`, the invariant of `RejectedStaysOut`, and `EvaluationAims`: what the evaluation is about to write is a baseline. Each step opens, moves or judges one release as `Staging` has it, or leaves the pointer and the records alone |
| `CycleSearchProofs!TypeCorrect` | `TypeOK` | | inductive by itself |
| `CycleSearchProofs!StackHoldsVisiting` | `StackIsVisiting` | | `StackOnce`: the nodes of colour 1 are those on the stack, each once; a node is entered with colour 0 and left from the top |
| `CycleSearchProofs!OnlyLoopsAreReported` | `ReportsAreLoops` | | `PathInv`: the stack is a path along dependencies and each node on it reaches those after it, so a dependency that is being visited closes a loop that begins where the stack first names it |
| `CycleSearchProofs!NoLoopIsMissed` | `EveryLoopIsTouched` | | `Examined`: what a visited node has looked at is visited; `LeftInOrder`: an unreported node is left after all it depends on; `NoLoopLeft`: so the nodes left without a report hold no loop. At the end all that was searched has been left, and the answer is one that `TaskQueue` takes the search for |
| `CycleSearchProofs!SearchMakesProgress` | `SearchEnds` | | a step adds to none of the three sets that `WorkLeft` counts and takes something from one of them |
| `EngineeringSessionProofs!Types` | `TypeOK` | | `Paid`: builds and releases number at most the attempts, with one more while a session is past its build or release |
| `EngineeringSessionProofs!ReviewsBind` | `VerifiedWasReviewed` | | `Reviewed`: an approval in memory or in a checkpoint names a commit in `passed`, and a release past its beginning holds the commit in memory |
| `EngineeringSessionProofs!DeploymentsStand` | `VerifiedWasDeployed` | | also `Reviewed`: the record a verdict was given on is not written again, since a verified task begins no release |
| `EngineeringSessionProofs!TestsAreCurrent` | `TestedNoOlder` | | `Ordered`: activations are numbered in order; while a release stands, neither the active one nor the one a rollback would restore is older; the evaluation's baseline is younger than all |
| `EngineeringSessionProofs!ImplementsStaging` | `FollowsStaging` | | the invariant of `TestsAreCurrent` and `Unjudged`: a release in progress has no verdict in its record yet. `StepKinds` sorts the actions of a session by what they do to the release |
| `ApexJournalProofs!Types` | `TypeOK` | | inductive by itself |
| `ApexJournalProofs!HaltsLast` | `HaltIsLasting` | | `HaltHeld`: a standing halt is in the latch, in the journal, in the memory of a live process or about to be written; a start and a reconciliation find the first two, and the points from which orders are sent, or from which the journal is replayed without a look at the latch and orders follow, are reached only without any |
| `ApexJournalProofs!ChainHolds` | `ChainKeepsUp` | | `Chain`: unless an append has failed, the file is valid, ends in a newline, and the numbers in memory are its length |
| `ApexJournalProofs!IntentsPrecedeOrders` | `IntentBeforeOrder` | | `Intents`: unless a torn line swallowed one, the intent of the order in hand is in the journal |
| `ApexJournalProofs!EntriesCountedOnce` | `CountedOnce` | | `Once`: what the journal holds the running daemon has in `seen` |
| `ApexJournalProofs!BooksAreWhole` | `JudgedOnWholeBooks` | | `Whole`: what is in `seen` is journaled, unless a row has just failed (and the inputs are partial) or the chain is broken (and the replay raises); what the account state rests on is in the batch, in `seen`, or among what the code skips: `passed`, and `early` once the epoch is set |
| `ApexBracketsProofs!TypeCorrect` | `TypeOK` | | inductive with `Reading`: the stops are looked at for a position, and swept for none |
| `ApexBracketsProofs!SweepsProtect` | `SweepProtects` | | `Kept`: an undisturbed position is the one that was read, a stop found valid is not on the list of those to be cancelled, and what was found valid or armed fits the position; `Computed`: the level is that of the reading. What fits and is not of the position's side is `Mistaken` |

`SweepsKill` says that no sweep runs under `--no-recover`; without it two workers
share a task.  `Supervised` says that systemd runs every director and its
limit does not exceed the life of the cycle lock; a director from a shell breaks
it.

What a recursive search computes cannot be proved here by induction over the graph.
`CycleSearch` takes the search step by step instead, and the induction is over its
steps: the three parts of `CoverInv` say what has been established when the search is
half done.

Model-checked only: liveness (`EveryTaskSettles`, `LeftBehindIsReclaimed`,
`EverySessionEnds`, `GuardLasts`), which the prover does not handle, and the four
properties that runs refute.  Every other property of a run is a theorem.  Two
theorems about the queue need no `SweepsKill`: `RunningIsReclaimable` and
`NoEffectBeforeApproval` survive `--no-recover`.

## 5. Plan

Done, in this order: `TaskQueue`, `TaskLifecycle`, `CycleSearch`, `ExecutionLock`,
`Release`, `ApexJournal`, `EngineeringSession`, `ApexBrackets`, `Staging`,
`DependencyLoops`, and their proofs.  To come, most
important first:

1. `ExitAccounting`: the supervision of a position's exit orders by the harvester
   (`polymarket_live_harvester.py:3900-5160, 11400-13490`,
   `polymarket_live_executor.py:2757-2935, 7483-8178`) against the order book and the
   chain, which report late and in part.  Properties: a closed position has booked
   what the exchange paid; one sell order at a time; a resolved position ends.
2. `ApexOrders`: the daemon's resting orders and positions
   (`production_apex_daemon.py:3269-3790, 3945-3975`).  Properties: the position never
   passes the frozen target, whatever fills between a read and a cancel.
3. `StopRatchet`: the stop that is placed before the old one is cancelled
   (`risk/dynamic_ratchet_daemon.py:40-158`).
4. `DirectorCycle`: the lock, the master stop, the engineering slot and the claim
   loop, composing `ExecutionLock` and the claims of `TaskQueue`.
5. `Supervision`: monitor and supervisor heartbeats; abstractly a watchdog.
6. `Safeguard`: raising and clearing by the accountant against the releases that
   read it once.
7. The budget caps and the decisions of the permission gate, as operators against
   a reference definition.

Proofs to come: a mutex that `ExecutionLock` implements; safety facts of `Staging`
proved once and inherited by both modules that implement it; and an abstract book of
fills that `ApexJournal` implements between two deaths.

## 6. Not modelled

The agent runtime is a subprocess with a timeout: the rest sees a step that may
fail or hang.  The researcher, the optimizer and the reports read data, compute and
enqueue.  The tables of findings, snapshots and heartbeats are last-writer-wins.
IronCore, the strategies, the governors and the optimizers are sequential
floating-point code whose correctness is a matter of numbers, beyond a model
checker.  The Polymarket harvester is, but for the protocol in the plan, some
78,000 lines of heuristics over external markets.  Archives, bundles (`*_all_in_one.py`), dashboards and data
are not part of the system's logic.
