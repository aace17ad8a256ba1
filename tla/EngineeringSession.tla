------------------------- MODULE EngineeringSession -------------------------
(***************************************************************************)
(* A change written, reviewed, staged and judged: the engineering sessions *)
(* of DeterministicVerificationController                                  *)
(* (src/paa_os/zero_trust.py:757-1047) and its verification gates          *)
(* (574-756), called by a director for a row it has claimed.               *)
(*                                                                         *)
(* Sessions A (investigate), B (build) and C (review) leave a checkpoint   *)
(* each and are skipped by a later run that finds it.  The release and the *)
(* verification leave none and are repeated.  Several directors may work,  *)
(* on a task each; they share the deploy lock and the staging pointer.     *)
(*                                                                         *)
(* The queue is reduced to what a session sees of it (module TaskQueue has *)
(* the rest): an interruption is counted, and the row is handed out again  *)
(* or escalated.  The release is module Release's, without promotion; the  *)
(* six-hour evaluation moves the pointer beside it.  The n-th build and    *)
(* the n-th release of a task stand for a commit and a release id, and the *)
(* id of a baseline for the activations before it was written.             *)
(***************************************************************************)
EXTENDS Integers

CONSTANTS
  Task,
  NoTask,
  Baseline,    \* what the ids of baselines begin with
  MaxRetries,  \* [Task -> Nat]: max_retries column
  MostRetries, \* bound on it
  MaxEvaluations  \* bound: evaluations that are to write a baseline

ASSUME SessionAssumption ==
  /\ NoTask \notin Task /\ Baseline \notin Task
  /\ NoTask \notin (Task \cup {Baseline}) \X Nat
  /\ MostRetries \in Nat /\ MaxEvaluations \in Nat
  /\ MaxRetries \in [Task -> 0 .. MostRetries]

VARIABLES
  row,        \* execution_state
  attempts,   \* attempts
  ckpt,       \* last_checkpoint: completed_steps and stage_artifacts
  submission, \* worker_submission: the claimed commit and release
  record,     \* state column of the deployments table
  source,     \* the commit each release holds
  builds,     \* commits made for the task
  pointer,    \* CURRENT_RELEASE.json
  deploying,  \* who holds production_deploy
  eval,       \* where the six-hour evaluation stands
  evaluations, \* how many were to write a baseline
  pc,         \* where the session of the task stands
  mem,        \* its completed_steps and stage_artifacts
  release,    \* its release: also the number of releases begun
  prev,       \* prev_pointer of the release in progress
  tested,     \* the release whose directory the verification tests
  passed,     \* history: commits that session C approved
  stamp,      \* history: when each release was activated, counting activations
  clock       \* history: activations so far

history == <<passed, stamp, clock>>
db     == <<row, attempts, ckpt, submission, record>>
local  == <<mem, release, prev, tested>>
evaluation == <<eval, evaluations>>
vars   == <<db, source, builds, pointer, deploying, evaluation, pc, local, history>>

Number == 0 .. MostRetries + 1
Sessions == {"A", "B", "C"}
Settled == {"VERIFIED_COMPLETE", "REJECTED", "BLOCKED", "BLOCKED_AUTHORIZATION", "ESCALATED"}
Outcomes == {"TURNED_DOWN", "ROLLED_BACK", "DEPLOYED_VERIFIED"}
Artifacts == [done : SUBSET Sessions, commit : Number, approved : BOOLEAN]
Fresh == [done |-> {}, commit |-> 0, approved |-> FALSE]

\* The baseline written after n activations of candidates, and the first one.
BaselineAt(n) == <<Baseline, n>>
FirstBaseline == BaselineAt(0)

Init ==
  /\ row = [t \in Task |-> "READY"]
  /\ attempts = [t \in Task |-> 0]
  /\ ckpt = [t \in Task |-> Fresh]
  /\ submission = [t \in Task |-> [commit |-> 0, release |-> 0]]
  /\ record = [t \in Task |-> [n \in Number |-> "NONE"]]
  /\ source = [t \in Task |-> [n \in Number |-> 0]]
  /\ builds = [t \in Task |-> 0]
  /\ pointer = FirstBaseline /\ deploying = NoTask
  /\ eval = "idle" /\ evaluations = 0
  /\ pc = [t \in Task |-> "idle"]
  /\ mem = [t \in Task |-> Fresh]
  /\ release = [t \in Task |-> 0]
  /\ prev = FirstBaseline
  /\ tested = [t \in Task |-> FirstBaseline]
  /\ passed = [t \in Task |-> {}]
  /\ stamp = [t \in Task |-> [n \in Number |-> 0]] /\ clock = 0

At(t, point) == pc[t] = point
Go(t, point) == pc' = [pc EXCEPT ![t] = point]

\* The local variables of a session that has ended.
Forget(t) == mem' = [mem EXCEPT ![t] = Fresh] /\ tested' = [tested EXCEPT ![t] = FirstBaseline]

-----------------------------------------------------------------------------
(* The sessions.                                                           *)

\* A director has claimed the row; claim_task_transaction and
\* start_claimed_task find it RUNNING and do nothing.
Claim(t) ==
  /\ At(t, "idle") /\ row[t] = "READY"
  /\ row' = [row EXCEPT ![t] = "RUNNING"]
  /\ mem' = [mem EXCEPT ![t] = ckpt[t]]
  /\ Go(t, "session")
  /\ UNCHANGED <<attempts, ckpt, submission, record, source, builds, pointer, deploying, evaluation,
                 release, prev, tested, history>>

Investigate(t) ==
  /\ At(t, "session") /\ "A" \notin mem[t].done
  /\ mem' = [mem EXCEPT ![t].done = @ \cup {"A"}]
  /\ Go(t, "checkpoint")
  /\ UNCHANGED <<db, source, builds, pointer, deploying, evaluation, release, prev, tested, history>>

\* Mutant: every run builds anew.
NeedsBuildAlways(t) == "A" \in mem[t].done

NeedsBuild(t) == "A" \in mem[t].done /\ "B" \notin mem[t].done

\* build_and_commit_candidate; a commit that did not reach the checkpoint is
\* forgotten, and its branch moved to the next one.
Build(t) ==
  /\ At(t, "session") /\ NeedsBuild(t)
  /\ builds' = [builds EXCEPT ![t] = @ + 1]
  /\ mem' = [mem EXCEPT ![t].done = @ \cup {"B"}, ![t].commit = builds[t] + 1]
  /\ Go(t, "checkpoint")
  /\ UNCHANGED <<db, source, pointer, deploying, evaluation, release, prev, tested, history>>

Review(t, approved) ==
  /\ At(t, "session") /\ {"A", "B"} \subseteq mem[t].done /\ "C" \notin mem[t].done
  /\ mem' = [mem EXCEPT ![t].done = @ \cup {"C"}, ![t].approved = approved]
  /\ passed' = [passed EXCEPT ![t] = IF approved THEN @ \cup {mem[t].commit} ELSE @]
  /\ Go(t, "checkpoint")
  /\ UNCHANGED <<db, source, builds, pointer, deploying, evaluation, release, prev, tested, stamp,
                 clock>>

SaveCheckpoint(t) ==
  /\ At(t, "checkpoint")
  /\ ckpt' = [ckpt EXCEPT ![t] = mem[t]]
  /\ Go(t, "session")
  /\ UNCHANGED <<row, attempts, submission, record, source, builds, pointer, deploying, evaluation, local,
                 history>>

-----------------------------------------------------------------------------
(* release_candidate, under the deploy lock.  What session C said is not   *)
(* looked at.                                                              *)

\* Mutant: the answer of acquire_lock is not looked at.
LockIgnored == TRUE

LockFree == deploying = NoTask

BeginRelease(t) ==
  /\ At(t, "session") /\ mem[t].done = Sessions
  /\ LockFree
  /\ deploying' = t
  /\ release' = [release EXCEPT ![t] = @ + 1]
  /\ source' = [source EXCEPT ![t][release[t] + 1] = mem[t].commit]
  /\ prev' = pointer
  /\ Go(t, "gates")
  /\ UNCHANGED <<db, builds, pointer, evaluation, mem, tested, history>>

Activate(t) ==
  /\ At(t, "gates")
  /\ pointer' = <<t, release[t]>>
  /\ clock' = clock + 1
  /\ stamp' = [stamp EXCEPT ![t][release[t]] = clock + 1]
  /\ Go(t, "canary")
  /\ UNCHANGED <<db, source, builds, deploying, evaluation, local, passed>>

\* Mutant: a rollback restores the baseline.
RollbackToBaseline == FirstBaseline

RollbackTarget == prev

RollBack(t) ==
  /\ At(t, "canary")
  /\ pointer' = RollbackTarget
  /\ Go(t, "restored")
  /\ UNCHANGED <<db, source, builds, deploying, evaluation, local, history>>

RecordRelease(t) ==
  /\ \E outcome \in Outcomes :
        /\ \/ At(t, "gates") /\ outcome = "TURNED_DOWN"
           \/ At(t, "canary") /\ outcome = "DEPLOYED_VERIFIED"
           \/ At(t, "restored") /\ outcome = "ROLLED_BACK"
        /\ record' = [record EXCEPT ![t][release[t]] = outcome]
  /\ deploying' = NoTask /\ prev' = FirstBaseline
  /\ Go(t, "released")
  /\ UNCHANGED <<row, attempts, ckpt, submission, source, builds, pointer, evaluation, mem, release,
                 tested, history>>

-----------------------------------------------------------------------------
(* Submission and verification.                                            *)

Submit(t) ==
  /\ At(t, "released")
  /\ row' = [row EXCEPT ![t] = "PENDING_VERIFICATION"]
  /\ submission' = [submission EXCEPT ![t] = [commit |-> mem[t].commit, release |-> release[t]]]
  /\ Go(t, "submitted")
  /\ UNCHANGED <<attempts, ckpt, record, source, builds, pointer, deploying, evaluation, local, history>>

\* The directory to test is the active release's, whoever activated it.
ChooseDirectory(t) ==
  /\ At(t, "submitted")
  /\ tested' = [tested EXCEPT ![t] = pointer]
  /\ Go(t, "verifying")
  /\ UNCHANGED <<db, source, builds, pointer, deploying, evaluation, mem, release, prev, history>>

\* Mutant: a claimed release only has to be on record.
OnRecord(t) == record[t][submission[t].release] # "NONE"

\* The claimed release is on record as deployed and not rolled back.
ReleaseClaimHolds(t) == record[t][submission[t].release] = "DEPLOYED_VERIFIED"

\* authorized, commitKnown and testsPass are what the permission gate, git and
\* the tests answer.  The first failing gate names the verdict; a test failure
\* contradicts the claim tests_passed, and counts as REJECTED for that.
Verdict(t, authorized, commitKnown, testsPass) ==
  CASE ~authorized -> "BLOCKED"
    [] authorized /\ commitKnown /\ ReleaseClaimHolds(t) /\ testsPass /\ mem[t].approved -> "VERIFIED_COMPLETE"
    [] OTHER -> "REJECTED"

RecordVerdict(t) ==
  /\ At(t, "verifying")
  /\ \E authorized, commitKnown, testsPass \in BOOLEAN :
        row' = [row EXCEPT ![t] = Verdict(t, authorized, commitKnown, testsPass)]
  /\ Go(t, "idle")
  /\ Forget(t)
  /\ UNCHANGED <<attempts, ckpt, submission, record, source, builds, pointer, deploying, evaluation,
                 release, prev, history>>

-----------------------------------------------------------------------------
(* Interruptions.                                                          *)

\* Mutant: compared before the attempt is counted.
ExhaustedTooLate(t) == attempts[t] > MaxRetries[t]

Exhausted(t) == attempts[t] + 1 > MaxRetries[t]

\* Mutant: nobody takes the row back.
NotGivenBack(t) == UNCHANGED <<row, attempts>>

\* The row is handed out again, or not.
GivenBack(t) ==
  /\ attempts' = [attempts EXCEPT ![t] = @ + 1]
  /\ row' = [row EXCEPT ![t] = IF Exhausted(t) THEN "ESCALATED" ELSE "READY"]

Gone(t) ==
  /\ Go(t, "idle")
  /\ Forget(t)
  /\ IF deploying = t THEN deploying' = NoTask /\ prev' = FirstBaseline ELSE UNCHANGED <<deploying, prev>>
  /\ UNCHANGED <<ckpt, submission, record, source, builds, pointer, evaluation, release, history>>

\* A subprocess or an agent call fails or times out, and fail_task is called.
Raise(t) ==
  /\ ~At(t, "idle")
  /\ GivenBack(t) /\ Gone(t)

\* The agent runner refuses a call, and the row waits for an approval.
Denied(t) ==
  /\ At(t, "session")
  /\ row' = [row EXCEPT ![t] = "BLOCKED_AUTHORIZATION"]
  /\ UNCHANGED attempts
  /\ Gone(t)

\* release_candidate does not wait for the lock.
LockBusy(t) ==
  /\ At(t, "session") /\ mem[t].done = Sessions
  /\ ~LockFree
  /\ GivenBack(t) /\ Gone(t)

\* The process dies; a sweep takes back a RUNNING row, and no other.
Crash(t) ==
  /\ ~At(t, "idle")
  /\ IF row[t] = "RUNNING" THEN GivenBack(t) ELSE UNCHANGED <<row, attempts>>
  /\ Gone(t)

-----------------------------------------------------------------------------
(* The six-hour evaluation (module Release has the rest of it).            *)

\* It finds an outdated baseline active, and is to replace it by that of HEAD.
\* It takes no lock.
EvaluationLooks ==
  /\ eval = "idle" /\ pointer[1] = Baseline /\ evaluations < MaxEvaluations
  /\ eval' = "refreshing" /\ evaluations' = evaluations + 1
  /\ UNCHANGED <<db, source, builds, pointer, deploying, pc, local, history>>

\* It does, whatever the pointer names by now.  One that dies first has the
\* effect of one that never gets here.
EvaluationWrites ==
  /\ eval = "refreshing"
  /\ pointer' = BaselineAt(clock)
  /\ eval' = "idle" /\ UNCHANGED evaluations
  /\ UNCHANGED <<db, source, builds, deploying, pc, local, history>>

-----------------------------------------------------------------------------
Work(t) ==
  \/ Claim(t) \/ Investigate(t) \/ Build(t)
  \/ \E approved \in BOOLEAN : Review(t, approved)
  \/ SaveCheckpoint(t)
  \/ BeginRelease(t) \/ LockBusy(t) \/ Activate(t) \/ RollBack(t) \/ RecordRelease(t)
  \/ Submit(t) \/ ChooseDirectory(t) \/ RecordVerdict(t)

Next ==
  \/ \E t \in Task : Work(t) \/ Raise(t) \/ Denied(t) \/ Crash(t)
  \/ EvaluationLooks \/ EvaluationWrites

Spec == Init /\ [][Next]_vars

\* Timers start a director again and again, and every agent call and subprocess
\* of a session has a timeout.
FairSpec == Spec /\ \A t \in Task : WF_vars(Work(t))

-----------------------------------------------------------------------------
(* Properties.                                                             *)

Releases == Task \X Number
Baselines == {Baseline} \X Nat

\* Every variable has the values the session gives it; in particular a task is
\* built and released once an attempt at most.
TypeOK ==
  /\ row \in [Task -> Settled \cup {"READY", "RUNNING", "PENDING_VERIFICATION"}]
  /\ attempts \in [Task -> Number]
  /\ ckpt \in [Task -> Artifacts] /\ mem \in [Task -> Artifacts]
  /\ submission \in [Task -> [commit : Number, release : Number]]
  /\ record \in [Task -> [Number -> Outcomes \cup {"NONE"}]]
  /\ source \in [Task -> [Number -> Number]]
  /\ builds \in [Task -> Number] /\ release \in [Task -> Number]
  /\ pointer \in Releases \cup Baselines /\ prev \in Releases \cup Baselines
  /\ deploying \in Task \cup {NoTask}
  /\ eval \in {"idle", "refreshing"} /\ evaluations \in 0 .. MaxEvaluations
  /\ pc \in [Task -> {"idle", "session", "checkpoint", "gates", "canary", "restored",
                      "released", "submitted", "verifying"}]
  /\ tested \in [Task -> Releases \cup Baselines]
  /\ passed \in [Task -> SUBSET Number]
  /\ stamp \in [Task -> [Number -> Nat]] /\ clock \in Nat

\* A task is VERIFIED_COMPLETE only for a commit that session C approved, and
\* that the released files were taken from, although an interruption may fall
\* between any two of build, checkpoint, review and release, and the receipt of
\* the review names no commit (zero_trust.py:832-1031).
VerifiedWasReviewed ==
  \A t \in Task : row[t] = "VERIFIED_COMPLETE" =>
    /\ submission[t].commit \in passed[t]
    /\ source[t][submission[t].release] = submission[t].commit

\* A VERIFIED_COMPLETE task names a release that passed its canary and was not
\* rolled back, also when an earlier attempt had released the same commit
\* (zero_trust.py:490-506).
VerifiedWasDeployed ==
  \A t \in Task : row[t] = "VERIFIED_COMPLETE" => record[t][submission[t].release] = "DEPLOYED_VERIFIED"

\* When r became the active release.
ActivatedAt(r) == IF r[1] = Baseline THEN r[2] ELSE stamp[r[1]][r[2]]

\* The tests that verify a task whose release stands run over that release, over
\* one staged on top of it, or over a baseline that the evaluation made active
\* after it; never over what was active before: a release that is rolled back in
\* the meantime leaves what it found (zero_trust.py:1034).
TestedNoOlder ==
  \A t \in Task : At(t, "verifying") /\ ReleaseClaimHolds(t) =>
    ActivatedAt(tested[t]) >= ActivatedAt(<<t, submission[t].release>>)

\* A session that was started is judged, escalated, or waits for a verification
\* that its process no longer makes.
EverySessionEnds ==
  \A t \in Task : row[t] = "RUNNING" ~>
    \/ row[t] \in Settled
    \/ row[t] = "PENDING_VERIFICATION" /\ pc[t] = "idle"

\* The stage of Staging of the release that holds the deploy lock.
StageOf(point) ==
  CASE point = "canary" -> "probing" [] OTHER -> point

FateOf(t, n) ==
  CASE record[t][n] \in {"TURNED_DOWN", "ROLLED_BACK"} -> "rejected"
    [] record[t][n] = "DEPLOYED_VERIFIED" -> "deployed"
    [] OTHER -> IF n <= release[t] THEN "open" ELSE "new"

Staged == INSTANCE Staging WITH
  Id <- Task \X (Number \ {0}), Base <- Baselines, NoRelease <- NoTask, Refreshing <- TRUE,
  active <- pointer,
  trying <- IF deploying = NoTask THEN NoTask ELSE <<deploying, release[deploying]>>,
  stage <- IF deploying = NoTask THEN "idle" ELSE StageOf(pc[deploying]),
  saved <- IF deploying = NoTask THEN NoTask ELSE prev,
  fate <- [i \in Task \X (Number \ {0}) |-> FateOf(i[1], i[2])]

\* The releases of all sessions together are those of Staging, which module
\* Release implements too: what is left out of a release here is left out of
\* Staging, and only the evaluation moves the pointer without the lock.
FollowsStaging == Staged!Spec
=============================================================================
