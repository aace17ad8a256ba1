------------------------------- MODULE Release -------------------------------
(***************************************************************************)
(* Releasing a candidate commit: DeploymentController.release_candidate    *)
(* (src/paa_os/builder_and_deployer.py:410-683), the baseline evaluation   *)
(* of paa_cli six-hour-eval that moves the same staging pointer, and the   *)
(* live files a promotion copies over.                                     *)
(*                                                                         *)
(* One release runs at a time, under the deploy lock (module               *)
(* ExecutionLock).  Any step may raise, which ends the release without a   *)
(* record, and the process may die between any two steps.  A release id is *)
(* fresh at every attempt.  The pointer file is replaced atomically; the   *)
(* symlink beside it is never read back and is not modelled.               *)
(***************************************************************************)
EXTENDS Integers, FiniteSets

CONSTANTS
  Candidate,    \* release ids of candidate builds, one for each attempt
  Head,         \* commits HEAD may stand at; each names its REL_BASELINE_*
  NoRelease,    \* the pointer file does not exist
  File,         \* live files
  Existing,     \* those that exist before any release
  Changed,      \* [Candidate -> SUBSET File]: changed_files
  Unstaged,     \* [Candidate -> SUBSET File]: of these, not found in the release
  HotReload,    \* the strategy configuration
  Promoted,     \* candidates released with promote_to_live_files
  Evaluating    \* TRUE when the six-hour evaluation runs too

Release == Candidate \cup Head
Rejections == {"BLOCKED_AUTHORIZATION", "FAILED_QA_PRE_DEPLOY",
               "BLOCKED_RISK_OR_ACCOUNTING_INVARIANT", "ROLLED_BACK"}
Original == "original"
Absent   == "absent"
Torn     == "torn"
Content  == Candidate \cup {Original, Absent, Torn}

ASSUME ReleaseAssumption ==
  /\ Candidate \cap Head = {} /\ NoRelease \notin Release
  /\ {Original, Absent, Torn} \cap Candidate = {}
  /\ Existing \subseteq File /\ HotReload \subseteq File
  /\ Changed \in [Candidate -> SUBSET File]
  /\ Unstaged \in [Candidate -> SUBSET File]
  /\ Promoted \subseteq Candidate
  /\ Evaluating \in BOOLEAN

VARIABLES
  pointer,    \* CURRENT_RELEASE.json
  record,     \* state column of the deployments table, NONE without a row
  live,       \* which version of each live file is in place
  head,       \* HEAD of the repository
  safeguard,  \* ACCOUNTING_SAFEGUARD_ACTIVE.json exists
  flat,       \* the live harvester holds no position
  pc,         \* where the release stands
  cand,       \* its candidate
  prev,       \* prev_pointer
  todo,       \* changed files still to be copied, or copied ones still to be restored
  backup,     \* live_backups of this release
  eval,       \* where the six-hour evaluation stands
  target,     \* the baseline each side is about to write
  used,       \* history: release ids given out
  before      \* history: pointer and live files when the candidate was activated

world   == <<head, safeguard, flat>>
vars    == <<pointer, record, live, world, pc, cand, prev, todo, backup, eval, target, used, before>>
Sides   == {"release", "eval"}

Init ==
  /\ pointer = NoRelease
  /\ record = [c \in Candidate |-> "NONE"]
  /\ live = [f \in File |-> IF f \in Existing THEN Original ELSE Absent]
  /\ head \in Head /\ safeguard = FALSE /\ flat = TRUE
  /\ pc = "idle" /\ cand = NoRelease /\ prev = NoRelease
  /\ todo = {} /\ backup = live
  /\ eval = "idle" /\ target = [s \in Sides |-> NoRelease]
  /\ used = {}
  /\ before = [pointer |-> pointer, live |-> live]

-----------------------------------------------------------------------------
(* ensure_baseline_staging_release.                                        *)

\* Mutant: the pointer is taken for granted.
KeepsAnything(refresh) == ~ (refresh /\ pointer \in Head /\ pointer # head)

\* The pointer is left alone: there is one, and it is not an outdated baseline
\* that is to be refreshed.
Keeps(refresh) ==
  /\ pointer # NoRelease
  /\ ~ (refresh /\ pointer \in Head /\ pointer # head)

\* Between the look at the pointer and its replacement lie two git calls and a
\* copy of the configuration.
WriteBaseline(s) == pointer' = target[s]

Local == <<record, live, world, used, before>>

\* The process of the release is gone or has returned: its variables with it.
End ==
  /\ pc' = "idle" /\ cand' = NoRelease /\ prev' = NoRelease
  /\ todo' = {} /\ target' = [target EXCEPT !["release"] = NoRelease]
  /\ UNCHANGED <<eval, backup>>

-----------------------------------------------------------------------------
(* release_candidate.                                                      *)

Begin(c) ==
  /\ pc = "idle" /\ c \notin used
  /\ used' = used \cup {c}
  /\ cand' = c
  /\ pc' = IF Keeps(FALSE) THEN "gates" ELSE "seeding"
  /\ prev' = IF Keeps(FALSE) THEN pointer ELSE NoRelease
  /\ target' = [target EXCEPT !["release"] = IF Keeps(FALSE) THEN NoRelease ELSE head]
  /\ UNCHANGED <<pointer, record, live, world, todo, backup, eval, before>>

Seed ==
  /\ pc = "seeding"
  /\ WriteBaseline("release")
  /\ prev' = target["release"]
  /\ pc' = "gates"
  /\ UNCHANGED <<Local, cand, todo, backup, eval, target>>

\* Gates 1 to 3 in their order; the safeguard is looked at by the last one.
RejectAtGate ==
  /\ \/ pc = "gates" /\ record' = [record EXCEPT ![cand] = "BLOCKED_AUTHORIZATION"]
     \/ pc = "authorized" /\ record' = [record EXCEPT ![cand] = "FAILED_QA_PRE_DEPLOY"]
     \/ pc = "tested" /\ record' = [record EXCEPT ![cand] = "BLOCKED_RISK_OR_ACCOUNTING_INVARIANT"]
  /\ End
  /\ UNCHANGED <<pointer, live, world, used, before>>

PassGate ==
  /\ \/ pc = "gates" /\ pc' = "authorized"
     \/ pc = "authorized" /\ pc' = "tested"
     \/ pc = "tested" /\ ~ safeguard /\ pc' = "cleared"
  /\ UNCHANGED <<pointer, Local, cand, prev, todo, backup, eval, target>>

\* The candidate becomes the active release, and only then is it probed.
Activate ==
  /\ pc = "cleared"
  /\ pointer' = cand
  /\ before' = [pointer |-> pointer, live |-> live]
  /\ pc' = "canary"
  /\ UNCHANGED <<record, live, world, cand, prev, todo, backup, eval, target, used>>

\* Mutant: the pointer stays where it is.
KeepPointer == pointer

\* Mutant: the baseline of the moment is restored.
LatestBaseline == head

RollbackTarget == prev

RollBack ==
  /\ pc = "canary"
  /\ pointer' = RollbackTarget
  /\ pc' = "rolled_back"
  /\ UNCHANGED <<Local, cand, prev, todo, backup, eval, target>>

\* Mutant: after the record of the rollback the release goes on.
RecordAndGoOn ==
  /\ pc = "rolled_back" /\ pc' = "promoted"
  /\ record' = [record EXCEPT ![cand] = "ROLLED_BACK"]
  /\ UNCHANGED <<pointer, live, world, cand, prev, todo, backup, eval, target, used, before>>

RecordRollback ==
  /\ pc = "rolled_back"
  /\ record' = [record EXCEPT ![cand] = "ROLLED_BACK"]
  /\ End
  /\ UNCHANGED <<pointer, live, world, used, before>>

\* Only a change of the configuration alone goes live beside open positions.
Promotable == flat \/ Changed[cand] \subseteq HotReload

\* The canary passed.  The positions are looked at once.
PassCanary ==
  /\ pc = "canary"
  /\ \/ cand \in Promoted /\ Promotable /\ pc' = "promoting" /\ todo' = Changed[cand]
     \/ ~ (cand \in Promoted /\ Promotable) /\ pc' = "promoted" /\ UNCHANGED todo
  /\ backup' = [f \in File |-> Absent]
  /\ UNCHANGED <<pointer, Local, cand, prev, eval, target>>

\* Mutant: the backup is taken after the copy.
BackupOfNew(f) == cand

BackupOf(f) == live[f]

\* A file that the release does not hold is passed over: one the candidate
\* deletes, or whose name loses its leading dot in lstrip("./") of line 615.
CopyFile(f) ==
  /\ pc = "promoting" /\ f \in todo
  /\ backup' = [backup EXCEPT ![f] = BackupOf(f)]
  /\ live' = IF f \in Unstaged[cand] THEN live ELSE [live EXCEPT ![f] = cand]
  /\ todo' = todo \ {f}
  /\ UNCHANGED <<pointer, record, world, pc, cand, prev, eval, target, used, before>>

AllCopied ==
  /\ pc = "promoting" /\ todo = {}
  /\ pc' = "promoted"
  /\ UNCHANGED <<pointer, Local, cand, prev, todo, backup, eval, target>>

Applied == Changed[cand] \ (todo \cup Unstaged[cand])

\* What a failing copy into the backup may leave of it.
BackupLeft(f) == IF live[f] = Absent THEN {Absent} ELSE {Absent, Torn, live[f]}

\* A copy failed, into the backup or out of the release: the files in place that
\* have a backup are to be restored.  The pointer stays at the candidate.
CopyFails(f) ==
  /\ pc = "promoting" /\ f \in todo
  /\ \E left \in BackupLeft(f) : backup' = [backup EXCEPT ![f] = left]
  /\ pc' = "undoing"
  /\ todo' = {g \in Applied : backup[g] # Absent}
  /\ UNCHANGED <<pointer, record, live, world, cand, prev, eval, target, used, before>>

RestoreFile(f) ==
  /\ pc = "undoing" /\ f \in todo
  /\ live' = [live EXCEPT ![f] = backup[f]]
  /\ todo' = todo \ {f}
  /\ UNCHANGED <<pointer, record, world, pc, cand, prev, backup, eval, target, used, before>>

\* The restoring copy writes into the live file itself.  It raises, or the
\* process dies in it, and the files after it are not restored.
RestoreFails(f) ==
  /\ pc = "undoing" /\ f \in todo
  /\ \E left \in {live[f], Torn, backup[f]} : live' = [live EXCEPT ![f] = left]
  /\ End
  /\ UNCHANGED <<pointer, record, world, used, before>>

Finish ==
  /\ pc = "promoted"
  /\ record' = [record EXCEPT ![cand] = "DEPLOYED_VERIFIED"]
  /\ End
  /\ UNCHANGED <<pointer, live, world, used, before>>

\* A git, test or canary subprocess that runs into its timeout raises; so does
\* any other error outside the two copy loops; so does a promotion that has been
\* undone.  Nothing is recorded or undone.
Raise ==
  /\ pc \notin {"idle", "promoting"}
  /\ pc = "undoing" => todo = {}
  /\ End
  /\ UNCHANGED <<pointer, Local>>

\* The process dies, wherever it stands.
Crash ==
  /\ pc # "idle"
  /\ End
  /\ UNCHANGED <<pointer, Local>>

-----------------------------------------------------------------------------
(* The six-hour evaluation and the world.                                  *)

\* ensure_baseline_staging_release: first plainly, then, when the tests passed,
\* with refresh_if_baseline.  It takes no lock.
Evaluate ==
  /\ Evaluating
  /\ \/ eval = "idle" /\ eval' = (IF Keeps(FALSE) THEN "testing" ELSE "seeding")
     \/ eval = "testing" /\ eval' = (IF Keeps(TRUE) THEN "idle" ELSE "refreshing")
  /\ target' = [target EXCEPT !["eval"] =
                  IF eval' \in {"seeding", "refreshing"} THEN head ELSE NoRelease]
  /\ UNCHANGED <<pointer, Local, pc, cand, prev, todo, backup>>

EvaluationWrites ==
  /\ eval \in {"seeding", "refreshing"}
  /\ WriteBaseline("eval")
  /\ eval' = IF eval = "seeding" THEN "testing" ELSE "idle"
  /\ target' = [target EXCEPT !["eval"] = NoRelease]
  /\ UNCHANGED <<Local, pc, cand, prev, todo, backup>>

\* Its tests failed, or it died.
EvaluationEnds ==
  /\ eval # "idle"
  /\ eval' = "idle"
  /\ target' = [target EXCEPT !["eval"] = NoRelease]
  /\ UNCHANGED <<pointer, Local, pc, cand, prev, todo, backup>>

World ==
  /\ \/ \E h \in Head \ {head} : head' = h /\ UNCHANGED <<safeguard, flat>>
     \/ safeguard' = ~ safeguard /\ UNCHANGED <<head, flat>>
     \/ flat' = ~ flat /\ UNCHANGED <<head, safeguard>>
  /\ UNCHANGED <<pointer, record, live, pc, cand, prev, todo, backup, eval, target, used, before>>

-----------------------------------------------------------------------------
Deploy ==
  \/ \E c \in Candidate : Begin(c)
  \/ Seed \/ RejectAtGate \/ PassGate \/ Activate \/ RollBack \/ RecordRollback
  \/ PassCanary \/ AllCopied \/ Finish
  \/ \E f \in File : CopyFile(f) \/ CopyFails(f) \/ RestoreFile(f) \/ RestoreFails(f)
  \/ Raise \/ Crash

Next == Deploy \/ Evaluate \/ EvaluationWrites \/ EvaluationEnds \/ World

Spec == Init /\ [][Next]_vars

-----------------------------------------------------------------------------

TypeOK ==
  /\ pointer \in Release \cup {NoRelease}
  /\ record \in [Candidate -> Rejections \cup {"NONE", "DEPLOYED_VERIFIED"}]
  /\ live \in [File -> Content]
  /\ head \in Head /\ safeguard \in BOOLEAN /\ flat \in BOOLEAN
  /\ pc \in {"idle", "seeding", "gates", "authorized", "tested", "cleared", "canary",
             "rolled_back", "promoting", "undoing", "promoted"}
  /\ cand \in Candidate \cup {NoRelease}
  /\ pc # "idle" => cand \in used
  /\ pc = "seeding" => target["release"] \in Head
  /\ pc \notin {"idle", "seeding"} => prev \in Release
  /\ prev \in Release \cup {NoRelease}
  /\ todo \subseteq File
  /\ backup \in [File -> Content]
  /\ eval \in {"idle", "seeding", "testing", "refreshing"}
  /\ target \in [Sides -> Head \cup {NoRelease}]
  /\ used \subseteq Candidate
  /\ before \in [pointer : Release \cup {NoRelease}, live : [File -> Content]]

\* A release that a gate or the canary turned down is neither the active one nor
\* the source of a live file, then or ever after, although later releases roll
\* back to what they found and restore what they backed up (lines 437-440,
\* 548-557, 610-636).
NothingRejectedIsServed ==
  \A c \in Candidate : record[c] \in Rejections => pointer # c /\ \A f \in File : live[f] # c

\* A rollback puts back the candidate release that the activation replaced, read
\* minutes earlier, before the tests, although the evaluation moves the pointer
\* in the meantime (lines 437-440, 557).
RollbackUndoesActivation ==
  [][pc = "canary" /\ pc' = "rolled_back" /\ before.pointer \in Candidate
       => pointer' = before.pointer]_vars

\* Every live file that existed when a candidate was activated is in place as it
\* was, or in the backups of that release, whichever copies and restorations
\* failed or died half way; and it is in place when the release reports that the
\* promotion was rolled back (lines 610-636).
ExistingFilesRestored ==
  \A f \in File : before.live[f] # Absent =>
    \/ live[f] = before.live[f]
    \/ backup[f] = before.live[f] /\ ~ (pc = "undoing" /\ todo = {})

\* The stage of Staging that each point of release_candidate stands for.
StageOf(point) ==
  CASE point \in {"authorized", "tested", "cleared"} -> "gates"
    [] point = "canary" -> "probing"
    [] point = "rolled_back" -> "restored"
    [] point \in {"promoting", "undoing", "promoted"} -> "passed"
    [] OTHER -> point

FateOf(c) ==
  CASE record[c] \in Rejections -> "rejected"
    [] record[c] = "DEPLOYED_VERIFIED" -> "deployed"
    [] OTHER -> IF c \in used THEN "open" ELSE "new"

Staged == INSTANCE Staging WITH
  Id <- Candidate, Base <- Head, Refreshing <- Evaluating,
  active <- pointer, trying <- cand, stage <- StageOf(pc), saved <- prev,
  fate <- [c \in Candidate |-> FateOf(c)]

\* Gates, files, timeouts and deaths add up to a release as Staging has it:
\* a candidate is judged once, is active only between its activation and the end
\* of its probe or after it passed, and nothing but a rollback or the evaluation
\* takes it away (lines 410-683).
FollowsStaging == Staged!Spec

-----------------------------------------------------------------------------
(* What the documentation says and the code does not do.                   *)

\* A refresh of the baseline never clobbers an active candidate release
\* (tests/test_paa_profit_and_accounting_upgrades.py:840).
RefreshSparesCandidates ==
  [][eval = "refreshing" /\ eval' = "idle" /\ pointer' # pointer => pointer \notin Candidate]_vars
=============================================================================
