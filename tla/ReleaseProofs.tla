---------------------------- MODULE ReleaseProofs ----------------------------
(***************************************************************************)
(* Proofs about Release, for any number of releases, files and commits,    *)
(* with and without the concurrent six-hour evaluation.                    *)
(***************************************************************************)
EXTENDS Release, TLAPS

USE DEF world, Local, Release, Sides, Content

LEMMA TypeInit == Init => TypeOK
  <1> SUFFICES ASSUME Init PROVE TypeOK
    OBVIOUS
  <1> USE ReleaseAssumption DEF Init
  <1>1. live \in [File -> Content]
    OBVIOUS
  <1>2. before \in [pointer : Release \cup {NoRelease},
                    live : [File -> Content]]
    BY <1>1
  <1> QED
    BY <1>1, <1>2 DEF TypeOK

LEMMA TypeStep == TypeOK /\ [Next]_vars => TypeOK'
  <1> SUFFICES ASSUME TypeOK, [Next]_vars PROVE TypeOK'
    OBVIOUS
  <1> USE ReleaseAssumption DEF TypeOK, Rejections
  <1>1. ASSUME NEW c \in Candidate, Begin(c) PROVE TypeOK'
    BY <1>1 DEF Begin, Keeps
  <1>2. CASE Seed
    BY <1>2 DEF Seed, WriteBaseline
  <1>3. CASE RejectAtGate
    BY <1>3 DEF RejectAtGate, End
  <1>4. CASE PassGate
    BY <1>4 DEF PassGate
  <1>5. CASE Activate
    BY <1>5 DEF Activate
  <1>6. CASE RollBack
    BY <1>6 DEF RollBack, RollbackTarget
  <1>7. CASE RecordRollback
    BY <1>7 DEF RecordRollback, End
  <1>8. CASE PassCanary
    BY <1>8 DEF PassCanary
  <1>9. ASSUME NEW f \in File, CopyFile(f) PROVE TypeOK'
    BY <1>9 DEF CopyFile, BackupOf
  <1>10. CASE AllCopied
    BY <1>10 DEF AllCopied
  <1>11. ASSUME NEW f \in File, CopyFails(f) PROVE TypeOK'
    <2>1. backup' \in [File -> Content]
      BY <1>11 DEF CopyFails, BackupLeft
    <2>2. todo' \subseteq File
      BY <1>11 DEF CopyFails, Applied
    <2> QED
      BY <1>11, <2>1, <2>2 DEF CopyFails
  <1>11a. ASSUME NEW f \in File, RestoreFile(f) \/ RestoreFails(f) PROVE TypeOK'
    <2>1. live' \in [File -> Content]
      BY <1>11a DEF RestoreFile, RestoreFails
    <2> QED
      BY <1>11a, <2>1 DEF RestoreFile, RestoreFails, End
  <1>12. CASE Finish
    BY <1>12 DEF Finish, End
  <1>13. CASE Raise \/ Crash
    BY <1>13 DEF Raise, Crash, End
  <1>14. CASE Evaluate
    BY <1>14 DEF Evaluate, Keeps
  <1>15. CASE EvaluationWrites
    BY <1>15 DEF EvaluationWrites, WriteBaseline
  <1>16. CASE EvaluationEnds
    BY <1>16 DEF EvaluationEnds
  <1>17. CASE World
    <2>1. UNCHANGED <<pointer, record, live, pc, cand, prev, todo, backup, eval, target, used, before>>
      BY <1>17 DEF World
    <2>2. head' \in Head
      BY <1>17 DEF World
    <2>3. safeguard' \in BOOLEAN /\ flat' \in BOOLEAN
      BY <1>17, Zenon DEF World
    <2> QED
      BY <2>1, <2>2, <2>3
  <1>18. CASE UNCHANGED vars
    BY <1>18 DEF vars
  <1> QED
    BY <1>1, <1>2, <1>3, <1>4, <1>5, <1>6, <1>7, <1>8, <1>9, <1>10, <1>11, <1>11a, <1>12, <1>13,
       <1>14, <1>15, <1>16, <1>17, <1>18 DEF Next, Deploy

\* The variables of the pipeline keep their types, and once it has passed the
\* baseline there is a release to roll back to.
THEOREM TypeCorrect == Spec => []TypeOK
  BY TypeInit, TypeStep, PTL DEF Spec

-----------------------------------------------------------------------------
(* Rejected releases.                                                      *)

\* What a later rollback or restoration could bring back.
Reachable == {pointer, prev} \cup {live[f] : f \in File} \cup {backup[f] : f \in File}

\* The candidate in hand has no record, and is not yet, or no longer, within
\* reach unless it has been activated.
CandidateIsFresh ==
  /\ \A c \in Candidate \ used : record[c] = "NONE"
  /\ pc # "idle" => record[cand] = "NONE"
  /\ pc # "idle" => prev # cand
  /\ pc \in {"seeding", "gates", "authorized", "tested", "cleared", "rolled_back"} => pointer # cand
  /\ pc \in {"seeding", "gates", "authorized", "tested", "cleared", "canary", "rolled_back"}
       => \A f \in File : live[f] # cand /\ backup[f] # cand

\* Nothing within reach was rejected, and everything within reach was given out.
ReachIsClean ==
  \A c \in Candidate \cap Reachable : c \in used /\ record[c] \notin Rejections

CleanInv == TypeOK /\ CandidateIsFresh /\ ReachIsClean

LEMMA CleanInit == Init => CleanInv
  <1> SUFFICES ASSUME Init PROVE CleanInv
    OBVIOUS
  <1>1. TypeOK
    BY TypeInit
  <1>2. CandidateIsFresh /\ ReachIsClean
    BY ReleaseAssumption DEF Init, CandidateIsFresh, ReachIsClean, Reachable, Rejections
  <1> QED
    BY <1>1, <1>2 DEF CleanInv

LEMMA CleanStep == CleanInv /\ [Next]_vars => CleanInv'
  <1> SUFFICES ASSUME CleanInv, [Next]_vars PROVE CleanInv'
    OBVIOUS
  <1>t. TypeOK'
    BY TypeStep DEF CleanInv
  <1> USE ReleaseAssumption DEF CleanInv, TypeOK, CandidateIsFresh, ReachIsClean, Reachable,
                                Rejections
  <1>1. ASSUME NEW c \in Candidate, Begin(c) PROVE (CandidateIsFresh /\ ReachIsClean)'
    BY <1>1 DEF Begin, Keeps
  <1>2. CASE Seed
    BY <1>t, <1>2 DEF Seed, WriteBaseline
  <1>3. CASE RejectAtGate
    BY <1>t, <1>3 DEF RejectAtGate, End
  <1>4. CASE PassGate
    BY <1>t, <1>4 DEF PassGate
  <1>5. CASE Activate
    BY <1>t, <1>5 DEF Activate
  <1>6. CASE RollBack
    BY <1>t, <1>6 DEF RollBack, RollbackTarget
  <1>7. CASE RecordRollback
    BY <1>t, <1>7 DEF RecordRollback, End
  <1>8. CASE PassCanary
    BY <1>t, <1>8 DEF PassCanary
  <1>9. ASSUME NEW f \in File, CopyFile(f) PROVE (CandidateIsFresh /\ ReachIsClean)'
    BY <1>9 DEF CopyFile, BackupOf
  <1>10. CASE AllCopied
    BY <1>t, <1>10 DEF AllCopied
  <1>11. ASSUME NEW f \in File, CopyFails(f) PROVE (CandidateIsFresh /\ ReachIsClean)'
    BY <1>11 DEF CopyFails, BackupLeft
  <1>11a. ASSUME NEW f \in File, RestoreFile(f) \/ RestoreFails(f)
          PROVE  (CandidateIsFresh /\ ReachIsClean)'
    BY <1>11a DEF RestoreFile, RestoreFails, End
  <1>12. CASE Finish
    BY <1>t, <1>12 DEF Finish, End
  <1>13. CASE Raise \/ Crash
    BY <1>t, <1>13 DEF Raise, Crash, End
  <1>14. CASE Evaluate \/ EvaluationEnds \/ World
    <2>1. UNCHANGED <<pointer, record, live, pc, cand, prev, backup, used>>
      BY <1>14 DEF Evaluate, EvaluationEnds, World
    <2> QED
      BY <1>t, <2>1
  <1>15. CASE EvaluationWrites
    BY <1>t, <1>15 DEF EvaluationWrites, WriteBaseline
  <1>16. CASE UNCHANGED vars
    BY <1>t, <1>16 DEF vars
  <1> QED
    BY <1>t, <1>1, <1>2, <1>3, <1>4, <1>5, <1>6, <1>7, <1>8, <1>9, <1>10, <1>11, <1>11a,
       <1>12, <1>13, <1>14, <1>15, <1>16 DEF Next, Deploy

\* No release that a gate or the canary rejected is ever active or live again,
\* through any sequence of releases, crashes, failed promotions and evaluations.
THEOREM RejectedStaysOut == Spec => []NothingRejectedIsServed
  <1>1. CleanInv => NothingRejectedIsServed
    BY DEF CleanInv, TypeOK, ReachIsClean, Reachable, NothingRejectedIsServed
  <1> QED
    BY <1>1, CleanInit, CleanStep, PTL DEF Spec

-----------------------------------------------------------------------------
(* Rollbacks.                                                              *)

\* A candidate that is active while another one is under its gates is the one
\* that release saved: the evaluation writes baselines only.
SavedPointer ==
  /\ pc \in {"gates", "authorized", "tested", "cleared"} /\ pointer \in Candidate
       => prev = pointer
  /\ pc = "canary" /\ before.pointer \in Candidate => prev = before.pointer

LEMMA SavedInit == Init => SavedPointer
  BY DEF Init, SavedPointer

LEMMA SavedStep == TypeOK /\ SavedPointer /\ [Next]_vars => SavedPointer'
  <1> SUFFICES ASSUME TypeOK, SavedPointer, [Next]_vars PROVE SavedPointer'
    OBVIOUS
  <1> USE ReleaseAssumption DEF SavedPointer
  <1>1. ASSUME NEW c \in Candidate, Begin(c) PROVE SavedPointer'
    BY <1>1 DEF Begin
  <1>2. CASE Seed
    <2>1. target["release"] \notin Candidate
      BY DEF TypeOK
    <2> QED
      BY <1>2, <2>1 DEF Seed, WriteBaseline
  <1>3. CASE PassGate
    BY <1>3 DEF PassGate
  <1>4. CASE Activate
    BY <1>4 DEF Activate
  <1>5. CASE RejectAtGate \/ RecordRollback \/ Finish \/ Raise \/ Crash
    BY <1>5 DEF RejectAtGate, RecordRollback, Finish, Raise, Crash, End
  <1>6. CASE \/ RollBack \/ PassCanary \/ AllCopied
             \/ \E f \in File : CopyFile(f) \/ CopyFails(f) \/ RestoreFile(f) \/ RestoreFails(f)
    BY <1>6 DEF RollBack, PassCanary, AllCopied, CopyFile, CopyFails, RestoreFile,
                RestoreFails, End
  <1>7. CASE EvaluationWrites
    <2>1. target["eval"] \notin Candidate
      BY DEF TypeOK
    <2>2. pointer' \notin Candidate
      BY <1>7, <2>1 DEF EvaluationWrites, WriteBaseline
    <2>3. UNCHANGED <<pc, prev, before>>
      BY <1>7 DEF EvaluationWrites
    <2> QED
      BY <2>2, <2>3
  <1>8. CASE Evaluate \/ EvaluationEnds \/ World \/ UNCHANGED vars
    <2>1. UNCHANGED <<pointer, pc, prev, before>>
      BY <1>8 DEF Evaluate, EvaluationEnds, World, vars
    <2> QED
      BY <2>1
  <1> QED
    BY <1>1, <1>2, <1>3, <1>4, <1>5, <1>6, <1>7, <1>8 DEF Next, Deploy

\* A rollback restores the candidate that the activation displaced, however the
\* evaluation moved the pointer between the look at it and the activation.
THEOREM RollbacksUndo == Spec => RollbackUndoesActivation
  <1>1. SavedPointer /\ [Next]_vars
          => [pc = "canary" /\ pc' = "rolled_back" /\ before.pointer \in Candidate
                => pointer' = before.pointer]_vars
    <2> SUFFICES ASSUME SavedPointer, Next, pc = "canary", pc' = "rolled_back",
                        before.pointer \in Candidate
                 PROVE  pointer' = before.pointer
      OBVIOUS
    <2>1. RollBack
      BY DEF Next, Deploy, Begin, Seed, RejectAtGate, PassGate, Activate, RecordRollback,
             PassCanary, CopyFile, AllCopied, CopyFails, RestoreFile, RestoreFails, Finish,
             Raise, Crash, End, Evaluate, EvaluationWrites, EvaluationEnds, World
    <2> QED
      BY <2>1 DEF RollBack, RollbackTarget, SavedPointer
  <1> QED
    BY <1>1, TypeInit, TypeStep, SavedInit, SavedStep, PTL DEF Spec, RollbackUndoesActivation

-----------------------------------------------------------------------------
(* Failed promotions.                                                      *)

\* A file that is not in place as the activation found it is in the backup; a
\* file still to be copied is in place, and so is one that is not, or no longer,
\* to be restored.
BackupsHold ==
  /\ pc = "canary" => live = before.live
  /\ pc = "promoting" =>
       /\ todo \subseteq Changed[cand]
       /\ \A f \in File : IF f \in Applied THEN backup[f] = before.live[f]
                                           ELSE live[f] = before.live[f]
  /\ pc = "undoing" =>
       \A f \in File : before.live[f] # Absent =>
         IF f \in todo THEN backup[f] = before.live[f] ELSE live[f] = before.live[f]

BackupInv == BackupsHold /\ ExistingFilesRestored

LEMMA BackupsInit == Init => BackupInv
  BY DEF Init, BackupInv, BackupsHold, ExistingFilesRestored

LEMMA BackupsStep == TypeOK /\ BackupInv /\ [Next]_vars => BackupInv'
  <1> SUFFICES ASSUME TypeOK, BackupInv, [Next]_vars PROVE BackupInv'
    OBVIOUS
  <1> USE ReleaseAssumption DEF BackupInv, BackupsHold, ExistingFilesRestored
  <1>1. CASE Activate
    BY <1>1 DEF Activate
  <1>2. CASE PassCanary
    <2>1. /\ pc = "canary" /\ UNCHANGED <<live, before, cand>>
          /\ pc' = "promoting" => todo' = Changed[cand]
      BY <1>2 DEF PassCanary
    <2>2. pc' \notin {"canary", "undoing"} /\ (pc' = "promoting" => Applied' = {})
      BY <1>2, <2>1 DEF PassCanary, Applied
    <2> QED
      BY <2>1, <2>2
  <1>3. ASSUME NEW f \in File, CopyFile(f) PROVE BackupInv'
    <2>1. /\ pc = "promoting" /\ pc' = "promoting" /\ f \in todo
          /\ todo' = todo \ {f} /\ UNCHANGED <<cand, before>>
      BY <1>3 DEF CopyFile
    <2>2. live[f] = before.live[f]
      BY <2>1 DEF Applied
    <2>3. ASSUME NEW g \in File
          PROVE  IF g \in Applied' THEN backup'[g] = before.live[g] ELSE live'[g] = before.live[g]
      <3>1. CASE g = f
        <4>1. backup'[f] = live[f]
          BY <1>3 DEF CopyFile, BackupOf, TypeOK
        <4>2. f \notin Applied' => f \in Unstaged[cand]
          BY <2>1 DEF Applied
        <4>3. f \in Unstaged[cand] => live'[f] = live[f]
          BY <1>3 DEF CopyFile
        <4> QED
          BY <2>2, <3>1, <4>1, <4>2, <4>3
      <3>2. CASE g # f
        <4>1. g \in Applied' <=> g \in Applied
          BY <2>1, <3>2 DEF Applied
        <4>2. backup'[g] = backup[g] /\ live'[g] = live[g]
          BY <1>3, <3>2 DEF CopyFile, TypeOK
        <4> QED
          BY <2>1, <4>1, <4>2
      <3> QED
        BY <3>1, <3>2
    <2>4. todo' \subseteq Changed[cand]
      BY <2>1
    <2> QED
      BY <2>1, <2>3, <2>4
  <1>4. ASSUME NEW f \in File, CopyFails(f) PROVE BackupInv'
    <2>1. /\ pc = "promoting" /\ pc' = "undoing" /\ f \in todo
          /\ todo' = {g \in Applied : backup[g] # Absent}
          /\ UNCHANGED <<live, before>>
      BY <1>4 DEF CopyFails
    <2>2. f \notin Applied
      BY <2>1 DEF Applied
    <2>3. \A g \in File : g # f => backup'[g] = backup[g]
      BY <1>4 DEF CopyFails, TypeOK
    <2>4. ASSUME NEW g \in File, before.live[g] # Absent
          PROVE  IF g \in todo' THEN backup'[g] = before.live[g] ELSE live[g] = before.live[g]
      <3>1. CASE g \in Applied
        <4>1. backup[g] = before.live[g] /\ g # f
          BY <2>1, <2>2, <3>1
        <4> QED
          BY <2>1, <2>3, <2>4, <3>1, <4>1
      <3>2. CASE g \notin Applied
        BY <2>1, <3>2
      <3> QED
        BY <3>1, <3>2
    <2> QED
      BY <2>1, <2>4
  <1>5. ASSUME NEW f \in File, RestoreFile(f) PROVE BackupInv'
    <2>1. /\ pc = "undoing" /\ pc' = "undoing" /\ f \in todo /\ todo' = todo \ {f}
          /\ live'[f] = backup[f] /\ \A g \in File : g # f => live'[g] = live[g]
          /\ UNCHANGED <<backup, before>>
      BY <1>5 DEF RestoreFile, TypeOK
    <2> QED
      BY <2>1
  <1>6. ASSUME NEW f \in File, RestoreFails(f) PROVE BackupInv'
    <2>1. /\ pc = "undoing" /\ pc' = "idle" /\ f \in todo
          /\ \A g \in File : g # f => live'[g] = live[g]
          /\ UNCHANGED <<backup, before>>
      BY <1>6 DEF RestoreFails, End, TypeOK
    <2> QED
      BY <2>1
  <1>7. CASE RejectAtGate \/ RecordRollback \/ Finish \/ Raise \/ Crash
    <2>1. pc' = "idle" /\ UNCHANGED <<live, backup, before>>
      BY <1>7 DEF RejectAtGate, RecordRollback, Finish, Raise, Crash, End
    <2> QED
      BY <2>1
  <1>8. CASE RollBack \/ AllCopied \/ Seed \/ PassGate \/ \E c \in Candidate : Begin(c)
    <2>1. /\ pc' \notin {"canary", "promoting", "undoing"}
          /\ UNCHANGED <<live, backup, before>>
      BY <1>8 DEF RollBack, AllCopied, Seed, PassGate, Begin
    <2> QED
      BY <2>1
  <1>9. CASE Evaluate \/ EvaluationWrites \/ EvaluationEnds \/ World \/ UNCHANGED vars
    <2>1. UNCHANGED <<pc, cand, todo, live, backup, before>>
      BY <1>9 DEF Evaluate, EvaluationWrites, EvaluationEnds, World, vars
    <2> QED
      BY <2>1 DEF Applied
  <1> QED
    BY <1>1, <1>2, <1>3, <1>4, <1>5, <1>6, <1>7, <1>8, <1>9 DEF Next, Deploy

\* Every file that existed is in place or in the backups of the last activated
\* release, through failing copies, failing restorations and deaths, and in place
\* when a promotion is reported rolled back, whatever earlier releases left.
THEOREM FailedPromotionsRestore == Spec => []ExistingFilesRestored
  <1>1. BackupInv => ExistingFilesRestored
    BY DEF BackupInv
  <1> QED
    BY <1>1, TypeInit, TypeStep, BackupsInit, BackupsStep, PTL DEF Spec

-----------------------------------------------------------------------------
(* Releases as Staging has them.                                           *)

\* The evaluation has a baseline in hand whenever it writes.
EvaluationAims ==
  /\ eval # "idle" => Evaluating
  /\ eval \in {"seeding", "refreshing"} => target["eval"] \in Head

StagingInv == CleanInv /\ EvaluationAims

LEMMA AimsInit == Init => EvaluationAims
  BY DEF Init, EvaluationAims

LEMMA AimsStep == TypeOK /\ EvaluationAims /\ [Next]_vars => EvaluationAims'
  <1> SUFFICES ASSUME TypeOK, EvaluationAims, [Next]_vars PROVE EvaluationAims'
    OBVIOUS
  <1> USE DEF EvaluationAims, TypeOK
  <1>1. ASSUME NEW c \in Candidate, Begin(c) PROVE EvaluationAims'
    BY <1>1 DEF Begin
  <1>2. CASE RejectAtGate \/ RecordRollback \/ Finish \/ Raise \/ Crash
    BY <1>2 DEF RejectAtGate, RecordRollback, Finish, Raise, Crash, End
  <1>3. CASE Seed \/ PassGate \/ Activate \/ RollBack \/ PassCanary \/ AllCopied \/ World
    BY <1>3 DEF Seed, PassGate, Activate, RollBack, PassCanary, AllCopied, World
  <1>4. ASSUME NEW f \in File, CopyFile(f) \/ CopyFails(f) \/ RestoreFile(f) \/ RestoreFails(f)
        PROVE  EvaluationAims'
    BY <1>4 DEF CopyFile, CopyFails, RestoreFile, RestoreFails, End
  <1>5. CASE Evaluate
    BY <1>5 DEF Evaluate
  <1>6. CASE EvaluationWrites \/ EvaluationEnds
    BY <1>6 DEF EvaluationWrites, EvaluationEnds
  <1>7. CASE UNCHANGED vars
    BY <1>7 DEF vars
  <1> QED
    BY <1>1, <1>2, <1>3, <1>4, <1>5, <1>6, <1>7 DEF Next, Deploy

\* What Staging sees of a step that writes no record and gives out no id.
LEMMA FatesStay ==
  ASSUME record' = record, used' = used
  PROVE  [c \in Candidate |-> FateOf(c)]' = [c \in Candidate |-> FateOf(c)]
  BY DEF FateOf

LEMMA FateGiven ==
  ASSUME StagingInv, NEW c \in Candidate \ used, record' = record, used' = used \cup {c}
  PROVE  /\ [d \in Candidate |-> FateOf(d)][c] = "new"
         /\ [d \in Candidate |-> FateOf(d)]'
              = [[d \in Candidate |-> FateOf(d)] EXCEPT ![c] = "open"]
  <1>1. record[c] = "NONE"
    BY DEF StagingInv, CleanInv, CandidateIsFresh
  <1>2. FateOf(c) = "new" /\ FateOf(c)' = "open"
    BY <1>1 DEF FateOf, Rejections
  <1>3. \A d \in Candidate : d # c => FateOf(d)' = FateOf(d)
    BY DEF FateOf
  <1> QED
    BY <1>2, <1>3

LEMMA FateJudged ==
  ASSUME StagingInv, pc # "idle", used' = used,
         NEW state \in Rejections \cup {"DEPLOYED_VERIFIED"},
         record' = [record EXCEPT ![cand] = state]
  PROVE  /\ cand \in Candidate
         /\ [d \in Candidate |-> FateOf(d)][cand] = "open"
         /\ [d \in Candidate |-> FateOf(d)]'
              = [[d \in Candidate |-> FateOf(d)]
                   EXCEPT ![cand] = IF state \in Rejections THEN "rejected" ELSE "deployed"]
  <1>1. /\ cand \in used /\ cand \in Candidate /\ record[cand] = "NONE"
        /\ record \in [Candidate -> Rejections \cup {"NONE", "DEPLOYED_VERIFIED"}]
    BY ReleaseAssumption DEF StagingInv, CleanInv, TypeOK, CandidateIsFresh
  <1>2. FateOf(cand) = "open"
    BY <1>1 DEF FateOf, Rejections
  <1>3. record'[cand] = state /\ \A d \in Candidate : d # cand => record'[d] = record[d]
    BY <1>1
  <1>4. \A d \in Candidate : FateOf(d)' =
          IF d = cand THEN IF state \in Rejections THEN "rejected" ELSE "deployed" ELSE FateOf(d)
    BY <1>3 DEF FateOf, Rejections
  <1> QED
    BY <1>1, <1>2, <1>4

\* Where the process of a release ends, Staging closes the release.
LEMMA EndCloses ==
  ASSUME End PROVE Staged!Close
  BY DEF End, Staged!Close, StageOf

LEMMA StagingStep == StagingInv /\ [Next]_vars => [Staged!Next]_Staged!StagingVars
  <1> SUFFICES ASSUME StagingInv, [Next]_vars PROVE [Staged!Next]_Staged!StagingVars
    OBVIOUS
  <1> DEFINE fate == [c \in Candidate |-> FateOf(c)]
  <1>t. TypeOK
    BY DEF StagingInv, CleanInv
  <1>1. ASSUME NEW c \in Candidate, Begin(c) PROVE Staged!Next
    <2>1. /\ pc = "idle" /\ c \notin used /\ record' = record /\ used' = used \cup {c}
          /\ cand' = c /\ pointer' = pointer
      BY <1>1 DEF Begin
    <2>2. fate[c] = "new" /\ fate' = [fate EXCEPT ![c] = "open"]
      BY <2>1, FateGiven
    <2>3. CASE pointer = NoRelease
      <3>1. pc' = "seeding" /\ prev' = NoRelease
        BY <1>1, <2>3 DEF Begin, Keeps
      <3>2. Staged!Open(c)
        BY <2>1, <2>2, <2>3, <3>1 DEF Staged!Open, StageOf
      <3> QED
        BY <3>2 DEF Staged!Next
    <2>4. CASE pointer # NoRelease
      <3>1. pc' = "gates" /\ prev' = pointer
        BY <1>1, <2>4 DEF Begin, Keeps
      <3>2. Staged!Open(c)
        BY <2>1, <2>2, <2>4, <3>1 DEF Staged!Open, StageOf
      <3> QED
        BY <3>2 DEF Staged!Next
    <2> QED
      BY <2>3, <2>4
  <1>2. CASE Seed
    <2>1. /\ pc = "seeding" /\ pc' = "gates" /\ prev' = pointer' /\ pointer' \in Head
          /\ UNCHANGED <<record, used, cand>>
      BY <1>2, <1>t DEF Seed, WriteBaseline, TypeOK
    <2>2. Staged!Seed
      BY <2>1, FatesStay DEF Staged!Seed, Staged!Moves, StageOf
    <2> QED
      BY <2>2 DEF Staged!Next
  <1>3. CASE RejectAtGate
    <2>1. PICK state \in Rejections : record' = [record EXCEPT ![cand] = state]
      BY <1>3 DEF RejectAtGate, Rejections
    <2>2. /\ pc \in {"gates", "authorized", "tested"} /\ End
          /\ UNCHANGED <<pointer, used>>
      BY <1>3 DEF RejectAtGate
    <2>3. fate[cand] = "open" /\ fate' = [fate EXCEPT ![cand] = "rejected"]
      BY <2>1, <2>2, FateJudged
    <2>4. Staged!TurnDown
      BY <2>2, <2>3, EndCloses DEF Staged!TurnDown, Staged!Judge, StageOf
    <2> QED
      BY <2>4 DEF Staged!Next
  <1>4. CASE PassGate
    <2>1. /\ StageOf(pc)' = StageOf(pc) /\ UNCHANGED <<pointer, record, used, cand, prev>>
      BY <1>4 DEF PassGate, StageOf
    <2> QED
      BY <2>1, FatesStay DEF Staged!StagingVars
  <1>5. CASE Activate
    <2>1. /\ pc = "cleared" /\ pc' = "canary" /\ pointer' = cand
          /\ UNCHANGED <<record, used, cand, prev>>
      BY <1>5 DEF Activate
    <2>2. Staged!Activate
      BY <2>1, FatesStay DEF Staged!Activate, Staged!Moves, StageOf
    <2> QED
      BY <2>2 DEF Staged!Next
  <1>6. CASE RollBack
    <2>1. /\ pc = "canary" /\ pc' = "rolled_back" /\ pointer' = prev
          /\ UNCHANGED <<record, used, cand, prev>>
      BY <1>6 DEF RollBack, RollbackTarget
    <2>2. Staged!RollBack
      BY <2>1, FatesStay DEF Staged!RollBack, Staged!Moves, StageOf
    <2> QED
      BY <2>2 DEF Staged!Next
  <1>7. CASE RecordRollback
    <2>1. /\ pc = "rolled_back" /\ record' = [record EXCEPT ![cand] = "ROLLED_BACK"] /\ End
          /\ UNCHANGED <<pointer, used>>
      BY <1>7 DEF RecordRollback
    <2>2. "ROLLED_BACK" \in Rejections
      BY DEF Rejections
    <2>3. fate[cand] = "open" /\ fate' = [fate EXCEPT ![cand] = "rejected"]
      BY <2>1, <2>2, FateJudged
    <2>4. Staged!RecordRollBack
      BY <2>1, <2>3, EndCloses DEF Staged!RecordRollBack, Staged!Judge, StageOf
    <2> QED
      BY <2>4 DEF Staged!Next
  <1>8. CASE PassCanary
    <2>1. /\ pc = "canary" /\ pc' \in {"promoting", "promoted"}
          /\ UNCHANGED <<pointer, record, used, cand, prev>>
      BY <1>8 DEF PassCanary
    <2>2. Staged!Pass
      BY <2>1, FatesStay DEF Staged!Pass, Staged!Moves, StageOf
    <2> QED
      BY <2>2 DEF Staged!Next
  <1>9. ASSUME NEW f \in File, CopyFile(f) \/ CopyFails(f) \/ RestoreFile(f)
        PROVE  UNCHANGED Staged!StagingVars
    <2>1. /\ StageOf(pc)' = StageOf(pc) /\ UNCHANGED <<pointer, record, used, cand, prev>>
      BY <1>9 DEF CopyFile, CopyFails, RestoreFile, StageOf
    <2> QED
      BY <2>1, FatesStay DEF Staged!StagingVars
  <1>10. CASE AllCopied
    <2>1. /\ StageOf(pc)' = StageOf(pc) /\ UNCHANGED <<pointer, record, used, cand, prev>>
      BY <1>10 DEF AllCopied, StageOf
    <2> QED
      BY <2>1, FatesStay DEF Staged!StagingVars
  <1>11. CASE Finish
    <2>1. /\ pc = "promoted" /\ record' = [record EXCEPT ![cand] = "DEPLOYED_VERIFIED"] /\ End
          /\ UNCHANGED <<pointer, used>>
      BY <1>11 DEF Finish
    <2>2. "DEPLOYED_VERIFIED" \notin Rejections
      BY DEF Rejections
    <2>3. fate[cand] = "open" /\ fate' = [fate EXCEPT ![cand] = "deployed"]
      BY <2>1, <2>2, FateJudged
    <2>4. Staged!Accept
      BY <2>1, <2>3, EndCloses DEF Staged!Accept, Staged!Judge, StageOf
    <2> QED
      BY <2>4 DEF Staged!Next
  <1>12. CASE Raise \/ Crash \/ \E f \in File : RestoreFails(f)
    <2>1. pc # "idle" /\ End /\ UNCHANGED <<pointer, record, used>>
      BY <1>12 DEF Raise, Crash, RestoreFails
    <2>2. StageOf(pc) # "idle"
      BY <2>1 DEF StageOf
    <2>3. Staged!Abandon
      BY <2>1, <2>2, EndCloses, FatesStay DEF Staged!Abandon
    <2> QED
      BY <2>3 DEF Staged!Next
  <1>13. CASE EvaluationWrites
    <2>1. /\ Evaluating /\ pointer' \in Head /\ UNCHANGED <<record, used, cand, prev, pc>>
      BY <1>13 DEF EvaluationWrites, WriteBaseline, StagingInv, EvaluationAims
    <2>2. Staged!Refresh
      BY <2>1, FatesStay DEF Staged!Refresh
    <2> QED
      BY <2>2 DEF Staged!Next
  <1>14. CASE Evaluate \/ EvaluationEnds \/ World
    <2>1. UNCHANGED <<pointer, record, used, cand, prev, pc>>
      BY <1>14 DEF Evaluate, EvaluationEnds, World
    <2> QED
      BY <2>1, FatesStay DEF Staged!StagingVars
  <1>15. CASE UNCHANGED vars
    <2>1. UNCHANGED <<pointer, record, used, cand, prev, pc>>
      BY <1>15 DEF vars
    <2> QED
      BY <2>1, FatesStay DEF Staged!StagingVars
  <1> QED
    BY <1>1, <1>2, <1>3, <1>4, <1>5, <1>6, <1>7, <1>8, <1>9, <1>10, <1>11, <1>12, <1>13,
       <1>14, <1>15 DEF Next, Deploy

\* Every release, with its gates, its copies and undoings, its deaths and the
\* evaluation beside it, is one that Staging allows.
THEOREM ImplementsStaging == Spec => FollowsStaging
  <1>1. Init => Staged!Start
    BY DEF Init, Staged!Start, StageOf, FateOf, Rejections
  <1>2. Init => StagingInv
    BY CleanInit, AimsInit DEF StagingInv
  <1>3. StagingInv /\ [Next]_vars => StagingInv'
    BY CleanStep, AimsStep DEF StagingInv, CleanInv
  <1> QED
    BY <1>1, <1>2, <1>3, StagingStep, PTL DEF Spec, FollowsStaging, Staged!Spec
=============================================================================
