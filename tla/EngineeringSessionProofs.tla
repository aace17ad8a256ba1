---------------------- MODULE EngineeringSessionProofs ----------------------
(***************************************************************************)
(* Theorems about EngineeringSession.                                      *)
(***************************************************************************)
EXTENDS EngineeringSession, TLAPS

\* Attempts pay for builds and releases.
Busy(t) == pc[t] # "idle"
Releasing == {"gates", "canary", "restored", "released", "submitted", "verifying"}

PaidOf(t) ==
  /\ row[t] \in {"READY", "RUNNING"} \/ Busy(t) => attempts[t] <= MaxRetries[t]
  /\ row[t] = "READY" => ~Busy(t) /\ builds[t] <= attempts[t] /\ release[t] <= attempts[t]
  /\ Busy(t) => row[t] = IF pc[t] \in {"submitted", "verifying"} THEN "PENDING_VERIFICATION" ELSE "RUNNING"
  /\ builds[t] <= attempts[t] + 1 /\ release[t] <= attempts[t] + 1
  /\ Busy(t) /\ "B" \notin mem[t].done => builds[t] <= attempts[t]
  /\ pc[t] \in {"session", "checkpoint"} => release[t] <= attempts[t]

Paid == \A t \in Task : PaidOf(t)

\* What the checkpoint and the session say of the review.
Receipt(a, t) ==
  /\ "C" \in a.done => "B" \in a.done
  /\ a.approved => "C" \in a.done /\ a.commit \in passed[t]

ReviewedOf(t) ==
  /\ Receipt(ckpt[t], t) /\ Receipt(mem[t], t)
  /\ pc[t] \in Releasing => mem[t].done = Sessions /\ source[t][release[t]] = mem[t].commit
  /\ pc[t] \in {"submitted", "verifying"} => submission[t] = [commit |-> mem[t].commit, release |-> release[t]]
  /\ row[t] = "VERIFIED_COMPLETE" =>
       /\ submission[t].commit \in passed[t]
       /\ source[t][submission[t].release] = submission[t].commit
       /\ record[t][submission[t].release] = "DEPLOYED_VERIFIED"

Reviewed == \A t \in Task : ReviewedOf(t)

\* Whatever is active, and whatever a rollback may restore, was activated no
\* earlier than a release that stands.
Aged == \A t \in Task, n \in Number : stamp[t][n] <= clock

LockOf(t) ==
  /\ deploying = t => pc[t] \in {"gates", "canary", "restored"}
  /\ pc[t] \in {"gates", "canary", "restored"} => deploying = t

Stands(t) ==
  pc[t] \in {"released", "submitted", "verifying"} /\ record[t][release[t]] = "DEPLOYED_VERIFIED"

OrderedOf(t) ==
  /\ pc[t] = "canary" => ActivatedAt(pointer) >= stamp[t][release[t]]
  /\ Stands(t) =>
       /\ ActivatedAt(pointer) >= stamp[t][release[t]]
       /\ deploying # NoTask => ActivatedAt(prev) >= stamp[t][release[t]]
       /\ pc[t] = "verifying" => ActivatedAt(tested[t]) >= stamp[t][release[t]]

Ordered == Aged /\ (\A t \in Task : LockOf(t)) /\ \A t \in Task : OrderedOf(t)

IInv == TypeOK /\ Paid /\ Reviewed /\ Ordered

LEMMA Numbers ==
  /\ MostRetries \in Nat /\ Number = 0 .. MostRetries + 1 /\ Number \subseteq Nat
  /\ \A t \in Task : MaxRetries[t] \in Nat /\ MaxRetries[t] <= MostRetries
  /\ NoTask \notin Task /\ Baseline \notin Task
BY SessionAssumption DEF Number

LEMMA TaskTypes ==
  ASSUME TypeOK, NEW t \in Task
  PROVE  /\ attempts[t] \in Nat /\ builds[t] \in Nat /\ release[t] \in Nat
         /\ MaxRetries[t] \in Nat /\ MaxRetries[t] <= MostRetries /\ MostRetries \in Nat
         /\ mem[t] \in Artifacts /\ ckpt[t] \in Artifacts
BY Numbers DEF TypeOK

Step(t) == Work(t) \/ Raise(t) \/ Denied(t) \/ Crash(t)
Evaluation == EvaluationLooks \/ EvaluationWrites

LEMMA Evaluated ==
  ASSUME Evaluation
  PROVE  /\ UNCHANGED <<db, source, builds, deploying, pc, local, history>>
         /\ pointer' = pointer \/ (EvaluationWrites /\ pointer' = BaselineAt(clock))
BY DEF Evaluation, EvaluationLooks, EvaluationWrites

OtherTask(u) ==
  UNCHANGED <<row[u], attempts[u], ckpt[u], submission[u], record[u], source[u], builds[u], pc[u],
              mem[u], release[u], tested[u], passed[u], stamp[u]>>

\* A session touches what belongs to its task.
LEMMA Frame ==
  ASSUME TypeOK, NEW t \in Task, Step(t), NEW u \in Task, u # t
  PROVE  OtherTask(u)
<1> USE DEF TypeOK, OtherTask, At, Go, db, local, history
<1>1. CASE Claim(t)
  BY <1>1 DEF Claim
<1>2. CASE Investigate(t)
  BY <1>2 DEF Investigate
<1>3. CASE Build(t)
  BY <1>3 DEF Build
<1>4. CASE (\E approved \in BOOLEAN : Review(t, approved))
  BY <1>4 DEF Review
<1>5. CASE SaveCheckpoint(t)
  BY <1>5 DEF SaveCheckpoint
<1>6. CASE BeginRelease(t)
  BY <1>6 DEF LockFree, BeginRelease
<1>7. CASE LockBusy(t)
  BY <1>7 DEF LockFree, LockBusy, GivenBack, Gone, Forget
<1>8. CASE Activate(t)
  BY <1>8 DEF Activate
<1>9. CASE RollBack(t)
  BY <1>9 DEF RollBack
<1>10. CASE RecordRelease(t)
  BY <1>10 DEF RecordRelease
<1>11. CASE Submit(t)
  BY <1>11 DEF Submit
<1>12. CASE ChooseDirectory(t)
  BY <1>12 DEF ChooseDirectory
<1>13. CASE RecordVerdict(t)
  BY <1>13 DEF Forget, RecordVerdict
<1>14. CASE Raise(t)
  BY <1>14 DEF Raise, GivenBack, Gone, Forget
<1>15. CASE Denied(t)
  BY <1>15 DEF Denied, Gone, Forget
<1>16. CASE Crash(t)
  BY <1>16 DEF Crash, GivenBack, Gone, Forget
<1>17. QED
  BY <1>1, <1>2, <1>3, <1>4, <1>5, <1>6, <1>7, <1>8, <1>9, <1>10, <1>11, <1>12, <1>13, <1>14, <1>15, <1>16 DEF Step, Work

\* The step of a task keeps its accounts.
LEMMA PaidOwn ==
  ASSUME TypeOK, NEW t \in Task, PaidOf(t), Step(t)
  PROVE  PaidOf(t)'
<1> USE TaskTypes DEF PaidOf, Busy, At, Go, db, local, history, TypeOK
<1>1. CASE Claim(t)
  BY <1>1 DEF Claim
<1>2. CASE Investigate(t)
  BY <1>2 DEF Investigate
<1>3. CASE Build(t)
  BY <1>3 DEF Build, NeedsBuild
<1>4. CASE (\E approved \in BOOLEAN : Review(t, approved))
  BY <1>4 DEF Review
<1>5. CASE SaveCheckpoint(t)
  BY <1>5 DEF SaveCheckpoint
<1>6. CASE BeginRelease(t)
  BY <1>6 DEF LockFree, BeginRelease
<1>7. CASE LockBusy(t)
  BY <1>7 DEF LockFree, LockBusy, GivenBack, Exhausted, Gone, Forget
<1>8. CASE Activate(t)
  BY <1>8 DEF Activate
<1>9. CASE RollBack(t)
  BY <1>9 DEF RollBack, RollbackTarget
<1>10. CASE RecordRelease(t)
  BY <1>10 DEF RecordRelease
<1>11. CASE Submit(t)
  BY <1>11 DEF Submit
<1>12. CASE ChooseDirectory(t)
  BY <1>12 DEF ChooseDirectory
<1>13. CASE RecordVerdict(t)
  BY <1>13 DEF Forget, RecordVerdict, Verdict
<1>14. CASE Raise(t)
  BY <1>14 DEF Raise, GivenBack, Exhausted, Gone, Forget
<1>15. CASE Denied(t)
  BY <1>15 DEF Denied, Gone, Forget
<1>16. CASE Crash(t)
  BY <1>16 DEF Crash, GivenBack, Exhausted, Gone, Forget
<1>17. QED
  BY <1>1, <1>2, <1>3, <1>4, <1>5, <1>6, <1>7, <1>8, <1>9, <1>10, <1>11, <1>12, <1>13, <1>14, <1>15, <1>16 DEF Step, Work

LEMMA PaidStep == TypeOK /\ Paid /\ [Next]_vars => Paid'
<1> SUFFICES ASSUME TypeOK, Paid, [Next]_vars, NEW u \in Task PROVE PaidOf(u)'
  BY DEF Paid
<1>1. CASE UNCHANGED vars
  BY <1>1 DEF vars, db, local, Paid, PaidOf, Busy
<1>2. ASSUME NEW t \in Task, Step(t) PROVE PaidOf(u)'
  <2>1. CASE u = t
    BY <1>2, <2>1, PaidOwn DEF Paid
  <2>2. CASE u # t
    <3>1. OtherTask(u) /\ PaidOf(u)
      BY <1>2, <2>2, Frame DEF Paid
    <3>2. QED
      BY <3>1 DEF OtherTask, PaidOf, Busy
  <2>3. QED
    BY <2>1, <2>2
<1>3. CASE Evaluation
  BY <1>3, Evaluated DEF db, local, Paid, PaidOf, Busy
<1>4. QED
  BY <1>1, <1>2, <1>3 DEF Next, Step, Evaluation

LEMMA Room ==
  ASSUME TypeOK, NEW t \in Task, PaidOf(t)
  PROVE  /\ Busy(t) \/ row[t] = "READY" => attempts[t] + 1 \in Number
         /\ Busy(t) /\ "B" \notin mem[t].done => builds[t] + 1 \in Number
         /\ pc[t] = "session" => release[t] + 1 \in Number
<1> USE TaskTypes DEF PaidOf, Number
<1>1. Busy(t) \/ row[t] = "READY" => attempts[t] + 1 \in Number
  BY DEF Busy
<1>2. Busy(t) /\ "B" \notin mem[t].done => builds[t] + 1 \in Number
  OBVIOUS
<1>3. pc[t] = "session" => release[t] + 1 \in Number
  BY DEF Busy
<1>4. QED
  BY <1>1, <1>2, <1>3

\* The parts of the type invariant.
Rows ==
  /\ row \in [Task -> Settled \cup {"READY", "RUNNING", "PENDING_VERIFICATION"}]
  /\ pc \in [Task -> {"idle", "session", "checkpoint", "gates", "canary", "restored",
                      "released", "submitted", "verifying"}]
Counters ==
  /\ attempts \in [Task -> Number]
  /\ builds \in [Task -> Number] /\ release \in [Task -> Number]
Kept ==
  /\ ckpt \in [Task -> Artifacts] /\ mem \in [Task -> Artifacts]
  /\ submission \in [Task -> [commit : Number, release : Number]]
  /\ passed \in [Task -> SUBSET Number]
Tables ==
  /\ record \in [Task -> [Number -> Outcomes \cup {"NONE"}]]
  /\ source \in [Task -> [Number -> Number]]
  /\ stamp \in [Task -> [Number -> Nat]] /\ clock \in Nat
Pointers ==
  /\ pointer \in Releases \cup Baselines /\ prev \in Releases \cup Baselines
  /\ tested \in [Task -> Releases \cup Baselines]
  /\ deploying \in Task \cup {NoTask}
  /\ eval \in {"idle", "refreshing"} /\ evaluations \in 0 .. MaxEvaluations

LEMMA TypeParts == TypeOK <=> Rows /\ Counters /\ Kept /\ Tables /\ Pointers
BY DEF TypeOK, Rows, Counters, Kept, Tables, Pointers

LEMMA RowsStep ==
  ASSUME TypeOK, NEW t \in Task, PaidOf(t), Step(t)
  PROVE  Rows'
<1>0. Rows /\ Counters /\ Kept /\ Tables /\ Pointers
  BY TypeParts
<1> USE <1>0 DEF Rows, Settled, At, Go, db, local, history
<1>1. CASE Claim(t)
  BY <1>1 DEF Claim
<1>2. CASE Investigate(t)
  BY <1>2 DEF Investigate
<1>3. CASE Build(t)
  BY <1>3 DEF Build, NeedsBuild
<1>4. CASE (\E approved \in BOOLEAN : Review(t, approved))
  BY <1>4 DEF Review
<1>5. CASE SaveCheckpoint(t)
  BY <1>5 DEF SaveCheckpoint
<1>6. CASE BeginRelease(t)
  BY <1>6 DEF LockFree, BeginRelease
<1>7. CASE LockBusy(t)
  BY <1>7 DEF LockFree, LockBusy, GivenBack, Exhausted, Gone, Forget
<1>8. CASE Activate(t)
  BY <1>8 DEF Activate
<1>9. CASE RollBack(t)
  BY <1>9 DEF RollBack, RollbackTarget
<1>10. CASE RecordRelease(t)
  BY <1>10 DEF RecordRelease
<1>11. CASE Submit(t)
  BY <1>11 DEF Submit
<1>12. CASE ChooseDirectory(t)
  BY <1>12 DEF ChooseDirectory
<1>13. CASE RecordVerdict(t)
  BY <1>13 DEF Forget, RecordVerdict, Verdict
<1>14. CASE Raise(t)
  BY <1>14 DEF Raise, GivenBack, Exhausted, Gone, Forget
<1>15. CASE Denied(t)
  BY <1>15 DEF Denied, Gone, Forget
<1>16. CASE Crash(t)
  BY <1>16 DEF Crash, GivenBack, Exhausted, Gone, Forget
<1>17. QED
  BY <1>1, <1>2, <1>3, <1>4, <1>5, <1>6, <1>7, <1>8, <1>9, <1>10, <1>11, <1>12, <1>13, <1>14, <1>15, <1>16 DEF Step, Work

LEMMA CountersStep ==
  ASSUME TypeOK, NEW t \in Task, PaidOf(t), Step(t)
  PROVE  Counters'
<1>0. Rows /\ Counters /\ Kept /\ Tables /\ Pointers
  BY TypeParts
<1> USE <1>0, Room DEF Counters, Busy, At, Go, db, local, history
<1>1. CASE Claim(t)
  BY <1>1 DEF Claim
<1>2. CASE Investigate(t)
  BY <1>2 DEF Investigate
<1>3. CASE Build(t)
  BY <1>3 DEF Build, NeedsBuild
<1>4. CASE (\E approved \in BOOLEAN : Review(t, approved))
  BY <1>4 DEF Review
<1>5. CASE SaveCheckpoint(t)
  BY <1>5 DEF SaveCheckpoint
<1>6. CASE BeginRelease(t)
  BY <1>6 DEF LockFree, BeginRelease
<1>7. CASE LockBusy(t)
  BY <1>7 DEF LockFree, LockBusy, GivenBack, Exhausted, Gone, Forget
<1>8. CASE Activate(t)
  BY <1>8 DEF Activate
<1>9. CASE RollBack(t)
  BY <1>9 DEF RollBack, RollbackTarget
<1>10. CASE RecordRelease(t)
  BY <1>10 DEF RecordRelease
<1>11. CASE Submit(t)
  BY <1>11 DEF Submit
<1>12. CASE ChooseDirectory(t)
  BY <1>12 DEF ChooseDirectory
<1>13. CASE RecordVerdict(t)
  BY <1>13 DEF Forget, RecordVerdict, Verdict
<1>14. CASE Raise(t)
  BY <1>14 DEF Raise, GivenBack, Exhausted, Gone, Forget
<1>15. CASE Denied(t)
  BY <1>15 DEF Denied, Gone, Forget
<1>16. CASE Crash(t)
  BY <1>16 DEF Crash, GivenBack, Exhausted, Gone, Forget
<1>17. QED
  BY <1>1, <1>2, <1>3, <1>4, <1>5, <1>6, <1>7, <1>8, <1>9, <1>10, <1>11, <1>12, <1>13, <1>14, <1>15, <1>16 DEF Step, Work

\* A session adds itself to what is done, and its result.
LEMMA Entered ==
  ASSUME NEW a \in Artifacts
  PROVE  /\ [a EXCEPT !.done = @ \cup {"A"}] \in Artifacts
         /\ \A n \in Number : [a EXCEPT !.done = @ \cup {"B"}, !.commit = n] \in Artifacts
         /\ \A b \in BOOLEAN : [a EXCEPT !.done = @ \cup {"C"}, !.approved = b] \in Artifacts
         /\ a.commit \in Number
BY DEF Artifacts, Sessions

LEMMA KeptStep ==
  ASSUME TypeOK, NEW t \in Task, PaidOf(t), Step(t)
  PROVE  Kept'
<1>0. Rows /\ Counters /\ Kept /\ Tables /\ Pointers
  BY TypeParts
<1>m. mem[t] \in Artifacts
  BY <1>0 DEF Kept
<1> USE <1>0, Room, Numbers DEF Kept, Artifacts, Fresh, Sessions, Busy, At, Go, db, local, history
<1>1. CASE Claim(t)
  BY <1>1 DEF Claim
<1>2. CASE Investigate(t)
  <2>1. [mem[t] EXCEPT !.done = @ \cup {"A"}] \in Artifacts
    BY <1>m, Entered
  <2>2. mem' = [mem EXCEPT ![t] = [mem[t] EXCEPT !.done = @ \cup {"A"}]]
    BY <1>2 DEF Investigate
  <2>3. mem' \in [Task -> Artifacts]
    BY <2>1, <2>2
  <2>4. UNCHANGED <<ckpt, submission, passed>>
    BY <1>2 DEF Investigate
  <2>5. QED
    BY <2>3, <2>4
<1>3. CASE Build(t)
  <2>1. builds[t] + 1 \in Number
    BY <1>3 DEF Build, NeedsBuild
  <2>2. [mem[t] EXCEPT !.done = @ \cup {"B"}, !.commit = builds[t] + 1] \in Artifacts
    BY <1>m, <2>1, Entered
  <2>3. mem' = [mem EXCEPT ![t] = [mem[t] EXCEPT !.done = @ \cup {"B"}, !.commit = builds[t] + 1]]
    BY <1>3 DEF Build
  <2>4. mem' \in [Task -> Artifacts]
    BY <2>2, <2>3
  <2>5. UNCHANGED <<ckpt, submission, passed>>
    BY <1>3 DEF Build
  <2>6. QED
    BY <2>4, <2>5
<1>4. CASE (\E approved \in BOOLEAN : Review(t, approved))
  <2>1. PICK approved \in BOOLEAN : Review(t, approved)
    BY <1>4
  <2>2. [mem[t] EXCEPT !.done = @ \cup {"C"}, !.approved = approved] \in Artifacts /\ mem[t].commit \in Number
    BY <1>m, Entered
  <2>3. mem' = [mem EXCEPT ![t] = [mem[t] EXCEPT !.done = @ \cup {"C"}, !.approved = approved]]
    BY <2>1 DEF Review
  <2>4. mem' \in [Task -> Artifacts]
    BY <2>2, <2>3
  <2>5. passed' \in [Task -> SUBSET Number]
    BY <2>1, <2>2 DEF Review
  <2>6. UNCHANGED <<ckpt, submission>>
    BY <2>1 DEF Review
  <2>7. QED
    BY <2>4, <2>5, <2>6
<1>5. CASE SaveCheckpoint(t)
  BY <1>5 DEF SaveCheckpoint
<1>6. CASE BeginRelease(t)
  BY <1>6 DEF LockFree, BeginRelease
<1>7. CASE LockBusy(t)
  BY <1>7 DEF LockFree, LockBusy, GivenBack, Exhausted, Gone, Forget
<1>8. CASE Activate(t)
  BY <1>8 DEF Activate
<1>9. CASE RollBack(t)
  BY <1>9 DEF RollBack, RollbackTarget
<1>10. CASE RecordRelease(t)
  BY <1>10 DEF RecordRelease
<1>11. CASE Submit(t)
  <2>1. mem[t].commit \in Number /\ release[t] \in Number
    BY <1>0 DEF Counters
  <2>2. [commit |-> mem[t].commit, release |-> release[t]] \in [commit : Number, release : Number]
    BY <2>1
  <2>3. QED
    BY <1>11, <2>2 DEF Submit
<1>12. CASE ChooseDirectory(t)
  BY <1>12 DEF ChooseDirectory
<1>13. CASE RecordVerdict(t)
  BY <1>13 DEF Forget, RecordVerdict, Verdict
<1>14. CASE Raise(t)
  BY <1>14 DEF Raise, GivenBack, Exhausted, Gone, Forget
<1>15. CASE Denied(t)
  BY <1>15 DEF Denied, Gone, Forget
<1>16. CASE Crash(t)
  BY <1>16 DEF Crash, GivenBack, Exhausted, Gone, Forget
<1>17. QED
  BY <1>1, <1>2, <1>3, <1>4, <1>5, <1>6, <1>7, <1>8, <1>9, <1>10, <1>11, <1>12, <1>13, <1>14, <1>15, <1>16 DEF Step, Work

LEMMA TablesStep ==
  ASSUME TypeOK, NEW t \in Task, PaidOf(t), Step(t)
  PROVE  Tables'
<1>0. Rows /\ Counters /\ Kept /\ Tables /\ Pointers
  BY TypeParts
<1> USE <1>0, Room DEF Tables, Busy, Outcomes, At, Go, db, local, history
<1>1. CASE Claim(t)
  BY <1>1 DEF Claim
<1>2. CASE Investigate(t)
  BY <1>2 DEF Investigate
<1>3. CASE Build(t)
  BY <1>3 DEF Build, NeedsBuild
<1>4. CASE (\E approved \in BOOLEAN : Review(t, approved))
  BY <1>4 DEF Review
<1>5. CASE SaveCheckpoint(t)
  BY <1>5 DEF SaveCheckpoint
<1>6. CASE BeginRelease(t)
  <2>1. UNCHANGED <<record, stamp, clock>> /\ mem[t].commit \in Number
    BY <1>6, <1>0 DEF LockFree, BeginRelease, Kept, Artifacts
  <2>2. source' = [source EXCEPT ![t] = [source[t] EXCEPT ![release[t] + 1] = mem[t].commit]]
    BY <1>6 DEF LockFree, BeginRelease
  <2>3. [source[t] EXCEPT ![release[t] + 1] = mem[t].commit] \in [Number -> Number]
    BY <2>1
  <2>4. source' \in [Task -> [Number -> Number]]
    BY <2>2, <2>3
  <2>5. QED
    BY <2>1, <2>4
<1>7. CASE LockBusy(t)
  BY <1>7 DEF LockFree, LockBusy, GivenBack, Exhausted, Gone, Forget
<1>8. CASE Activate(t)
  <2>1. release[t] \in Number /\ UNCHANGED <<source, record>>
    BY <1>8, <1>0 DEF Activate, Counters
  <2>2. clock + 1 \in Nat /\ clock' = clock + 1
    BY <1>8 DEF Activate
  <2>3. stamp' = [stamp EXCEPT ![t] = [stamp[t] EXCEPT ![release[t]] = clock + 1]]
    BY <1>8 DEF Activate
  <2>4. [stamp[t] EXCEPT ![release[t]] = clock + 1] \in [Number -> Nat]
    BY <2>1, <2>2
  <2>5. stamp' \in [Task -> [Number -> Nat]]
    BY <2>3, <2>4
  <2>6. QED
    BY <2>1, <2>2, <2>5
<1>9. CASE RollBack(t)
  BY <1>9 DEF RollBack, RollbackTarget
<1>10. CASE RecordRelease(t)
  <2>1. PICK outcome \in Outcomes : record' = [record EXCEPT ![t][release[t]] = outcome]
    BY <1>10 DEF RecordRelease
  <2>2. release[t] \in Number /\ UNCHANGED <<source, stamp, clock>>
    BY <1>10, <1>0 DEF RecordRelease, Counters
  <2>3. [record[t] EXCEPT ![release[t]] = outcome] \in [Number -> Outcomes \cup {"NONE"}]
    BY <2>2
  <2>4. record' = [record EXCEPT ![t] = [record[t] EXCEPT ![release[t]] = outcome]]
    BY <2>1
  <2>5. record' \in [Task -> [Number -> Outcomes \cup {"NONE"}]]
    BY <2>3, <2>4
  <2>6. QED
    BY <2>2, <2>5
<1>11. CASE Submit(t)
  BY <1>11 DEF Submit
<1>12. CASE ChooseDirectory(t)
  BY <1>12 DEF ChooseDirectory
<1>13. CASE RecordVerdict(t)
  BY <1>13 DEF Forget, RecordVerdict, Verdict
<1>14. CASE Raise(t)
  BY <1>14 DEF Raise, GivenBack, Exhausted, Gone, Forget
<1>15. CASE Denied(t)
  BY <1>15 DEF Denied, Gone, Forget
<1>16. CASE Crash(t)
  BY <1>16 DEF Crash, GivenBack, Exhausted, Gone, Forget
<1>17. QED
  BY <1>1, <1>2, <1>3, <1>4, <1>5, <1>6, <1>7, <1>8, <1>9, <1>10, <1>11, <1>12, <1>13, <1>14, <1>15, <1>16 DEF Step, Work

LEMMA PointersStep ==
  ASSUME TypeOK, NEW t \in Task, PaidOf(t), Step(t)
  PROVE  Pointers'
<1>0. Rows /\ Counters /\ Kept /\ Tables /\ Pointers
  BY TypeParts
<1> USE <1>0, Room DEF Pointers, Busy, Releases, Baselines, BaselineAt, FirstBaseline,
                       At, Go, db, local, history, evaluation
<1>1. CASE Claim(t)
  BY <1>1 DEF Claim
<1>2. CASE Investigate(t)
  BY <1>2 DEF Investigate
<1>3. CASE Build(t)
  BY <1>3 DEF Build, NeedsBuild
<1>4. CASE (\E approved \in BOOLEAN : Review(t, approved))
  BY <1>4 DEF Review
<1>5. CASE SaveCheckpoint(t)
  BY <1>5 DEF SaveCheckpoint
<1>6. CASE BeginRelease(t)
  BY <1>6 DEF LockFree, BeginRelease
<1>7. CASE LockBusy(t)
  BY <1>7 DEF LockFree, LockBusy, GivenBack, Exhausted, Gone, Forget
<1>8. CASE Activate(t)
  <2>1. release[t] \in Number
    BY <1>0 DEF Counters
  <2>2. pointer' = <<t, release[t]>> /\ UNCHANGED <<prev, tested, deploying, eval, evaluations>>
    BY <1>8 DEF Activate
  <2>3. QED
    BY <2>1, <2>2
<1>9. CASE RollBack(t)
  BY <1>9 DEF RollBack, RollbackTarget
<1>10. CASE RecordRelease(t)
  BY <1>10 DEF RecordRelease
<1>11. CASE Submit(t)
  BY <1>11 DEF Submit
<1>12. CASE ChooseDirectory(t)
  BY <1>12 DEF ChooseDirectory
<1>13. CASE RecordVerdict(t)
  BY <1>13 DEF Forget, RecordVerdict, Verdict
<1>14. CASE Raise(t)
  BY <1>14 DEF Raise, GivenBack, Exhausted, Gone, Forget
<1>15. CASE Denied(t)
  BY <1>15 DEF Denied, Gone, Forget
<1>16. CASE Crash(t)
  BY <1>16 DEF Crash, GivenBack, Exhausted, Gone, Forget
<1>17. QED
  BY <1>1, <1>2, <1>3, <1>4, <1>5, <1>6, <1>7, <1>8, <1>9, <1>10, <1>11, <1>12, <1>13, <1>14, <1>15, <1>16 DEF Step, Work

LEMMA TypeStep == TypeOK /\ Paid /\ [Next]_vars => TypeOK'
<1> SUFFICES ASSUME TypeOK, Paid, [Next]_vars PROVE TypeOK'
  OBVIOUS
<1>1. CASE UNCHANGED vars
  BY <1>1 DEF vars, db, local, history, evaluation, TypeOK
<1>2. ASSUME NEW t \in Task, Step(t) PROVE TypeOK'
  <2>1. Rows' /\ Counters' /\ Kept' /\ Tables' /\ Pointers'
    BY <1>2, RowsStep, CountersStep, KeptStep, TablesStep, PointersStep DEF Paid
  <2>2. QED
    BY <2>1 DEF TypeOK, Rows, Counters, Kept, Tables, Pointers
<1>3. CASE Evaluation
  <2>1. UNCHANGED <<row, pc, attempts, builds, release, ckpt, mem, submission, passed, record, source,
                    stamp, clock, prev, tested, deploying>>
    BY <1>3, Evaluated DEF db, local, history
  <2>2. /\ pointer' \in Releases \cup Baselines
        /\ eval' \in {"idle", "refreshing"} /\ evaluations' \in 0 .. MaxEvaluations
    <3>1. BaselineAt(clock) \in Baselines /\ MaxEvaluations \in Nat
      BY SessionAssumption DEF TypeOK, BaselineAt, Baselines
    <3>2. CASE EvaluationLooks
      BY <3>1, <3>2 DEF EvaluationLooks, TypeOK
    <3>3. CASE EvaluationWrites
      BY <3>1, <3>3 DEF EvaluationWrites, TypeOK
    <3>4. QED
      BY <1>3, <3>2, <3>3 DEF Evaluation
  <2>3. QED
    BY <2>1, <2>2 DEF TypeOK
<1>4. QED
  BY <1>1, <1>2, <1>3 DEF Next, Step, Evaluation

-----------------------------------------------------------------------------
(* The review.                                                             *)

LEMMA ReviewedOwn ==
  ASSUME TypeOK, NEW t \in Task, PaidOf(t), ReviewedOf(t), Step(t)
  PROVE  ReviewedOf(t)'
<1>0. mem[t] \in Artifacts /\ ckpt[t] \in Artifacts /\ release[t] \in Number
  BY TaskTypes DEF TypeOK
<1> USE <1>0, Room DEF PaidOf, ReviewedOf, Receipt, Releasing, Busy, At, Go, db, local, history, Artifacts, Fresh, Sessions, TypeOK
<1>1. CASE Claim(t)
  BY <1>1 DEF Claim
<1>2. CASE Investigate(t)
  BY <1>2 DEF Investigate
<1>3. CASE Build(t)
  BY <1>3 DEF Build, NeedsBuild
<1>4. CASE (\E approved \in BOOLEAN : Review(t, approved))
  BY <1>4 DEF Review
<1>5. CASE SaveCheckpoint(t)
  BY <1>5 DEF SaveCheckpoint
<1>6. CASE BeginRelease(t)
  BY <1>6 DEF LockFree, BeginRelease
<1>7. CASE LockBusy(t)
  BY <1>7 DEF LockFree, LockBusy, GivenBack, Exhausted, Gone, Forget
<1>8. CASE Activate(t)
  BY <1>8 DEF Activate
<1>9. CASE RollBack(t)
  BY <1>9 DEF RollBack, RollbackTarget
<1>10. CASE RecordRelease(t)
  BY <1>10 DEF RecordRelease
<1>11. CASE Submit(t)
  BY <1>11 DEF Submit
<1>12. CASE ChooseDirectory(t)
  BY <1>12 DEF ChooseDirectory
<1>13. CASE RecordVerdict(t)
  BY <1>13 DEF Forget, RecordVerdict, Verdict, ReleaseClaimHolds
<1>14. CASE Raise(t)
  BY <1>14 DEF Raise, GivenBack, Exhausted, Gone, Forget
<1>15. CASE Denied(t)
  BY <1>15 DEF Denied, Gone, Forget
<1>16. CASE Crash(t)
  BY <1>16 DEF Crash, GivenBack, Exhausted, Gone, Forget
<1>17. QED
  BY <1>1, <1>2, <1>3, <1>4, <1>5, <1>6, <1>7, <1>8, <1>9, <1>10, <1>11, <1>12, <1>13, <1>14, <1>15, <1>16 DEF Step, Work

LEMMA ReviewedStep == TypeOK /\ Paid /\ Reviewed /\ [Next]_vars => Reviewed'
<1> SUFFICES ASSUME TypeOK, Paid, Reviewed, [Next]_vars, NEW u \in Task PROVE ReviewedOf(u)'
  BY DEF Reviewed
<1>1. CASE UNCHANGED vars
  BY <1>1 DEF vars, db, local, history, Reviewed, ReviewedOf, Receipt
<1>2. ASSUME NEW t \in Task, Step(t) PROVE ReviewedOf(u)'
  <2>1. CASE u = t
    BY <1>2, <2>1, ReviewedOwn DEF Reviewed, Paid
  <2>2. CASE u # t
    <3>1. OtherTask(u) /\ ReviewedOf(u)
      BY <1>2, <2>2, Frame DEF Reviewed
    <3>2. QED
      BY <3>1 DEF OtherTask, ReviewedOf, Receipt
  <2>3. QED
    BY <2>1, <2>2
<1>3. CASE Evaluation
  BY <1>3, Evaluated DEF db, local, history, Reviewed, ReviewedOf, Receipt
<1>4. QED
  BY <1>1, <1>2, <1>3 DEF Next, Step, Evaluation

-----------------------------------------------------------------------------
(* The order of the activations.                                           *)

\* What a step does to the clock, the pointer and the lock.
LEMMA Moves ==
  ASSUME TypeOK, NEW t \in Task, Step(t), ~Activate(t)
  PROVE  /\ UNCHANGED <<stamp, clock>>
         /\ UNCHANGED pointer \/ (RollBack(t) /\ pointer' = prev)
         /\ \/ UNCHANGED <<deploying, prev>>
            \/ deploying' = NoTask
            \/ BeginRelease(t) /\ deploying' = t /\ prev' = pointer /\ UNCHANGED pointer
<1> USE DEF At, Go, db, local, history
<1>1. CASE Claim(t)
  BY <1>1 DEF Claim
<1>2. CASE Investigate(t)
  BY <1>2 DEF Investigate
<1>3. CASE Build(t)
  BY <1>3 DEF Build, NeedsBuild
<1>4. CASE (\E approved \in BOOLEAN : Review(t, approved))
  BY <1>4 DEF Review
<1>5. CASE SaveCheckpoint(t)
  BY <1>5 DEF SaveCheckpoint
<1>6. CASE BeginRelease(t)
  BY <1>6 DEF LockFree, BeginRelease
<1>7. CASE LockBusy(t)
  BY <1>7 DEF LockFree, LockBusy, GivenBack, Exhausted, Gone, Forget
<1>8. CASE Activate(t)
  BY <1>8 DEF Activate
<1>9. CASE RollBack(t)
  BY <1>9 DEF RollBack, RollbackTarget
<1>10. CASE RecordRelease(t)
  BY <1>10 DEF RecordRelease
<1>11. CASE Submit(t)
  BY <1>11 DEF Submit
<1>12. CASE ChooseDirectory(t)
  BY <1>12 DEF ChooseDirectory
<1>13. CASE RecordVerdict(t)
  BY <1>13 DEF Forget, RecordVerdict, Verdict, ReleaseClaimHolds
<1>14. CASE Raise(t)
  BY <1>14 DEF Raise, GivenBack, Exhausted, Gone, Forget
<1>15. CASE Denied(t)
  BY <1>15 DEF Denied, Gone, Forget
<1>16. CASE Crash(t)
  BY <1>16 DEF Crash, GivenBack, Exhausted, Gone, Forget
<1>17. QED
  BY <1>1, <1>2, <1>3, <1>4, <1>5, <1>6, <1>7, <1>8, <1>9, <1>10, <1>11, <1>12, <1>13, <1>14, <1>15, <1>16 DEF Step, Work

LEMMA Activated ==
  ASSUME TypeOK, Aged, NEW t \in Task, Activate(t)
  PROVE  /\ stamp'[t][release[t]] = clock + 1 /\ clock' = clock + 1
         /\ \A u \in Task, n \in Number : stamp[u][n] \in Nat /\ stamp[u][n] <= stamp'[u][n] /\ stamp'[u][n] <= clock + 1
         /\ clock \in Nat
<1>1. release[t] \in Number /\ clock \in Nat
  BY DEF TypeOK
<1>2. stamp' = [stamp EXCEPT ![t] = [stamp[t] EXCEPT ![release[t]] = clock + 1]] /\ clock' = clock + 1
  BY DEF Activate
<1>3. stamp'[t] = [stamp[t] EXCEPT ![release[t]] = clock + 1]
  BY <1>2 DEF TypeOK
<1>4. stamp'[t][release[t]] = clock + 1
  BY <1>1, <1>3 DEF TypeOK
<1>5. ASSUME NEW u \in Task, NEW n \in Number
      PROVE  stamp[u][n] \in Nat /\ stamp[u][n] <= stamp'[u][n] /\ stamp'[u][n] <= clock + 1
  <2>1. stamp[u][n] \in Nat /\ stamp[u][n] <= clock
    BY DEF TypeOK, Aged
  <2>2. CASE u = t /\ n = release[t]
    BY <1>1, <1>4, <2>1, <2>2
  <2>3. CASE u # t
    BY <1>1, <1>2, <2>1, <2>3 DEF TypeOK
  <2>4. CASE u = t /\ n # release[t]
    BY <1>1, <1>3, <2>1, <2>4 DEF TypeOK
  <2>5. QED
    BY <2>2, <2>3, <2>4
<1>6. QED
  BY <1>1, <1>2, <1>4, <1>5

\* Ages never shrink, and are numbers.
LEMMA AgesGrow ==
  ASSUME TypeOK, Aged, NEW t \in Task, Step(t), NEW r \in Releases \cup Baselines
  PROVE  ActivatedAt(r) \in Nat /\ ActivatedAt(r)' \in Nat /\ ActivatedAt(r) <= ActivatedAt(r)'
<1>1. CASE r \in Baselines
  BY <1>1 DEF ActivatedAt, Baselines
<1>2. CASE r \in Releases
  <2>1. r[1] \in Task /\ r[1] # Baseline /\ r[2] \in Number
    BY <1>2, Numbers DEF Releases
  <2>2. ActivatedAt(r) = stamp[r[1]][r[2]] /\ ActivatedAt(r)' = stamp'[r[1]][r[2]]
    BY <2>1 DEF ActivatedAt
  <2>3. stamp[r[1]][r[2]] \in Nat
    BY <2>1 DEF TypeOK
  <2>4. CASE Activate(t)
    <3>1. stamp'[r[1]][r[2]] \in Nat
      <4>1. CASE r[1] = t /\ r[2] = release[t]
        BY <2>4, <4>1, Activated
      <4>2. stamp' = [stamp EXCEPT ![t] = [stamp[t] EXCEPT ![release[t]] = clock + 1]]
        BY <2>4 DEF Activate
      <4>3. CASE r[1] = t /\ r[2] # release[t]
        BY <2>1, <2>3, <4>2, <4>3 DEF TypeOK
      <4>4. CASE r[1] # t
        BY <2>1, <2>3, <4>2, <4>4 DEF TypeOK
      <4>5. QED
        BY <4>1, <4>3, <4>4
    <3>2. QED
      BY <2>1, <2>2, <2>3, <2>4, <3>1, Activated
  <2>5. CASE ~Activate(t)
    BY <2>2, <2>3, <2>5, Moves
  <2>6. QED
    BY <2>4, <2>5
<1>3. QED
  BY <1>1, <1>2

LEMMA AgedStep ==
  ASSUME TypeOK, Aged, NEW t \in Task, Step(t)
  PROVE  Aged'
<1>1. CASE Activate(t)
  BY <1>1, Activated DEF Aged
<1>2. CASE ~Activate(t)
  BY <1>2, Moves DEF Aged
<1>3. QED
  BY <1>1, <1>2

LEMMA LockOwn ==
  ASSUME TypeOK, NEW t \in Task, LockOf(t), Step(t)
  PROVE  LockOf(t)'
<1> USE Numbers DEF LockOf, At, Go, db, local, history, TypeOK
<1>1. CASE Claim(t)
  BY <1>1 DEF Claim
<1>2. CASE Investigate(t)
  BY <1>2 DEF Investigate
<1>3. CASE Build(t)
  BY <1>3 DEF Build, NeedsBuild
<1>4. CASE (\E approved \in BOOLEAN : Review(t, approved))
  BY <1>4 DEF Review
<1>5. CASE SaveCheckpoint(t)
  BY <1>5 DEF SaveCheckpoint
<1>6. CASE BeginRelease(t)
  BY <1>6 DEF LockFree, BeginRelease
<1>7. CASE LockBusy(t)
  BY <1>7 DEF LockFree, LockBusy, GivenBack, Exhausted, Gone, Forget
<1>8. CASE Activate(t)
  BY <1>8 DEF Activate
<1>9. CASE RollBack(t)
  BY <1>9 DEF RollBack, RollbackTarget
<1>10. CASE RecordRelease(t)
  BY <1>10 DEF RecordRelease
<1>11. CASE Submit(t)
  BY <1>11 DEF Submit
<1>12. CASE ChooseDirectory(t)
  BY <1>12 DEF ChooseDirectory
<1>13. CASE RecordVerdict(t)
  BY <1>13 DEF Forget, RecordVerdict, Verdict, ReleaseClaimHolds
<1>14. CASE Raise(t)
  BY <1>14 DEF Raise, GivenBack, Exhausted, Gone, Forget
<1>15. CASE Denied(t)
  BY <1>15 DEF Denied, Gone, Forget
<1>16. CASE Crash(t)
  BY <1>16 DEF Crash, GivenBack, Exhausted, Gone, Forget
<1>17. QED
  BY <1>1, <1>2, <1>3, <1>4, <1>5, <1>6, <1>7, <1>8, <1>9, <1>10, <1>11, <1>12, <1>13, <1>14, <1>15, <1>16 DEF Step, Work

\* Only the holder of the lock moves the pointer or gives the lock away.
LEMMA LockMoves ==
  ASSUME NEW t \in Task, LockOf(t), Step(t)
  PROVE  /\ \/ UNCHANGED deploying
            \/ deploying = t /\ deploying' = NoTask
            \/ deploying = NoTask /\ deploying' = t
         /\ UNCHANGED pointer \/ deploying = t
<1> USE DEF LockOf, At, Go, db, local, history
<1>1. CASE Claim(t)
  BY <1>1 DEF Claim
<1>2. CASE Investigate(t)
  BY <1>2 DEF Investigate
<1>3. CASE Build(t)
  BY <1>3 DEF Build, NeedsBuild
<1>4. CASE (\E approved \in BOOLEAN : Review(t, approved))
  BY <1>4 DEF Review
<1>5. CASE SaveCheckpoint(t)
  BY <1>5 DEF SaveCheckpoint
<1>6. CASE BeginRelease(t)
  BY <1>6 DEF LockFree, BeginRelease
<1>7. CASE LockBusy(t)
  BY <1>7 DEF LockFree, LockBusy, GivenBack, Exhausted, Gone, Forget
<1>8. CASE Activate(t)
  BY <1>8 DEF Activate
<1>9. CASE RollBack(t)
  BY <1>9 DEF RollBack, RollbackTarget
<1>10. CASE RecordRelease(t)
  BY <1>10 DEF RecordRelease
<1>11. CASE Submit(t)
  BY <1>11 DEF Submit
<1>12. CASE ChooseDirectory(t)
  BY <1>12 DEF ChooseDirectory
<1>13. CASE RecordVerdict(t)
  BY <1>13 DEF Forget, RecordVerdict, Verdict, ReleaseClaimHolds
<1>14. CASE Raise(t)
  BY <1>14 DEF Raise, GivenBack, Exhausted, Gone, Forget
<1>15. CASE Denied(t)
  BY <1>15 DEF Denied, Gone, Forget
<1>16. CASE Crash(t)
  BY <1>16 DEF Crash, GivenBack, Exhausted, Gone, Forget
<1>17. QED
  BY <1>1, <1>2, <1>3, <1>4, <1>5, <1>6, <1>7, <1>8, <1>9, <1>10, <1>11, <1>12, <1>13, <1>14, <1>15, <1>16 DEF Step, Work

LEMMA LockOthers ==
  ASSUME TypeOK, NEW t \in Task, LockOf(t), NEW u \in Task, u # t, LockOf(u), Step(t)
  PROVE  LockOf(u)'
<1>1. UNCHANGED <<pc[u], release[u]>>
  BY Frame DEF OtherTask
<1>2. (deploying' = u) <=> (deploying = u)
  BY LockMoves, Numbers
<1>3. deploying = u => UNCHANGED pointer
  BY LockMoves
<1>4. QED
  BY <1>1, <1>2, <1>3 DEF LockOf

\* The pointer and what a rollback would restore.
Since(n) == ActivatedAt(pointer) >= n /\ (deploying # NoTask => ActivatedAt(prev) >= n)

LEMMA SinceStep ==
  ASSUME TypeOK, Aged, NEW t \in Task, LockOf(t), Step(t), NEW n \in Nat, n <= clock, Since(n)
  PROVE  Since(n)'
<1>0. /\ pointer \in Releases \cup Baselines /\ prev \in Releases \cup Baselines
      /\ NoTask \notin Task /\ clock \in Nat
  BY Numbers DEF TypeOK
<1>1. /\ ActivatedAt(pointer) \in Nat /\ ActivatedAt(prev) \in Nat
  BY <1>0, AgesGrow
<1>2. CASE Activate(t)
  <2>1. pointer' = <<t, release[t]>> /\ UNCHANGED <<prev, deploying>>
    BY <1>2 DEF Activate, local
  <2>2. ActivatedAt(pointer)' = clock + 1
    <3>1. t # Baseline
      BY Numbers
    <3>2. ActivatedAt(pointer)' = stamp'[t][release[t]]
      BY <2>1, <3>1 DEF ActivatedAt
    <3>3. QED
      BY <1>2, <3>2, Activated
  <2>3. ActivatedAt(prev)' >= ActivatedAt(prev) /\ ActivatedAt(prev)' \in Nat
    <3>1. PICK r \in Releases \cup Baselines : r = prev
      BY <1>0
    <3>2. ActivatedAt(r) <= ActivatedAt(r)' /\ ActivatedAt(r)' \in Nat
      BY AgesGrow
    <3>3. ActivatedAt(prev) = ActivatedAt(r) /\ ActivatedAt(prev)' = ActivatedAt(r)'
      BY <2>1, <3>1 DEF ActivatedAt
    <3>4. QED
      BY <1>1, <3>1, <3>2, <3>3, AgesGrow
  <2>4. QED
    BY <1>0, <1>1, <2>1, <2>2, <2>3 DEF Since
<1>3. CASE ~Activate(t)
  BY <1>0, <1>1, <1>3, Moves DEF Since, ActivatedAt, RollBack, LockOf, At
<1>4. QED
  BY <1>2, <1>3

\* What the step of one task means for a release of another that stands.
LEMMA OrderedOthers ==
  ASSUME TypeOK, Aged, NEW t \in Task, LockOf(t), Step(t),
         NEW u \in Task, u # t, LockOf(u), OrderedOf(u)
  PROVE  OrderedOf(u)'
<1>1. OtherTask(u)
  BY Frame
<1>2. ActivatedAt(tested[u]) \in Nat /\ ActivatedAt(tested[u])' \in Nat
      /\ ActivatedAt(tested[u]) <= ActivatedAt(tested[u])'
  <2>1. PICK r \in Releases \cup Baselines : r = tested[u]
    BY DEF TypeOK
  <2>2. ActivatedAt(r) \in Nat /\ ActivatedAt(r)' \in Nat /\ ActivatedAt(r) <= ActivatedAt(r)'
    BY AgesGrow
  <2>3. ActivatedAt(tested[u]) = ActivatedAt(r) /\ ActivatedAt(tested[u])' = ActivatedAt(r)'
    BY <1>1, <2>1 DEF OtherTask, ActivatedAt
  <2>4. QED
    BY <2>2, <2>3
<1>3. stamp[u][release[u]] \in Nat /\ stamp[u][release[u]] <= clock
  BY DEF TypeOK, Aged
<1>4. ASSUME Stands(u)'
      PROVE  /\ ActivatedAt(pointer)' >= stamp'[u][release'[u]]
             /\ deploying' # NoTask => ActivatedAt(prev)' >= stamp'[u][release'[u]]
             /\ pc'[u] = "verifying" => ActivatedAt(tested[u])' >= stamp'[u][release'[u]]
  <2>1. Stands(u)
    BY <1>1, <1>4 DEF Stands, OtherTask
  <2>2. Since(stamp[u][release[u]])
    BY <2>1 DEF OrderedOf, Since
  <2>3. Since(stamp[u][release[u]])'
    <3>1. PICK n \in Nat : n = stamp[u][release[u]]
      BY <1>3
    <3>2. Since(n)'
      BY <1>3, <2>2, <3>1, SinceStep
    <3>3. stamp'[u][release'[u]] = n
      BY <1>1, <3>1 DEF OtherTask
    <3>4. QED
      BY <3>2, <3>3 DEF Since
  <2>4. pc[u] = "verifying" => ActivatedAt(tested[u]) >= stamp[u][release[u]]
    BY <2>1 DEF OrderedOf
  <2>5. QED
    BY <1>1, <1>2, <1>3, <2>3, <2>4 DEF OtherTask, Since
<1>5. ASSUME pc'[u] = "canary" PROVE ActivatedAt(pointer)' >= stamp'[u][release'[u]]
  <2>1. pc[u] = "canary" /\ deploying = u
    BY <1>1, <1>5 DEF OtherTask, LockOf
  <2>2. ~Activate(t) /\ UNCHANGED pointer
    BY <2>1, LockMoves DEF Activate, At, LockOf
  <2>3. UNCHANGED stamp
    BY <2>2, Moves
  <2>4. QED
    BY <1>1, <2>1, <2>2, <2>3 DEF OtherTask, OrderedOf, ActivatedAt
<1>6. QED
  BY <1>4, <1>5 DEF OrderedOf

\* What the step of a task means for its own release.
LEMMA OrderedOwn ==
  ASSUME TypeOK, Aged, NEW t \in Task, LockOf(t), OrderedOf(t), Step(t)
  PROVE  OrderedOf(t)'
<1>1. CASE RecordRelease(t)
  <2>1. pc'[t] = "released" /\ deploying' = NoTask /\ UNCHANGED <<pointer, release, stamp>>
    BY <1>1 DEF RecordRelease, At, Go, TypeOK, history
  <2>2. ASSUME Stands(t)' PROVE ActivatedAt(pointer)' >= stamp'[t][release'[t]]
    <3>1. pc[t] = "canary"
      <4>1. record'[t][release[t]] = "DEPLOYED_VERIFIED"
        BY <2>1, <2>2 DEF Stands
      <4>2. QED
        BY <1>1, <4>1 DEF RecordRelease, At, Outcomes, TypeOK
    <3>2. QED
      BY <2>1, <3>1 DEF OrderedOf, ActivatedAt
  <2>3. QED
    BY <2>1, <2>2 DEF OrderedOf
<1>2. CASE Submit(t)
  <2>1. /\ pc[t] = "released" /\ pc'[t] = "submitted"
        /\ UNCHANGED <<pointer, prev, deploying, record, release, stamp>>
    BY <1>2 DEF Submit, At, Go, TypeOK, local, history
  <2>2. Stands(t)' => Stands(t)
    BY <2>1 DEF Stands
  <2>3. QED
    BY <2>1, <2>2 DEF OrderedOf, ActivatedAt
<1>3. CASE ChooseDirectory(t)
  <2>1. /\ pc[t] = "submitted" /\ pc'[t] = "verifying" /\ tested'[t] = pointer
        /\ UNCHANGED <<pointer, prev, deploying, record, release, stamp>>
    BY <1>3 DEF ChooseDirectory, At, Go, TypeOK, db, history
  <2>2. Stands(t)' => Stands(t)
    BY <2>1 DEF Stands
  <2>3. QED
    BY <2>1, <2>2 DEF OrderedOf, ActivatedAt
<1>4. CASE Activate(t)
  <2>1. pc'[t] = "canary" /\ pointer' = <<t, release[t]>> /\ UNCHANGED release
    BY <1>4 DEF Activate, Go, TypeOK, local
  <2>2. ActivatedAt(pointer)' = stamp'[t][release'[t]]
    BY <2>1, Numbers DEF ActivatedAt
  <2>3. stamp'[t][release'[t]] \in Nat
    BY <1>4, <2>1, Activated
  <2>4. QED
    BY <2>1, <2>2, <2>3 DEF OrderedOf, Stands
<1>5. CASE ~RecordRelease(t) /\ ~Submit(t) /\ ~ChooseDirectory(t) /\ ~Activate(t)
  <2>1. pc'[t] \notin {"canary", "released", "submitted", "verifying"}
    <3> USE DEF At, Go, db, local, history, TypeOK
    <3>1. CASE Claim(t)
      BY <3>1 DEF Claim
    <3>2. CASE Investigate(t)
      BY <3>2 DEF Investigate
    <3>3. CASE Build(t)
      BY <3>3 DEF Build
    <3>4. CASE (\E approved \in BOOLEAN : Review(t, approved))
      BY <3>4 DEF Review
    <3>5. CASE SaveCheckpoint(t)
      BY <3>5 DEF SaveCheckpoint
    <3>6. CASE BeginRelease(t)
      BY <3>6 DEF LockFree, BeginRelease
    <3>7. CASE LockBusy(t)
      BY <3>7 DEF LockFree, LockBusy, Gone
    <3>8. CASE RollBack(t)
      BY <3>8 DEF RollBack
    <3>9. CASE RecordVerdict(t)
      BY <3>9 DEF RecordVerdict
    <3>10. CASE Raise(t)
      BY <3>10 DEF Raise, Gone
    <3>11. CASE Denied(t)
      BY <3>11 DEF Denied, Gone
    <3>12. CASE Crash(t)
      BY <3>12 DEF Crash, Gone
    <3>13. QED
      BY <1>5, <3>1, <3>2, <3>3, <3>4, <3>5, <3>6, <3>7, <3>8, <3>9, <3>10, <3>11, <3>12 DEF Step, Work
  <2>2. QED
    BY <2>1 DEF OrderedOf, Stands
<1>6. QED
  BY <1>1, <1>2, <1>3, <1>4, <1>5

LEMMA OrderedStep == TypeOK /\ Ordered /\ [Next]_vars => Ordered'
<1> SUFFICES ASSUME TypeOK, Ordered, [Next]_vars PROVE Ordered'
  OBVIOUS
<1>1. CASE UNCHANGED vars
  BY <1>1 DEF vars, db, local, history, Ordered, Aged, LockOf, OrderedOf, Stands, ActivatedAt
<1>2. ASSUME NEW t \in Task, Step(t) PROVE Ordered'
  <2>1. Aged'
    BY <1>2, AgedStep DEF Ordered
  <2>2. ASSUME NEW u \in Task PROVE LockOf(u)' /\ OrderedOf(u)'
    <3>1. CASE u = t
      BY <1>2, <3>1, LockOwn, OrderedOwn DEF Ordered
    <3>2. CASE u # t
      BY <1>2, <3>2, LockOthers, OrderedOthers DEF Ordered
    <3>3. QED
      BY <3>1, <3>2
  <2>3. QED
    BY <2>1, <2>2 DEF Ordered
<1>3. CASE Evaluation
  <2>1. UNCHANGED <<row, pc, release, record, stamp, clock, prev, tested, deploying>>
    BY <1>3, Evaluated DEF db, local, history
  <2>2. CASE pointer' = pointer
    BY <2>1, <2>2 DEF Ordered, Aged, LockOf, OrderedOf, Stands, ActivatedAt
  <2>3. CASE pointer' = BaselineAt(clock)
    <3>1. ActivatedAt(pointer)' = clock
      BY <2>1, <2>3 DEF ActivatedAt, BaselineAt
    <3>2. \A t \in Task : stamp[t][release[t]] <= clock /\ stamp[t][release[t]] \in Nat /\ clock \in Nat
      BY DEF TypeOK, Ordered, Aged
    <3>3. \A t \in Task : ActivatedAt(pointer)' >= stamp'[t][release'[t]]
      BY <2>1, <3>1, <3>2
    <3>4. Aged' /\ \A t \in Task : LockOf(t)'
      BY <2>1 DEF Ordered, Aged, LockOf
    <3>5. ASSUME NEW t \in Task PROVE OrderedOf(t)'
      <4>1. /\ ActivatedAt(prev)' = ActivatedAt(prev)
            /\ ActivatedAt(tested[t])' = ActivatedAt(tested[t])
        BY <2>1 DEF ActivatedAt
      <4>2. OrderedOf(t)
        BY DEF Ordered
      <4>3. QED
        BY <2>1, <3>3, <4>1, <4>2 DEF OrderedOf, Stands
    <3>6. QED
      BY <3>4, <3>5 DEF Ordered
  <2>4. QED
    BY <1>3, <2>2, <2>3, Evaluated
<1>4. QED
  BY <1>1, <1>2, <1>3 DEF Next, Step, Evaluation

-----------------------------------------------------------------------------
(* The theorems.                                                           *)

LEMMA Starts == Init => IInv
<1> SUFFICES ASSUME Init PROVE IInv
  OBVIOUS
<1>1. TypeOK
  <2>1. 0 \in Number /\ Fresh \in Artifacts
    BY Numbers DEF Fresh, Artifacts, Sessions
  <2>2. [t \in Task |-> [n \in Number |-> "NONE"]] \in [Task -> [Number -> Outcomes \cup {"NONE"}]]
    OBVIOUS
  <2>3. [t \in Task |-> [n \in Number |-> 0]] \in [Task -> [Number -> Number]]
    BY <2>1
  <2>4. QED
    BY <2>1, <2>2, <2>3, SessionAssumption DEF Init, TypeOK, Baselines, BaselineAt, FirstBaseline
<1>2. Paid
  <2> SUFFICES ASSUME NEW t \in Task PROVE PaidOf(t)
    BY DEF Paid
  <2>1. /\ row[t] = "READY" /\ pc[t] = "idle"
        /\ attempts[t] = 0 /\ builds[t] = 0 /\ release[t] = 0
    BY DEF Init
  <2>2. ~Busy(t) /\ 0 <= MaxRetries[t]
    BY <2>1, Numbers DEF Busy
  <2>3. QED
    BY <2>1, <2>2 DEF PaidOf
<1>3. Reviewed
  BY DEF Init, Reviewed, ReviewedOf, Receipt, Fresh, Releasing
<1>4. Ordered
  BY Numbers DEF Init, Ordered, Aged, LockOf, OrderedOf, Stands
<1>5. QED
  BY <1>1, <1>2, <1>3, <1>4 DEF IInv

LEMMA Holds == Spec => []IInv
<1>1. IInv /\ [Next]_vars => IInv'
  BY TypeStep, PaidStep, ReviewedStep, OrderedStep DEF IInv
<1>2. QED
  BY Starts, <1>1, PTL DEF Spec

\* Every variable of the sessions keeps to its values, for any number of tasks
\* and of retries (zero_trust.py:757-1047).
THEOREM Types == Spec => []TypeOK
<1>1. IInv => TypeOK
  BY DEF IInv
<1>2. QED
  BY Holds, <1>1, PTL

\* A verified task is one whose commit session C approved and whose release
\* was made of that commit, wherever sessions were interrupted
\* (zero_trust.py:832-1031).
THEOREM ReviewsBind == Spec => []VerifiedWasReviewed
<1>1. IInv => VerifiedWasReviewed
  BY DEF IInv, Reviewed, ReviewedOf, VerifiedWasReviewed
<1>2. QED
  BY Holds, <1>1, PTL

\* A verified task names a release on record as deployed and not rolled back
\* (zero_trust.py:490-506).
THEOREM DeploymentsStand == Spec => []VerifiedWasDeployed
<1>1. IInv => VerifiedWasDeployed
  BY DEF IInv, Reviewed, ReviewedOf, VerifiedWasDeployed
<1>2. QED
  BY Holds, <1>1, PTL

\* The tests behind a verdict run over the task's release, a later one, or a
\* baseline the evaluation wrote after it, however many directors and the
\* evaluation move the pointer meanwhile (zero_trust.py:1034).
THEOREM TestsAreCurrent == Spec => []TestedNoOlder
<1>1. IInv => TestedNoOlder
  <2> SUFFICES ASSUME IInv, NEW t \in Task, At(t, "verifying"), ReleaseClaimHolds(t)
               PROVE  ActivatedAt(tested[t]) >= ActivatedAt(<<t, submission[t].release>>)
    BY DEF TestedNoOlder
  <2>1. pc[t] = "verifying" /\ submission[t].release = release[t]
    <3>1. pc[t] = "verifying"
      BY DEF At
    <3>2. submission[t] = [commit |-> mem[t].commit, release |-> release[t]]
      BY <3>1 DEF IInv, Reviewed, ReviewedOf
    <3>3. QED  BY <3>1, <3>2
  <2>2. Stands(t)
    BY <2>1 DEF Stands, ReleaseClaimHolds
  <2>3. ActivatedAt(<<t, submission[t].release>>) = stamp[t][release[t]]
    BY <2>1, Numbers DEF ActivatedAt
  <2>4. ActivatedAt(tested[t]) >= stamp[t][release[t]]
    BY <2>1, <2>2 DEF IInv, Ordered, OrderedOf
  <2>5. QED
    BY <2>3, <2>4
<1>2. QED
  BY Holds, <1>1, PTL

-----------------------------------------------------------------------------
(* The releases of the sessions as Staging has them.                       *)

Locking == {"gates", "canary", "restored"}

\* A release that was not begun has no record, nor has the one in progress.
UnjudgedOf(t) ==
  /\ \A n \in Number : n > release[t] => record[t][n] = "NONE"
  /\ pc[t] \in Locking => record[t][release[t]] = "NONE" /\ release[t] > 0

Unjudged == \A t \in Task : UnjudgedOf(t)

\* A session gives up a release that holds the lock.
GivesUp(t) ==
  /\ deploying = t /\ deploying' = NoTask
  /\ pc[t] \in Locking /\ pc'[t] = "idle"
  /\ UNCHANGED <<pointer, record, release>>

\* A step outside the release.
Outside(t) ==
  /\ deploying # t /\ pc[t] \notin Locking /\ pc'[t] \notin Locking
  /\ UNCHANGED <<pointer, deploying, prev, record, release>>

LEMMA StepKinds ==
  ASSUME TypeOK, NEW t \in Task, LockOf(t), Step(t)
  PROVE  \/ BeginRelease(t) \/ Activate(t) \/ RollBack(t) \/ RecordRelease(t)
         \/ GivesUp(t) \/ Outside(t)
<1> USE DEF LockOf, Locking, At, Go, db, local, history, TypeOK
<1>1. CASE Claim(t) \/ SaveCheckpoint(t)
  BY <1>1 DEF Claim, SaveCheckpoint, Outside
<1>2. CASE Investigate(t) \/ Build(t) \/ (\E approved \in BOOLEAN : Review(t, approved))
  BY <1>2 DEF Investigate, Build, Review, Outside
<1>3. CASE Submit(t) \/ ChooseDirectory(t)
  BY <1>3 DEF Submit, ChooseDirectory, Outside
<1>4. CASE RecordVerdict(t)
  BY <1>4 DEF Forget, RecordVerdict, Outside
<1>5. CASE LockBusy(t) \/ Denied(t)
  <2>1. At(t, "session") /\ Gone(t)
    BY <1>5 DEF LockFree, LockBusy, Denied
  <2>2. record' = record
    BY <2>1 DEF Forget, Gone, Forget
  <2>3. deploying # t
    BY <2>1
  <2>4. QED
    BY <2>1, <2>2, <2>3 DEF Forget, Gone, Outside
<1>6. CASE Raise(t) \/ Crash(t)
  <2>1. Gone(t)
    BY <1>6 DEF Raise, Crash
  <2>2. UNCHANGED <<record, pointer, release>> /\ pc'[t] = "idle"
    BY <2>1 DEF Forget, Gone, Forget
  <2>3. CASE deploying = t
    BY <2>1, <2>2, <2>3 DEF Forget, Gone, GivesUp
  <2>4. CASE deploying # t
    BY <2>1, <2>2, <2>4 DEF Forget, Gone, Outside
  <2>5. QED
    BY <2>3, <2>4
<1>7. QED
  BY <1>1, <1>2, <1>3, <1>4, <1>5, <1>6 DEF Step, Work

LEMMA NeverBegun ==
  ASSUME NEW t \in Task, UnjudgedOf(t), release[t] \in Nat, release[t] + 1 \in Number
  PROVE  record[t][release[t] + 1] = "NONE" /\ release[t] + 1 > 0
<1>1. PICK n \in Number : n = release[t] + 1
  OBVIOUS
<1>2. n > release[t] /\ n > 0
  BY <1>1
<1>3. QED
  BY <1>1, <1>2 DEF UnjudgedOf

LEMMA UnjudgedOwn ==
  ASSUME TypeOK, NEW t \in Task, LockOf(t), PaidOf(t), UnjudgedOf(t), Step(t)
  PROVE  UnjudgedOf(t)'
<1> USE Numbers DEF UnjudgedOf, At, Go, Locking, TypeOK
<1>1. CASE BeginRelease(t)
  <2>1. record' = record /\ release'[t] = release[t] + 1
    BY <1>1 DEF LockFree, BeginRelease, db
  <2>2. release[t] + 1 \in Number /\ release[t] \in Nat
    BY <1>1, Room DEF LockFree, BeginRelease
  <2>3. record[t][release[t] + 1] = "NONE" /\ release[t] + 1 > 0
    BY <2>2, NeverBegun
  <2>4. \A n \in Number : n > release'[t] => n > release[t]
    BY <2>1, <2>2
  <2>5. QED
    BY <2>1, <2>3, <2>4
<1>2. CASE Activate(t) \/ RollBack(t)
  BY <1>2 DEF Activate, RollBack, db, local, history
<1>3. CASE RecordRelease(t)
  <2>1. PICK outcome \in Outcomes : record' = [record EXCEPT ![t][release[t]] = outcome]
    BY <1>3 DEF RecordRelease
  <2>2. release' = release /\ pc'[t] = "released"
    BY <1>3 DEF RecordRelease
  <2>3. \A n \in Number : n > release[t] => record'[t][n] = record[t][n]
    BY <2>1
  <2>4. QED
    BY <2>2, <2>3
<1>4. CASE GivesUp(t)
  BY <1>4 DEF GivesUp
<1>5. CASE Outside(t)
  BY <1>5 DEF Outside
<1>6. QED
  BY <1>1, <1>2, <1>3, <1>4, <1>5, StepKinds

LEMMA UnjudgedStep == IInv /\ Unjudged /\ [Next]_vars => Unjudged'
<1> SUFFICES ASSUME IInv, Unjudged, [Next]_vars, NEW u \in Task PROVE UnjudgedOf(u)'
  BY DEF Unjudged
<1>0. TypeOK /\ (\A t \in Task : LockOf(t) /\ PaidOf(t))
  BY DEF IInv, Ordered, Paid
<1>1. CASE UNCHANGED vars
  BY <1>1 DEF vars, db, local, Unjudged, UnjudgedOf
<1>2. ASSUME NEW t \in Task, Step(t) PROVE UnjudgedOf(u)'
  <2>1. CASE u = t
    BY <1>0, <1>2, <2>1, UnjudgedOwn DEF Unjudged
  <2>2. CASE u # t
    <3>1. OtherTask(u) /\ UnjudgedOf(u)
      BY <1>0, <1>2, <2>2, Frame DEF Unjudged
    <3>2. QED
      BY <3>1 DEF OtherTask, UnjudgedOf
  <2>3. QED
    BY <2>1, <2>2
<1>3. CASE Evaluation
  BY <1>3, Evaluated DEF db, local, Unjudged, UnjudgedOf
<1>4. QED
  BY <1>1, <1>2, <1>3 DEF Next, Step, Evaluation

Ids == Task \X (Number \ {0})

Fates == [i \in Ids |-> FateOf(i[1], i[2])]

\* A release is begun under an id that was never used.
LEMMA FateGiven ==
  ASSUME TypeOK, NEW t \in Task, UnjudgedOf(t), PaidOf(t), BeginRelease(t)
  PROVE  /\ <<t, release[t] + 1>> \in Ids
         /\ Fates[<<t, release[t] + 1>>] = "new"
         /\ Fates' = [Fates EXCEPT ![<<t, release[t] + 1>>] = "open"]
<1> DEFINE n == release[t] + 1
<1>1. /\ release[t] \in Nat /\ n \in Number /\ n # 0 /\ pc[t] = "session"
      /\ record' = record /\ release' = [release EXCEPT ![t] = n] /\ release \in [Task -> Number]
  <2>1. /\ pc[t] = "session" /\ record' = record /\ release' = [release EXCEPT ![t] = n]
        /\ release \in [Task -> Number]
    BY DEF LockFree, BeginRelease, At, db, TypeOK
  <2>2. release[t] \in Nat /\ n # 0
    BY <2>1, Numbers
  <2>3. n \in Number
    BY <2>1, Room
  <2>4. QED
    BY <2>1, <2>2, <2>3
<1>2. <<t, n>> \in Ids
  BY <1>1 DEF Ids
<1>3. record[t][n] = "NONE"
  BY <1>1 DEF UnjudgedOf
<1>4. FateOf(t, n) = "new"
  BY <1>1, <1>3 DEF FateOf
<1>5. ASSUME NEW i \in Ids PROVE FateOf(i[1], i[2])' = IF i = <<t, n>> THEN "open" ELSE FateOf(i[1], i[2])
  <2>1. i[1] \in Task /\ i[2] \in Nat /\ i = <<i[1], i[2]>>
    BY Numbers DEF Ids
  <2>2. CASE i[1] # t
    BY <1>1, <2>1, <2>2 DEF FateOf
  <2>3. CASE i[1] = t
    <3>1. i[2] <= release'[t] <=> i[2] = n \/ i[2] <= release[t]
      BY <1>1, <2>1
    <3>2. i = <<t, n>> <=> i[2] = n
      BY <2>1, <2>3
    <3>3. CASE i[2] = n
      BY <1>1, <1>3, <2>3, <3>1, <3>2, <3>3 DEF FateOf
    <3>4. CASE i[2] # n
      BY <1>1, <2>3, <3>1, <3>2, <3>4 DEF FateOf
    <3>5. QED
      BY <3>3, <3>4
  <2>4. QED
    BY <2>2, <2>3
<1>6. QED
  BY <1>2, <1>4, <1>5 DEF Fates

\* The record of a release is its only judgement.
LEMMA FateJudged ==
  ASSUME TypeOK, NEW t \in Task, UnjudgedOf(t), pc[t] \in Locking, release' = release,
         NEW outcome \in Outcomes, record' = [record EXCEPT ![t][release[t]] = outcome]
  PROVE  /\ Fates[<<t, release[t]>>] = "open"
         /\ Fates' = [Fates EXCEPT ![<<t, release[t]>>] =
                        IF outcome = "DEPLOYED_VERIFIED" THEN "deployed" ELSE "rejected"]
<1> DEFINE n == release[t]
<1>1. n \in Number /\ n \in Nat /\ n # 0 /\ record[t][n] = "NONE"
  BY Numbers DEF UnjudgedOf, TypeOK
<1>2. <<t, n>> \in Ids
  BY <1>1 DEF Ids
<1>3. FateOf(t, n) = "open"
  BY <1>1 DEF FateOf
<1>4. record'[t][n] = outcome
  BY <1>1 DEF TypeOK
<1>5. \A u \in Task, k \in Number : <<u, k>> # <<t, n>> => record'[u][k] = record[u][k]
  BY DEF TypeOK
<1>6. ASSUME NEW i \in Ids
      PROVE  FateOf(i[1], i[2])' =
               IF i = <<t, n>> THEN IF outcome = "DEPLOYED_VERIFIED" THEN "deployed" ELSE "rejected"
                               ELSE FateOf(i[1], i[2])
  <2>1. i[1] \in Task /\ i[2] \in Number /\ i = <<i[1], i[2]>>
    BY DEF Ids
  <2>2. CASE i = <<t, n>>
    BY <1>4, <2>2 DEF FateOf, Outcomes
  <2>3. CASE i # <<t, n>>
    BY <1>5, <2>1, <2>3 DEF FateOf
  <2>4. QED
    BY <2>2, <2>3
<1>7. QED
  BY <1>2, <1>3, <1>6 DEF Fates

LEMMA FatesStay ==
  ASSUME record' = record, release' = release
  PROVE  Fates' = Fates
BY DEF Fates, FateOf

LEMMA StagingStep == IInv /\ Unjudged /\ [Next]_vars => [Staged!Next]_Staged!StagingVars
<1> SUFFICES ASSUME IInv, Unjudged, [Next]_vars PROVE [Staged!Next]_Staged!StagingVars
  OBVIOUS
<1>0. TypeOK /\ (\A t \in Task : LockOf(t) /\ UnjudgedOf(t) /\ PaidOf(t))
  BY DEF IInv, Ordered, Unjudged, Paid
<1>1. CASE UNCHANGED vars
  <2>1. UNCHANGED <<pointer, deploying, prev, record, release, pc>>
    BY <1>1 DEF vars, db, local
  <2>2. QED
    BY <2>1, FatesStay DEF Staged!StagingVars, Fates, Ids
<1>2. ASSUME NEW t \in Task, Step(t) PROVE [Staged!Next]_Staged!StagingVars
  <2>0. LockOf(t) /\ UnjudgedOf(t) /\ PaidOf(t)
    BY <1>0
  <2>1. CASE BeginRelease(t)
    <3>1. /\ deploying = NoTask /\ deploying' = t /\ prev' = pointer /\ pointer' = pointer
          /\ pc'[t] = "gates" /\ release'[t] = release[t] + 1
      BY <1>0, <2>1 DEF LockFree, BeginRelease, Go, TypeOK
    <3>2. /\ <<t, release[t] + 1>> \in Ids
          /\ Fates[<<t, release[t] + 1>>] = "new"
          /\ Fates' = [Fates EXCEPT ![<<t, release[t] + 1>>] = "open"]
      BY <1>0, <2>0, <2>1, FateGiven
    <3>3. deploying = NoTask /\ deploying' # NoTask /\ pointer # NoTask
      BY <1>0, <3>1, Numbers, SessionAssumption DEF TypeOK, Releases, Baselines
    <3>4. Staged!Open(<<t, release[t] + 1>>)
      BY <3>1, <3>2, <3>3 DEF Staged!Open, StageOf, Fates, Ids
    <3>5. QED
      BY <3>2, <3>4 DEF Staged!Next, Ids
  <2>2. CASE Activate(t)
    <3>1. /\ deploying = t /\ deploying' = t /\ prev' = prev /\ pointer' = <<t, release[t]>>
          /\ pc[t] = "gates" /\ pc'[t] = "canary" /\ UNCHANGED <<record, release>>
      BY <1>0, <2>0, <2>2 DEF Activate, Go, At, LockOf, TypeOK, db, local
    <3>2. deploying # NoTask /\ deploying' # NoTask
      BY <3>1, Numbers
    <3>3. Staged!Activate
      BY <3>1, <3>2, FatesStay DEF Staged!Activate, Staged!Moves, StageOf, Fates, Ids
    <3>4. QED
      BY <3>3 DEF Staged!Next
  <2>3. CASE RollBack(t)
    <3>1. /\ deploying = t /\ deploying' = t /\ prev' = prev /\ pointer' = prev
          /\ pc[t] = "canary" /\ pc'[t] = "restored" /\ UNCHANGED <<record, release>>
      BY <1>0, <2>0, <2>3 DEF RollBack, RollbackTarget, Go, At, LockOf, TypeOK, db, local
    <3>2. deploying # NoTask /\ deploying' # NoTask
      BY <3>1, Numbers
    <3>3. Staged!RollBack
      BY <3>1, <3>2, FatesStay DEF Staged!RollBack, Staged!Moves, StageOf, Fates, Ids
    <3>4. QED
      BY <3>3 DEF Staged!Next
  <2>4. CASE RecordRelease(t)
    <3>1. PICK outcome \in Outcomes :
            /\ \/ pc[t] = "gates" /\ outcome = "TURNED_DOWN"
               \/ pc[t] = "canary" /\ outcome = "DEPLOYED_VERIFIED"
               \/ pc[t] = "restored" /\ outcome = "ROLLED_BACK"
            /\ record' = [record EXCEPT ![t][release[t]] = outcome]
      BY <2>4 DEF RecordRelease, At
    <3>2. /\ pc[t] \in Locking /\ deploying = t /\ deploying' = NoTask
          /\ pointer' = pointer /\ release' = release
      BY <2>0, <2>4, <3>1 DEF RecordRelease, LockOf, Locking
    <3>3. deploying # NoTask /\ deploying' = NoTask
      BY <3>2, Numbers
    <3>4. /\ Fates[<<t, release[t]>>] = "open"
          /\ Fates' = [Fates EXCEPT ![<<t, release[t]>>] =
                         IF outcome = "DEPLOYED_VERIFIED" THEN "deployed" ELSE "rejected"]
      BY <1>0, <2>0, <3>1, <3>2, FateJudged
    <3>5. Staged!Close
      BY <3>3 DEF Staged!Close
    <3>6. CASE pc[t] = "gates" /\ outcome = "TURNED_DOWN"
      <4>1. Staged!TurnDown
        BY <3>2, <3>3, <3>4, <3>5, <3>6 DEF Staged!TurnDown, Staged!Judge, StageOf, Fates, Ids
      <4>2. QED
        BY <4>1 DEF Staged!Next
    <3>7. CASE pc[t] = "canary" /\ outcome = "DEPLOYED_VERIFIED"
      <4>1. Staged!Accept
        BY <3>2, <3>3, <3>4, <3>5, <3>7 DEF Staged!Accept, Staged!Judge, StageOf, Fates, Ids
      <4>2. QED
        BY <4>1 DEF Staged!Next
    <3>8. CASE pc[t] = "restored" /\ outcome = "ROLLED_BACK"
      <4>1. Staged!RecordRollBack
        BY <3>2, <3>3, <3>4, <3>5, <3>8 DEF Staged!RecordRollBack, Staged!Judge, StageOf, Fates, Ids
      <4>2. QED
        BY <4>1 DEF Staged!Next
    <3>9. QED
      BY <3>1, <3>6, <3>7, <3>8
  <2>5. CASE GivesUp(t)
    <3>1. /\ deploying = t /\ deploying' = NoTask /\ pc[t] \in Locking
          /\ UNCHANGED <<pointer, record, release>>
      BY <2>5 DEF GivesUp
    <3>2. deploying # NoTask /\ deploying' = NoTask /\ StageOf(pc[t]) # "idle"
      BY <3>1, Numbers DEF StageOf, Locking
    <3>3. Staged!Abandon
      BY <3>1, <3>2, FatesStay DEF Staged!Abandon, Staged!Close, Fates, Ids
    <3>4. QED
      BY <3>3 DEF Staged!Next
  <2>6. CASE Outside(t)
    <3>1. deploying # t /\ UNCHANGED <<pointer, deploying, prev, record, release>>
      BY <2>6 DEF Outside
    <3>2. deploying # NoTask => deploying \in Task /\ pc'[deploying] = pc[deploying]
      BY <1>0, <1>2, <3>1, Frame DEF TypeOK, OtherTask
    <3>3. QED
      BY <3>1, <3>2, FatesStay DEF Staged!StagingVars, Fates, Ids
  <2>7. QED
    BY <1>0, <1>2, <2>0, <2>1, <2>2, <2>3, <2>4, <2>5, <2>6, StepKinds
<1>3. CASE Evaluation
  <2>1. UNCHANGED <<deploying, prev, record, release, pc>>
    BY <1>3, Evaluated DEF db, local
  <2>2. CASE pointer' = pointer
    BY <2>1, <2>2, FatesStay DEF Staged!StagingVars, Fates, Ids
  <2>3. CASE pointer' = BaselineAt(clock)
    <3>1. pointer' \in Baselines
      BY <1>0, <2>3 DEF TypeOK, Baselines, BaselineAt
    <3>2. Staged!Refresh
      BY <2>1, <3>1, FatesStay DEF Staged!Refresh, Fates, Ids
    <3>3. QED
      BY <3>2 DEF Staged!Next
  <2>4. QED
    BY <1>3, <2>2, <2>3, Evaluated
<1>4. QED
  BY <1>1, <1>2, <1>3 DEF Next, Step, Evaluation

\* The releases of all sessions, whatever interrupts them, are such as Staging
\* allows and module Release makes.
THEOREM ImplementsStaging == Spec => FollowsStaging
<1>1. Init => Staged!Start
  BY Numbers DEF Init, Staged!Start, FateOf, Baselines, BaselineAt, FirstBaseline
<1>2. ASSUME Init PROVE Unjudged
  <2>1. \A t \in Task : pc[t] = "idle" /\ \A n \in Number : record[t][n] = "NONE"
    BY <1>2 DEF Init
  <2>2. QED
    BY <2>1 DEF Unjudged, UnjudgedOf, Locking
<1>3. IInv /\ Unjudged /\ [Next]_vars => Unjudged'
  BY UnjudgedStep
<1>4. QED
  BY <1>1, <1>2, <1>3, StagingStep, Holds, PTL DEF Spec, FollowsStaging, Staged!Spec
=============================================================================
