SPECIFICATION Spec
CONSTANTS
  t1 = t1
  t2 = t2
  t3 = t3
  t4 = t4
  p1 = p1
  p2 = p2
  NoTask = NoTask
  NoProc = NoProc
  Task = {t1, t2, t3}
  Proc = {p1, p2}
  DedupeKey <- Keys
  Dependencies <- Chain
  Steps <- TwoSteps
  VerifyTasks = {t2}
  Reconciling = {t3}
  Audits = {t1}
  NeedApproval = {t1}
  Engineering = {t2}
  Priority <- Ranks
  MaxRetries = 1
  KillFlags = {TRUE}
SYMMETRY Processes
INVARIANTS
  TypeOK
  OneWorkerPerTask
  ClaimsBounded
  RepetitionIsPaidFor
  DependenciesHonoured
  NoEffectBeforeApproval
  OneFreshRowPerKey
PROPERTIES
  SettledIsFinal
  CheckpointedStepsStayDone
  FollowsLifecycle
\* The queue may drain: every row settled, every id used up.
CHECK_DEADLOCK FALSE
