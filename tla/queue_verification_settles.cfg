SPECIFICATION DiligentSpec
CONSTANTS
  t1 = t1
  t2 = t2
  t3 = t3
  t4 = t4
  p1 = p1
  p2 = p2
  NoTask = NoTask
  NoProc = NoProc
  Task = {t1}
  Proc = {p1}
  DedupeKey <- Keys
  Dependencies <- Chain
  Steps <- TwoSteps
  VerifyTasks = {t1}
  Reconciling = {}
  Audits = {}
  NeedApproval = {}
  Engineering = {}
  Priority <- OneRank
  MaxRetries = 1
  KillFlags = {TRUE}
PROPERTIES
  VerificationSettles
\* The queue may drain: every row settled, every id used up.
CHECK_DEADLOCK FALSE
