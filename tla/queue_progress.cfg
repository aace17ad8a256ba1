SPECIFICATION FairSpec
CONSTANTS
  t1 = t1
  t2 = t2
  t3 = t3
  t4 = t4
  p1 = p1
  p2 = p2
  NoTask = NoTask
  NoProc = NoProc
  Task = {t1, t2, t3, t4}
  Proc = {p1, p2}
  DedupeKey <- Keys
  Dependencies <- ChainAndLoop
  Steps <- TwoSteps
  VerifyTasks = {}
  Reconciling = {t4}
  Audits = {t1}
  NeedApproval = {t2}
  Engineering = {t1}
  Priority <- OneRank
  MaxRetries = 1
  KillFlags = {TRUE}
PROPERTIES
  EveryTaskSettles
\* The queue may drain: every row settled, every id used up.
CHECK_DEADLOCK FALSE
