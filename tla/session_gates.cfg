CONSTANTS
  t1 = t1
  t2 = t2
  Task <- MCTask
  NoTask = NoTask
  Baseline = Baseline
  MaxRetries <- MCRetries
  MostRetries = 1
  MaxEvaluations = 1
SPECIFICATION FairSpec
INVARIANTS
  TypeOK
  VerifiedWasReviewed
  VerifiedWasDeployed
  TestedNoOlder
PROPERTIES
  FollowsStaging
  EverySessionEnds
CHECK_DEADLOCK FALSE
