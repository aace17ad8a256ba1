SPECIFICATION Spec
CONSTANTS
  c1 = c1
  c2 = c2
  c3 = c3
  config = config
  module = module
  NoRelease = NoRelease
  Candidate = {c1, c2, c3}
  Head = {h1, h2}
  File = {config, module}
  Existing = {config}
  Changed <- Changes
  Unstaged <- Deletion
  HotReload = {config}
  Promoted = {c1, c2, c3}
  Evaluating = TRUE
INVARIANTS
  TypeOK
  NothingRejectedIsServed
  ExistingFilesRestored
PROPERTIES
  FollowsStaging
  RollbackUndoesActivation
\* Every release id may be used up.
CHECK_DEADLOCK FALSE
