SPECIFICATION Spec
CONSTANTS
  c1 = c1
  c2 = c2
  c3 = c3
  config = config
  module = module
  NoRelease = NoRelease
  Candidate = {c1}
  Head = {h1, h2}
  File = {config, module}
  Existing = {config}
  Changed <- Changes
  Unstaged <- AllStaged
  HotReload = {config}
  Promoted = {}
  Evaluating = TRUE
PROPERTIES
  RefreshSparesCandidates
\* Every release id may be used up.
CHECK_DEADLOCK FALSE
