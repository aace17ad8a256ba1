SPECIFICATION FairSpec
CONSTANTS
  Proc = {p1, p2, p3}
  Manual = {}
  NoOwner = NoOwner
  Ttl <- CycleTwice
  RunLimit = 4
INVARIANTS
  TypeOK
  OneHolder
PROPERTIES
  LeftBehindIsReclaimed
