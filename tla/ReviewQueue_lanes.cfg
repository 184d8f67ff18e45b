SPECIFICATION FairSpec
CONSTANTS
  p1 = p1  p2 = p2  w1 = w1  w2 = w2  pr1 = pr1  a = a  b = b
  None = None
  Proc = {p2}
  Slots = {w1, w2}
  Pr = {pr1}
  Sha = {a, b}
  RepoConfigs <- EnabledToggles
  Punctual = {p2}
  Durable = {p2}
  MaxAttempts = 1
  MaxRuns = 3
  MaxMoves = 3
INVARIANTS
  NoOrphanedWork
PROPERTIES
  UserCancelSticks
  EligibleHeadSettles
