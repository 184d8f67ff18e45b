SPECIFICATION Spec
CONSTANTS
  p1 = p1  p2 = p2  w1 = w1  w2 = w2  pr1 = pr1  a = a  b = b
  None = None
  Proc = {p1, p2}
  Slots = {w1}
  Pr = {pr1}
  Sha = {a, b}
  RepoConfigs <- VendorToggles
  Punctual = {}
  Durable = {}
  MaxAttempts = 1
  MaxRuns = 2
  MaxMoves = 1
SYMMETRY TwoProcs
CHECK_DEADLOCK FALSE
INVARIANTS
  TypeOK
  LiveOwnerExclusive
  DoneJobHasFinishedRun
  ReviewedHeadHasRun
PROPERTIES
  DoneRunFinal
  PersistFenced
  ImplementsLeasedTask
