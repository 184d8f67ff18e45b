SPECIFICATION FairSpec
CONSTANTS
  p1 = p1  p2 = p2  w1 = w1  w2 = w2  pr1 = pr1  a = a  b = b
  None = None
  Proc = {p2}
  Slots = {w1}
  Pr = {pr1}
  Sha = {a}
  RepoConfigs <- VendorToggles
  Punctual = {p2}
  Durable = {p2}
  MaxAttempts = 1
  MaxRuns = 2
  MaxMoves = 2
PROPERTIES
  EligibleHeadSettles
