SPECIFICATION FairSpec
CONSTANTS
  p1 = p1  p2 = p2  f1 = f1  f2 = f2  f3 = f3  c = c  x = x  va = va  vb = vb  h1 = h1  h2 = h2
  None = None
  Proc = {p1}
  Finding = {f1, f2, f3}
  RunOf <- TwoRuns
  VendorOf <- TwoVendors
  Text = {c}
  Claim = c
  Sha = {h1}
  LastRun = 2
  MayUpdate = TRUE
  MayCreate = TRUE
  Fallback = TRUE
  MaxOps = 3
  MaxReviews = 3
  MaxMoves = 4
CHECK_DEADLOCK FALSE
PROPERTIES
  RetryCompletes
