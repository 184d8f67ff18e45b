SPECIFICATION Spec
CONSTANTS
  p1 = p1  p2 = p2  f1 = f1  f2 = f2  f3 = f3  c = c  x = x  va = va  vb = vb  h1 = h1  h2 = h2
  None = None
  Proc = {p1, p2}
  Finding = {f1, f2}
  RunOf <- SameRun
  VendorOf <- SameVendor
  Text = {c}
  Claim = c
  Sha = {h1, h2}
  LastRun = 1
  MayUpdate = TRUE
  MayCreate = TRUE
  Fallback = TRUE
  MaxOps = 3
  MaxReviews = 3
  MaxMoves = 5
SYMMETRY ProcsAndHeads
CHECK_DEADLOCK FALSE
INVARIANTS
  TypeOK
  ReservationsAgree
  CreatedOnce
  RecordedOnce
