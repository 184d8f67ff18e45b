SPECIFICATION FairSpec
CONSTANTS
  p1 = p1
  p2 = p2
  r1 = r1
  r2 = r2
  None = None
  Repo = {r1}
  Proc = {p1, p2}
  Durable = {p2}
  Snapshot <- MCSnapshot
  Static <- MCStatic
  Live <- MCLive
  Pages <- MCPages
  MaxAttempts = 2
  MaxMoves = 3
CHECK_DEADLOCK FALSE
INVARIANTS
  TypeOK
  HolderKeepsPage
PROPERTIES
  RequestEnds
  ImplementsLeasedTask
