SPECIFICATION FairSpec
CONSTANTS
  pa = pa  pb = pb  h1 = h1  h2 = h2  s1 = s1
  None = None
  Pr = {pa, pb}
  Sha = {h1, h2}
  Syncs = {s1}
  Sites <- AllSites
  SkipDraft = TRUE
CHECK_DEADLOCK FALSE
INVARIANTS
  TypeOK
  NeverClosedIsOpen
PROPERTIES
  DeletesOnlyIdle
  Converges
  WantedHeadQueued
  OrphansGo
