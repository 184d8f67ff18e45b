SPECIFICATION Spec
CONSTANTS
  p1 = p1
  p2 = p2
  None = None
  Proc = {p1, p2}
  Sites <- MCSites
  Spots <- MCSpots
  Budget = 20
  PrefixSize = 3
  HunkSize = 4
  Proximity = 5
  SourceLimit = 8
  TotalLimit = 14
  MaxAttempts = 3
  MaxFindings = 3
CHECK_DEADLOCK FALSE
INVARIANTS
  TypeOK
  ChunkFindingsOnce
  OpenChunksRetryable
  OneEligiblePerDuplicate
  ConsensusAgrees
  SummaryMatches
  ChunksPartition
  CleanAnswers
  ContextsWithheld
PROPERTIES
  EligibleStays
  ConfirmedIndependent
  SkippedOnGrade
SYMMETRY Symmetry
