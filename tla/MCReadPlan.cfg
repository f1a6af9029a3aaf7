SPECIFICATION ViewSpec
CONSTANTS
  Bases <- SmallBases
  Shapes <- SmallShapes
  Ranges <- SmallRanges
  MaxRank = 4
  Requests <- SmallRequests
INVARIANTS
  WalksValidOffsets ContiguousMeansOrdered
  MapsCompose WritesReachOneElement SummariesAgree ReadsAreExact
CHECK_DEADLOCK FALSE
