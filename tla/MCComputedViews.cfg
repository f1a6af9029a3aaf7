SPECIFICATION ComputedSpec
CONSTANTS
  Bases <- SmallBases
  Shapes <- SmallShapes
  Ranges <- SmallRanges
  MaxRank = 4
  Requests <- SmallRequests
  TileSide = 5
  MaxBatch = 25
INVARIANTS ReadsComputeExactly WorkIsBounded
CHECK_DEADLOCK FALSE
