SPECIFICATION ComputedSpec
CONSTANTS
  Bases <- SmallBases
  Shapes <- SmallShapes
  Ranges <- SmallRanges
  MaxRank = 4
  Requests <- SmallRequests
  TileSide = 5
  MaxBatch = 25
INVARIANT RectanglesAreAtMostTwice
CHECK_DEADLOCK FALSE
