SPECIFICATION ExpressionSpec
CONSTANTS
  Inputs <- SmallInputs
  MaxBatch = 2
  NodeLimit = 7
  Error = Error
  Size = 6
  Values <- SmallValues
  Zero = "zero"
  Zeros <- SmallZeros
  Kernel <- SmallKernel
INVARIANTS WalkFollowsOperands UnionIsExact SparseStreamIsExact
CHECK_DEADLOCK FALSE
