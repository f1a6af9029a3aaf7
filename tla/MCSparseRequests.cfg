SPECIFICATION Spec
CONSTANTS
  Inputs <- SmallInputs
  MaxBatch = 4
INVARIANTS RequestsAreExact OrderedRequestsAscend
CHECK_DEADLOCK FALSE
