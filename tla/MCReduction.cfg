SPECIFICATION Spec
CONSTANTS
  Inputs <- AllInputs
  Values = {0, 1, 2}
  Zero = 0
  MaxBatch = 3
  None = None
INVARIANTS ResultsAreExact BooleansStopAtFirst
CHECK_DEADLOCK FALSE
