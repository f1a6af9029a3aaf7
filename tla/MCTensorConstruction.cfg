SPECIFICATION Spec
CONSTANTS
  Inputs <- SmallInputs
  Values = {0, 1}
  Zero = 0
  Batch = 2
  Missing = Missing
  NoBlock = NoBlock
  NotGiven = NotGiven
INVARIANTS LoadableIsWhole
PROPERTIES RowsAreAppended
CHECK_DEADLOCK FALSE
