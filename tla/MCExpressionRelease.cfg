SPECIFICATION FairSpec
CONSTANTS
  Nodes <- SmallNodes
  Operands <- SmallOperands
  Held <- SmallHeld
  Threads = {"t1", "t2"}
  MaxHeld = 2
INVARIANTS CountsAreExact DestructionIsFlat
PROPERTIES EveryDropEnds
CHECK_DEADLOCK FALSE
