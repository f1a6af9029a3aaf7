SPECIFICATION FairSpec
CONSTANTS
  Nodes <- ModelNodes
  Roots <- ModelRoots
  Calls <- ModelCalls
  Partial <- ModelPartial
  Height <- ModelHeight
  Pausing = {"a", "c", "sum"}
  Fallible = {"a", "c", "where"}
  MaxFrames = 4
  Budget = 3
INVARIANTS OneChain CompleteValue FrameLimitIsExact BoundedPoll NoLostWakeup
PROPERTIES ChildBeforeParent EvaluatesInOrder Finishes
CHECK_DEADLOCK FALSE
