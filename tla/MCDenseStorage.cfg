SPECIFICATION Spec
CONSTANTS
  Tasks = {"t1", "t2", "t3", "t4"}
  Jobs <- TaskJobs
  BlockCount = 3
  Offsets = {0, 1}
  Values = {0, 1}
  Loaded <- Fresh
  Payloads <- Files
  Buffer = 2
  Breakable = {"t2"}
  Unread = Unread
INVARIANTS NothingIsStuck ErrorsComeInOrder
PROPERTIES ImplementsBlockContents
CHECK_DEADLOCK FALSE
