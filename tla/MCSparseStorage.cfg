SPECIFICATION FairSpec
CONSTANTS
  Tasks = {t1, t2}
  Jobs <- AllJobs
  BlockCount = 4
  Offsets = {0, 1}
  Valid <- Edge
  Values = {0, 1}
  Zero = 0
  Loaded <- LoadedTables
  PageSize = 1
  Breakable = {t1}
  Absent = Absent
  Unread = Unread
INVARIANTS RefusedForOwnBlocks ScansAreExact
PROPERTIES OnlySoundRowsChange ImplementsBlockContents EveryOperationEnds
CHECK_DEADLOCK FALSE
