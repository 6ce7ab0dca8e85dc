SPECIFICATION Spec
CONSTANTS
  Threads = {t1, t2}
  NoThread = NoThread
  Modes = {"Always", "GroupCommit", "OsBuffered"}
  SegmentSize = 2
  MaxAppends = 3
  MaxResets = 1
  MaxSegments = 5
  Faults = {"power", "io"}
  MaxFaults = 2
INVARIANTS
  AckedDurable
  PrefixRecovered
  ReleasedStayGone
CHECK_DEADLOCK FALSE
