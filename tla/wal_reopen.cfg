SPECIFICATION Spec
CONSTANTS
  Threads = {t1}
  NoThread = NoThread
  Modes = {"Always"}
  SegmentSize = 2
  MaxAppends = 3
  MaxResets = 0
  MaxSegments = 4
  Faults = {"open", "power"}
  MaxFaults = 2
INVARIANT
  AckedDurable
CHECK_DEADLOCK FALSE
