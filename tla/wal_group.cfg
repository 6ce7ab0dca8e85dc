SPECIFICATION FairSpec
CONSTANTS
  Threads = {t1, t2, t3}
  NoThread = NoThread
  Modes = {"GroupCommit"}
  SegmentSize = 2
  MaxAppends = 3
  MaxResets = 0
  MaxSegments = 3
  Faults = {"io", "short", "kill", "open"}
  MaxFaults = 2
INVARIANTS
  TypeOK
  FollowersCarried
  QueueInOrder
PROPERTY
  EveryCallReturns
CHECK_DEADLOCK FALSE
