SPECIFICATION Spec
CONSTANTS
  Keys = {k1}
  Threads = {t1}
  NoThread = NoThread
  Readers = {}
  WriteKinds = {"Value", "Tombstone"}
  Durability = "Always"
  SegmentSize = 2
  TierFanout = 2
  MaxWrites = 3
  Faults = {"power"}
  MaxFaults = 1
INVARIANTS
  OrphanNeverBlocks
CHECK_DEADLOCK FALSE
