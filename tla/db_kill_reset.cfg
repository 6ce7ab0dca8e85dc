SPECIFICATION Spec
CONSTANTS
  Keys = {k1}
  Threads = {t1, t2}
  NoThread = NoThread
  Readers = {}
  WriteKinds = {"Value", "Tombstone"}
  Durability = "Always"
  SegmentSize = 1
  TierFanout = 2
  MaxWrites = 2
  Faults = {"kill"}
  MaxFaults = 1
INVARIANTS
  AckedVisible
CHECK_DEADLOCK FALSE
