SPECIFICATION FairSpec
CONSTANTS
  Keys = {k1}
  Threads = {t1}
  NoThread = NoThread
  Readers = {}
  WriteKinds = {"Value", "Tombstone"}
  Durability = "Always"
  SegmentSize = 2
  TierFanout = 2
  MaxWrites = 5
  Faults = {"power", "kill"}
  MaxFaults = 1
INVARIANTS
  SeqOrder
PROPERTY
  ImplementsStore
  FlushReturns
CHECK_DEADLOCK FALSE
