SPECIFICATION Spec
CONSTANTS
  Keys = {k1}
  Threads = {t1}
  NoThread = NoThread
  Readers = {r1}
  WriteKinds = {"Value", "Tombstone"}
  Durability = "Always"
  SegmentSize = 2
  TierFanout = 2
  MaxWrites = 2
  Faults = {"io", "power", "reset"}
  MaxFaults = 2
INVARIANTS
  PinnedFilesExist
  SeqOrder
  AckedVisible
  FreshSeqs
  ReadsRegular
CHECK_DEADLOCK FALSE
