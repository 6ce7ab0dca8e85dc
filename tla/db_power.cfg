SPECIFICATION Spec
CONSTANTS
  Keys = {k1}
  Threads = {t1, t2}
  NoThread = NoThread
  Readers = {}
  WriteKinds = {"Value", "Tombstone"}
  Durability = "GroupCommit"
  SegmentSize = 2
  TierFanout = 2
  MaxWrites = 3
  Faults = {"power"}
  MaxFaults = 1
INVARIANTS
  PinnedFilesExist
  TypeOK
  SeqOrder
  AckedVisible
  GetScanAgree
  FreshSeqs
  BufferDrained
PROPERTY
  ImplementsStore
SYMMETRY Symmetry
CHECK_DEADLOCK FALSE
