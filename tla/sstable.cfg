SPECIFICATION Spec
CONSTANTS
  Keys = {1, 2, 3, 4}
  BlockSize = 3
  ValueSizes = {2, 4}
  Entries <- MCEntries
  ExpectedKeys = {0, 7, 13}
  BitsPerKey = 10
  LowHash <- MCLowHash
  HighHash <- MCHighHash
  U32 = 1024
  U64 = 4096
INVARIANTS
  LookupExact
  IterExact
  FinishedOpens
CHECK_DEADLOCK FALSE
