SPECIFICATION Spec
CONSTANTS
  Keys = {k1}
  Readers = {r1}
  TierFanout = 2
  MaxTables = 5
  LateTables = 3
  Faults = {"power", "kill", "io"}
  MaxFaults = 2
INVARIANTS
  TypeOK
  InstalledSurvives
  NamedTablesComplete
  PinnedTablesStay
  NoGarbageAfterGc
