SPECIFICATION MCSpec
CONSTANTS
  Threads = {t1, t2, t3}
  NoThread = NoThread
  MaxCalls = 5
  MaxRestarts = 1
INVARIANTS
  TypeOK
  QuiescedBody
  NoLostWakeup
  GateHasOwner
  GateInv
PROPERTY
  EveryCallReturns
CHECK_DEADLOCK FALSE
