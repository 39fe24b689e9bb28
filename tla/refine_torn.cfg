\* Crashes anywhere, also during recovery; no failed operation.
CONSTANTS
  Empty = Empty
  Absent = Absent
  Keys = {k1, k2}
  Values = {v1, Empty}
  MaxSeq = 2
  MaxCrashes = 2
  MaxFaults = 0
  FaultPoints <- NoFaultPoints
SPECIFICATION FairSpec
INVARIANTS TypeOK RollbackRestores CrashRestores OnlyHeldValues
PROPERTIES OnlyClearMovesImage ImplementsTornContract RecoveryCompletes
