\* A failed JD put, then ROLLBACK.
CONSTANTS
  Empty = Empty
  Absent = Absent
  Keys = {k1, k2}
  Values = {v1, Empty}
  MaxSeq = 2
  MaxCrashes = 0
  MaxFaults = 1
  FaultPoints <- FailedJD
SPECIFICATION Spec
INVARIANT RollbackUndoes
