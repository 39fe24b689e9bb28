\* One crash and two failed operations, all anywhere.
CONSTANTS
  Empty = Empty
  Absent = Absent
  Keys = {k1, k2}
  Values = {v1, Empty}
  MaxSeq = 2
  MaxCrashes = 1
  MaxFaults = 2
  FaultPoints <- AllPoints
SPECIFICATION Spec
INVARIANTS JournalInv
PROPERTIES CommitSticks
