\* One failed record operation.
CONSTANTS
  Empty = ""
  MaxTables = 1
  MaxIndexes = 0
  IntValues <- OneInt
  TableDefs <- IndexedOnly
  IndexNames = {}
  ColumnValues = {"1"}
  MaxStatements = 1
  MaxCrashes = 0
  MaxFaults = 1
  MaxTears = 0
SPECIFICATION Spec
PROPERTY FailedLeavesBase
