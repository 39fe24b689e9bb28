\* A parent and a child table, no index: PRIMARY KEY and FOREIGN KEY; and
\* a crash, a failing record operation and a clear cut short.
CONSTANTS
  Empty = ""
  MaxTables = 2
  MaxIndexes = 0
  IntValues <- Ints
  TableDefs <- ParentAndChild
  IndexNames = {}
  ColumnValues = {"1", "2", ""}
  MaxStatements = 1
  MaxCrashes = 1
  MaxFaults = 1
  MaxTears = 1
SPECIFICATION Spec
INVARIANTS TypeOK CatalogSound KeysSound
PROPERTY OthersKept
