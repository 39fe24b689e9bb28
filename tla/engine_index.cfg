\* Two tables with up to two indexes each, and two names for them.
CONSTANTS
  Empty = ""
  MaxTables = 2
  MaxIndexes = 2
  IntValues <- OneInt
  TableDefs <- IndexedAndNamesake
  IndexNames = {"X1", "X2"}
  ColumnValues = {"1", "2"}
  MaxStatements = 1
  MaxCrashes = 0
  MaxFaults = 0
  MaxTears = 0
SPECIFICATION Spec
INVARIANTS CatalogSound IndexSound
PROPERTY ChangesOneTable
