\* Names as long as MAX_NAME allows.
CONSTANTS
  TableNames <- OneTable
  ColumnNames <- OneAndTwo
  IndexNames <- OneAndTwo
  MaxTables = 1
  MaxCols = 2
  MaxIndexes = 2
  MaxFks = 1
  MaxName = 2
  MaxToken = 4
SPECIFICATION Spec
INVARIANTS NamesKeep
