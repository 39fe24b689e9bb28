\* Two tables of two columns, one index and one reference each.
CONSTANTS
  TableNames <- OneAndTwo
  ColumnNames <- OneAndTwo
  IndexNames <- OneAndThree
  MaxTables = 2
  MaxCols = 2
  MaxIndexes = 1
  MaxFks = 1
  MaxName = 3
  MaxToken = 5
SPECIFICATION Spec
INVARIANTS CatalogKeeps
