\* Three columns, values around the longest length, one row.
CONSTANTS
  Columns = 3
  MaxValue = 6
  MaxConds = 2
  Table <- TheTable
  Names <- TheNames
  Asked <- Statements
SPECIFICATION Spec
INVARIANTS PlainKeeps OnlyPlainKeeps DoesAsAsked ChangesAsMeant
CHECK_DEADLOCK FALSE
