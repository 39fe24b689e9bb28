\* Every clause of SELECT on tables of up to four rows, LIMIT overflows at 8, and
\* joins of two tables of up to two rows.
CONSTANTS
  MaxValue = 32
  MaxConds = 8
  MaxName = 2
  Table <- TheTable
  Cols <- TheCols
  IntCols <- OneInt
  IntBits = 4
  Tables <- Contents
  Asked <- Questions
  MaxFaults = 2
  Other <- OtherName
  OtherCols <- TheOtherCols
  Others <- OtherContents
  JoinTables <- TwoRows
  JoinAsked <- JoinQuestions
SPECIFICATION JoinSpec
INVARIANTS TypeOK AnswersAsMeant FoundInOrder GroupsPartition ExplainAgrees
INVARIANTS JoinAsMeant PrintsPart JoinExplained
CHECK_DEADLOCK FALSE
