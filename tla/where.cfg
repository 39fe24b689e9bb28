\* Up to four conditions asked of at most three, and texts of up to six tokens.
CONSTANTS
  MaxValue = 3
  MaxConds = 3
  Columns <- TableColumns
  IntColumns <- OneInt
  Width = 3
  Rows <- TableRows
  Asked <- Questions
  Texts <- Jumble
  BigInts <- Big
  Outcomes <- TooBig
SPECIFICATION Spec
INVARIANTS TypeOK Covers Understood ConditionsMean
CHECK_DEADLOCK FALSE
