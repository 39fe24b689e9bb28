\* Statements of up to seven characters, recalled ones of up to six.
CONSTANTS
  MaxStatement = 9
  TermCapacity = 6
  Lines <- TypedLines
  Edits <- Edited
  MaxLines = 3
  MaxFaults = 1
SPECIFICATION Spec
INVARIANTS TypeOK RunsWhole
PROPERTIES RecallsLast RecalledRuns KeysRunNothing TypedRuns PartWays
CHECK_DEADLOCK FALSE
