SPECIFICATION TablesSpec
CONSTANTS
  Name <- MCName
  MaxRows = 2
  NoAnswer = NoAnswer
INVARIANTS RegisteredAsInMib
CHECK_DEADLOCK FALSE
