SPECIFICATION Spec
CONSTANTS
  Message <- MCMessage
  NoOperation = NoOperation
  NoAlarm = NoAlarm
  Zero = Zero
  Name <- MCName
  MaxRows = 2
  NoAnswer = NoAnswer
INVARIANTS AlarmTrapFaithful AnswerFaithful
CHECK_DEADLOCK FALSE
