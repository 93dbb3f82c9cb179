SPECIFICATION TrapSpec
CONSTANTS
  Message <- MCEvent
  NoOperation = NoOperation
  NoAlarm = NoAlarm
  Zero = Zero
INVARIANTS EventTrapFaithful
CHECK_DEADLOCK FALSE
