SPECIFICATION WalkSpec
CONSTANTS
  a1 = a1
  a2 = a2
  Alarm = {a1, a2}
  NoAlarm = NoAlarm
  MaxIndex = 2
  MINLOADFREQ = 1
  COUNT_TTL = 0
  retryCount = 2
  ClockBack = 1
SYMMETRY AlarmSymmetry
INVARIANTS TypeOK
PROPERTIES ServedFresh CalmTableExact WalkCounts WalkComplete
