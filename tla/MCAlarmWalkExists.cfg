SPECIFICATION WalkSpec
CONSTANTS
  a1 = a1
  a2 = a2
  Alarm = {a1}
  NoAlarm = NoAlarm
  MaxIndex = 1
  MINLOADFREQ = 1
  COUNT_TTL = 1
  retryCount = 2
  ClockBack = 0
PROPERTIES ServedRowExists
