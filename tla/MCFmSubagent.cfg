SPECIFICATION MCSpec
CONSTANTS
  a1 = a1
  l1 = l1
  Alarm = {a1}
  NoAlarm = NoAlarm
  Log = {l1}
  NoLog = NoLog
  MaxIndex = 0
  ALARM_MINLOADFREQ = 1
  EVENT_MINLOADFREQ = 1
  COUNT_TTL = 0
  retryCount = 2
  ClockBack = 0
PROPERTIES
  AlarmTableKept
  EventTableKept
  RequestsBounded
  StopHonoured
  RequestsAnswered
