------------------------------ MODULE MCAlarmWalk ------------------------------
(* The active alarm table and the walk for TLC: at most two alarms.           *)
EXTENDS AlarmWalk, TLC

CONSTANTS a1, a2

AlarmSymmetry == Permutations(Alarm)
=============================================================================
