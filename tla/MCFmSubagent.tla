----------------------------- MODULE MCFmSubagent -----------------------------
(* An instance of FmSubagent for TLC with one alarm and one event log.  As a  *)
(* bound, the fault manager adds a row to one table only when no trace of the *)
(* other's rows is left: an empty table still loads, fails and renews the     *)
(* session at every request.                                                  *)
EXTENDS FmSubagent

CONSTANTS a1, l1

NoAlarmKnown ==
  /\ aDb = {} /\ aList = << >> /\ aRow = NoAlarm /\ aRecent = {} /\ aCount = 0
  /\ \A a \in Alarm : aGone[a] = ALARM_MINLOADFREQ

NoLogKnown ==
  /\ eDb = {} /\ eList = << >> /\ eRow = NoLog /\ eRecent = {} /\ eCount = 0
  /\ \A l \in Log : eGone[l] = EVENT_MINLOADFREQ

MCNext ==
  \/ NoLogKnown /\ AlarmsChange
  \/ NoAlarmKnown /\ LogsChange
  \/ RowsStay

MCSpec == Init /\ [][MCNext]_vars /\ Fairness
=============================================================================
