----------------------------- MODULE MCAlarmTrap -----------------------------
(* Instances of AlarmTrap for TLC.                                         *)
EXTENDS AlarmTrap

Operation ==
  {"wrsAlarmCritical", "wrsAlarmMajor", "wrsAlarmMinor", "wrsAlarmWarning",
   "wrsAlarmMessage", "wrsAlarmClear", "wrsAlarmHierarchicalClear",
   "warmStart", "unknown", NoOperation}

\* The members the fault manager fills for an alarm, or for an event: every
\* part of them that keeps the five columns that a clear carries together.
Optional ==
  {"AlarmId", "AlarmSeverity", "EventType", "ProbableCause",
   "ProposedRepairAction", "ServiceAffecting", "SuppressionAllowed", "Uuid"}

Members(prefix) ==
  {{prefix} \X (cols \cup (ColumnSet \ Optional)) : cols \in SUBSET Optional}

\* Every member null in turn, and all numbers at once.
Nulls == {{member} : member \in Member} \cup
         {{member \in Member : member[2] \in IntegerColumns}}

MCMessage ==
  [op : Operation,
   alarm : Members("wrsAlarmActive") \cup Members("wrsEvent")
             \cup {NoAlarm, {}, Member},
   null : {{}}]
  \cup [op : Operation, alarm : {Member}, null : Nulls]

\* The messages of an event, as the fault manager sends them.
MCEvent == [op : {"wrsAlarmMessage"}, alarm : Members("wrsEvent"), null : {{}}]
=============================================================================
