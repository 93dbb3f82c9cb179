------------------------------ MODULE AlarmTrap ------------------------------
(***************************************************************************)
(* From a JSON message of the fault manager to an SNMP notification        *)
(* (wrsAlarmMIBTrap.c).                                                    *)
(*                                                                         *)
(* A message is its operation_type, the members of its "alarm" object, and *)
(* those among them that are null.  A member is <<prefix, column>>: the    *)
(* source's key for the column, with the prefix wrsAlarmActive or          *)
(* wrsEvent.  A varbind is a column and where its value comes from: the    *)
(* member that was read, or zero, which is what json_object_get_int makes  *)
(* of a missing member, of null or of an object.  Of null                  *)
(* json_object_get_string makes a null pointer, which strlen does not      *)
(* survive.  An "alarm" that is null is like one that has no members.      *)
(***************************************************************************)
EXTENDS Naturals, Sequences

CONSTANTS
  Message,     \* the messages that may arrive
  NoOperation, \* op of a message that is no JSON object with operation_type,
               \* or whose operation_type is null
  NoAlarm,     \* alarm of a message without an "alarm" member
  Zero         \* the value zero

VARIABLES message, outcome

trapVars == <<message, outcome>>

\* The order in which every send_* function adds the columns it sends.
AllColumns ==
  << "Uuid", "AlarmId", "EntityInstanceId", "DateAndTime", "AlarmSeverity",
     "ReasonText", "EventType", "ProbableCause", "ProposedRepairAction",
     "ServiceAffecting", "SuppressionAllowed" >>

ColumnSet == {AllColumns[i] : i \in 1 .. Len(AllColumns)}

Member == {"wrsAlarmActive", "wrsEvent"} \X ColumnSet

\* The columns read by json_object_get_int, and by json_object_get_string.
IntegerColumns ==
  {"AlarmSeverity", "EventType", "ProbableCause", "ServiceAffecting",
   "SuppressionAllowed"}

TextColumns == ColumnSet \ IntegerColumns

ASSUME MessageAssumption ==
  \A m \in Message :
    m.alarm = NoAlarm \/ (m.alarm \subseteq Member /\ m.null \subseteq m.alarm)

\* The columns a clear and a hierarchical clear look for.
ClearColumns ==
  {"Uuid", "AlarmId", "EntityInstanceId", "DateAndTime", "ReasonText"}

HierarchicalClearColumns ==
  {"Uuid", "EntityInstanceId", "DateAndTime", "ReasonText"}

\* json_object_get_int of a member, and json_object_get_string of one that is
\* there and not null.
Get(member, m) == IF member \in m.alarm \ m.null THEN member ELSE Zero

\* The value of a column whose member is there.  An event's probable cause is
\* read from the alarm's member, and whether it affects service from the
\* enclosing object.
EventValue(col, m) ==
  CASE col = "ProbableCause"    -> Get(<<"wrsAlarmActive", col>>, m)
    [] col = "ServiceAffecting" -> Zero
    [] OTHER                    -> Get(<<"wrsEvent", col>>, m)

\* A slip: the event's mistake, made for alarms too.
AlarmValueAsEvent(col, m) ==
  IF col = "ServiceAffecting" THEN Zero ELSE Get(<<"wrsAlarmActive", col>>, m)

AlarmValue(col, m) == Get(<<"wrsAlarmActive", col>>, m)

\* A column that a send_* function looks for and the alarm has is added to the
\* list of varbinds; one whose key the alarm lacks is left out.
Varbind(prefix, columns, m, col) ==
  IF col \in columns /\ <<prefix, col>> \in m.alarm
    THEN << [col   |-> col,
             value |-> IF prefix = "wrsEvent" THEN EventValue(col, m)
                                              ELSE AlarmValue(col, m)] >>
    ELSE << >>

Varbinds(prefix, columns, m) ==
  LET V(n) == Varbind(prefix, columns, m, AllColumns[n])
  IN  V(1) \o V(2) \o V(3) \o V(4) \o V(5) \o V(6) \o V(7) \o V(8) \o V(9)
           \o V(10) \o V(11)

\* strlen of a text that is there and null.
StrlenOfNull(prefix, columns, m) ==
  \E col \in columns \cap TextColumns : <<prefix, col>> \in m.null

Done(traps) == [result |-> "done", traps |-> traps]
Crash == [result |-> "crash", traps |-> << >>]

\* A send_* function: without an "alarm" member it sends nothing, and with a
\* text in it that is null it ends the process before it sends anything.
Trap(oid, prefix, columns, m) ==
  IF m.alarm = NoAlarm THEN Done(<< >>)
  ELSE IF StrlenOfNull(prefix, columns, m) THEN Crash
  ELSE Done(<< [oid |-> oid, varbinds |-> Varbinds(prefix, columns, m)] >>)

\* The send_* functions; oid is the last number of the notification's OID.
Critical(m) == Trap(1, "wrsAlarmActive", ColumnSet, m)
Major(m)    == Trap(2, "wrsAlarmActive", ColumnSet, m)
Minor(m)    == Trap(3, "wrsAlarmActive", ColumnSet, m)
Warning(m)  == Trap(4, "wrsAlarmActive", ColumnSet, m)
EventMessage(m) == Trap(5, "wrsEvent", ColumnSet, m)
AlarmMessage(m) == Trap(5, "wrsAlarmActive", ColumnSet, m)
Clear(m) == Trap(9, "wrsAlarmActive", ClearColumns, m)
HierarchicalClear(m) ==
  Trap(99, "wrsAlarmActive", HierarchicalClearColumns, m)

\* SNMPv2-MIB's warmStart, which needs no alarm.
WarmStart == Done(<< [oid |-> 1152, varbinds |-> << >>] >>)

\* The if-else chain; an operation it does not know is sent as a message.  The
\* result is zero whatever the send_* functions return.
ProcessJsonAlarm(m) ==
  CASE m.op = NoOperation                 -> Crash
    [] m.op = "wrsAlarmClear"             -> Clear(m)
    [] m.op = "wrsAlarmHierarchicalClear" -> HierarchicalClear(m)
    [] m.op = "wrsAlarmMessage"           -> EventMessage(m)
    [] m.op = "wrsAlarmWarning"           -> Warning(m)
    [] m.op = "wrsAlarmMinor"             -> Minor(m)
    [] m.op = "wrsAlarmMajor"             -> Major(m)
    [] m.op = "wrsAlarmCritical"          -> Critical(m)
    [] m.op = "warmStart"                 -> WarmStart
    [] OTHER                              -> AlarmMessage(m)

Pending == [result |-> "pending", traps |-> << >>]

TrapInit == message \in Message /\ outcome = Pending

\* One message after the other; each starts from nothing.
Process ==
  /\ outcome = Pending
  /\ outcome' = ProcessJsonAlarm(message)
  /\ UNCHANGED message

TrapSpec == TrapInit /\ [][Process]_trapVars
-----------------------------------------------------------------------------
(* What the MIB promises (wrsAlarmMib.mib.txt).                            *)

Details ==
  << "AlarmId", "EntityInstanceId", "DateAndTime", "AlarmSeverity",
     "ReasonText", "EventType", "ProbableCause", "ProposedRepairAction",
     "ServiceAffecting", "SuppressionAllowed" >>

\* The NOTIFICATION-TYPE an operation stands for: its number and its OBJECTS.
Notification(op) ==
  CASE op = "wrsAlarmCritical" -> [oid |-> 1, objects |-> Details]
    [] op = "wrsAlarmMajor"    -> [oid |-> 2, objects |-> Details]
    [] op = "wrsAlarmMinor"    -> [oid |-> 3, objects |-> Details]
    [] op = "wrsAlarmWarning"  -> [oid |-> 4, objects |-> Details]
    [] op = "wrsAlarmClear"    ->
         [oid |-> 9, objects |-> << "AlarmId", "EntityInstanceId",
                                    "DateAndTime", "ReasonText" >>]
    [] op = "wrsAlarmHierarchicalClear" ->
         [oid |-> 99, objects |-> << "EntityInstanceId", "DateAndTime",
                                     "ReasonText" >>]
    [] OTHER                   -> [oid |-> 5, objects |-> Details]

\* These varbinds are those of the objects that the alarm has, in this order.
Lists(varbinds, objects, prefix, alarm) ==
  /\ {varbinds[i].col : i \in 1 .. Len(varbinds)} =
       {col \in {objects[n] : n \in 1 .. Len(objects)} : <<prefix, col>> \in alarm}
  /\ \A j \in 1 .. Len(varbinds) : \A i \in 1 .. j - 1 :
       \E q \in 1 .. Len(objects) : \E p \in 1 .. q - 1 :
         varbinds[i].col = objects[p] /\ varbinds[j].col = objects[q]

\* What an operation's members are called.
Prefix(op) == IF op = "wrsAlarmMessage" THEN "wrsEvent" ELSE "wrsAlarmActive"

\* A text that the notification has no place for may be null.
TextsGiven(m) ==
  LET objects == <<"Uuid">> \o Notification(m.op).objects
  IN  \A n \in 1 .. Len(objects) :
        <<Prefix(m.op), objects[n]>> \in m.null => objects[n] \in IntegerColumns

\* For every operation on an alarm or an event, known or not, the one
\* notification sent is the one the MIB defines for it; after the Uuid its
\* varbinds are that notification's OBJECTS, as far as the message has them, in
\* the MIB's order and none twice; and each has the value the message gives for
\* it, a null being zero, but for two details of an event (EventTrapFaithful).
\* The texts among the objects must not be null: one that is ends the process.
AlarmTrapFaithful ==
  outcome # Pending /\ message.alarm # NoAlarm /\ TextsGiven(message)
    /\ message.op \notin {NoOperation, "warmStart"} =>
  LET mib    == Notification(message.op)
      prefix == Prefix(message.op)
      trap   == outcome.traps[1]
  IN  /\ outcome.result = "done" /\ Len(outcome.traps) = 1
      /\ trap.oid = mib.oid
      /\ Lists(trap.varbinds, <<"Uuid">> \o mib.objects, prefix, message.alarm)
      /\ \A i \in 1 .. Len(trap.varbinds) :
           LET v == trap.varbinds[i]
           IN  \/ v.value = IF <<prefix, v.col>> \in message.null
                              THEN Zero ELSE <<prefix, v.col>>
               \/ prefix = "wrsEvent" /\ v.col \in {"ProbableCause", "ServiceAffecting"}

\* "This notification indicates that a stateless message alarm event has
\* occurred on the system.  The varbinds include details of the alarm."
\* (wrsAlarmMib.mib.txt:732-734): a detail sent for an event is the event's.
EventTrapFaithful ==
  message.op = "wrsAlarmMessage" =>
    \A i \in 1 .. Len(outcome.traps) :
      \A j \in 1 .. Len(outcome.traps[i].varbinds) :
        LET v == outcome.traps[i].varbinds[j]
        IN  v.value = <<"wrsEvent", v.col>>
=============================================================================
