------------------------------ MODULE MibTables ------------------------------
(***************************************************************************)
(* The two tables of the fm-subagent as a manager sees them: which object  *)
(* instance answers a GET or a GETNEXT, and what it holds                  *)
(* (snmpAgentPlugin.c registers the columns, header_alarmEntry and         *)
(* header_eventLogEntry match a request's name, var_alarms and var_events  *)
(* fetch the value).                                                       *)
(*                                                                         *)
(* A name is an OID, a sequence of numbers.  A request meets tables of a   *)
(* fixed length (how the count and the rows come about is AlarmTable's     *)
(* subject), and its answer is compared with the MIB's.                    *)
(***************************************************************************)
EXTENDS Naturals, Sequences

CONSTANTS
  Name,       \* the names asked for
  MaxRows,    \* bound: the longest table
  NoAnswer

ASSUME MibTablesAssumption ==
  /\ Name \subseteq Seq(Nat) /\ MaxRows \in Nat
  /\ NoAnswer \notin Seq(Nat)

VARIABLES
  request,    \* what is asked, and how many rows the tables have
  answer      \* the instance and its value, or NoAnswer

tableVars == <<request, answer>>

Table == {"alarms", "events"}

CgtsAlarmTableOid    == <<1, 3, 6, 1, 4, 1, 731, 1, 1, 1, 1, 1>>
CgtsEventLogTableOid == <<1, 3, 6, 1, 4, 1, 731, 1, 1, 1, 1, 4>>

TableOid(t) == IF t = "alarms" THEN CgtsAlarmTableOid ELSE CgtsEventLogTableOid

\* The registered variables, their magic and their type: variable n is sub-OID
\* {1, n} of its table.
AlarmVariables ==
  << <<"ALARM_INDEX", "ASN_INTEGER">>,         <<"ALARM_UUID", "ASN_OCTET_STR">>,
     <<"ALARM_ID", "ASN_OCTET_STR">>,          <<"ALARM_INSTANCE_ID", "ASN_OCTET_STR">>,
     <<"ALARM_TIME", "ASN_OCTET_STR">>,        <<"ALARM_SEVERITY", "ASN_INTEGER">>,
     <<"ALARM_REASONTEXT", "ASN_OCTET_STR">>,  <<"ALARM_EVENTTYPE", "ASN_INTEGER">>,
     <<"ALARM_PROBABLECAUSE", "ASN_INTEGER">>, <<"ALARM_REPAIRACTION", "ASN_OCTET_STR">>,
     <<"ALARM_SERVICEAFFECTING", "ASN_INTEGER">>,
     <<"ALARM_SUPPRESSION", "ASN_INTEGER">> >>

EventLogVariables ==
  << <<"EVENT_INDEX", "ASN_INTEGER">>,         <<"EVENT_UUID", "ASN_OCTET_STR">>,
     <<"EVENT_EVENT_ID", "ASN_OCTET_STR">>,    <<"EVENT_STATE", "ASN_INTEGER">>,
     <<"EVENT_INSTANCE_ID", "ASN_OCTET_STR">>, <<"EVENT_TIME", "ASN_OCTET_STR">>,
     <<"EVENT_SEVERITY", "ASN_INTEGER">>,      <<"EVENT_REASONTEXT", "ASN_OCTET_STR">>,
     <<"EVENT_EVENTTYPE", "ASN_INTEGER">>,     <<"EVENT_PROBABLECAUSE", "ASN_INTEGER">>,
     <<"EVENT_REPAIRACTION", "ASN_OCTET_STR">>,
     <<"EVENT_SERVICEAFFECTING", "ASN_INTEGER">>,
     <<"EVENT_SUPPRESSION", "ASN_INTEGER">> >>

Variables(t) == IF t = "alarms" THEN AlarmVariables ELSE EventLogVariables
Column(t) == 1 .. Len(Variables(t))

\* Every variable of both tables is registered with NETSNMP_OLDAPI_RONLY.
Access(t, c) == "read-only"
-----------------------------------------------------------------------------
(* Values: the member of the row a column shows, and the form it comes in: *)
(* a long, a string with its length, a string that lost its last           *)
(* character, or a date.                                                   *)

Long(member)   == <<member, "long">>
String(member) == <<member, "string">>
Date(member)   == <<member, "date">>

\* The uuid has 36 characters; strlcpy into saveUuid, whose 36 bytes hold the
\* terminator too, takes 35 of them.
Cut(member)    == <<member, "cut">>

VarAlarms(magic) ==
  CASE magic = "ALARM_INDEX"            -> Long("index")
    [] magic = "ALARM_UUID"             -> Cut("uuid")
    [] magic = "ALARM_ID"               -> String("alarm_id")
    [] magic = "ALARM_INSTANCE_ID"      -> String("entity_instance_id")
    [] magic = "ALARM_TIME"             -> Date("timestamp")
    [] magic = "ALARM_SEVERITY"         -> Long("severity")
    [] magic = "ALARM_REASONTEXT"       -> String("reason_text")
    [] magic = "ALARM_EVENTTYPE"        -> Long("alarm_type")
    [] magic = "ALARM_PROBABLECAUSE"    -> Long("probable_cause")
    [] magic = "ALARM_REPAIRACTION"     -> String("proposed_repair_action")
    [] magic = "ALARM_SERVICEAFFECTING" -> Long("service_affecting")
    [] magic = "ALARM_SUPPRESSION"      -> Long("suppression")

VarEvents(magic) ==
  CASE magic = "EVENT_INDEX"            -> Long("index")
    [] magic = "EVENT_UUID"             -> Cut("uuid")
    [] magic = "EVENT_EVENT_ID"         -> String("alarm_id")
    [] magic = "EVENT_STATE"            -> Long("alarm_state")
    [] magic = "EVENT_INSTANCE_ID"      -> String("entity_instance_id")
    [] magic = "EVENT_TIME"             -> Date("timestamp")
    [] magic = "EVENT_SEVERITY"         -> Long("severity")
    [] magic = "EVENT_REASONTEXT"       -> String("reason_text")
    [] magic = "EVENT_EVENTTYPE"        -> Long("alarm_type")
    [] magic = "EVENT_PROBABLECAUSE"    -> Long("probable_cause")
    [] magic = "EVENT_REPAIRACTION"     -> String("proposed_repair_action")
    [] magic = "EVENT_SERVICEAFFECTING" -> Long("service_affecting")
    [] magic = "EVENT_SUPPRESSION"      -> Long("suppression")

\* A row's member, with the type and the access the variable was registered
\* with.
Value(t, c) ==
  LET magic == Variables(t)[c][1]
  IN  <<IF t = "alarms" THEN VarAlarms(magic) ELSE VarEvents(magic),
        Variables(t)[c][2], Access(t, c)>>

\* No answer is not an answer.
ASSUME NoAnswerAssumption ==
  NoAnswer \notin
    [name : Seq(Nat), index : Nat,
     value : UNION {{Value(t, c) : c \in Column(t)} : t \in Table}]
-----------------------------------------------------------------------------
(* Names.                                                                  *)

\* snmp_oid_compare < 0: the first difference decides, a prefix is smaller.
OidLess(a, b) ==
  \E n \in 1 .. Len(b) :
    /\ n <= Len(a) + 1
    /\ \A j \in 1 .. n - 1 : a[j] = b[j]
    /\ n <= Len(a) => a[n] < b[n]

ALM_ENTRY_NAME_LENGTH == 14

\* vp->name: the OID the variable is registered under.
VpName(t, c) == TableOid(t) \o <<1, c>>

\* newname: element ALM_ENTRY_NAME_LENGTH, counted from zero, is the index.
NewName(t, c, index) ==
  [n \in 1 .. Len(VpName(t, c)) + 1 |->
     IF n = ALM_ENTRY_NAME_LENGTH + 1 THEN index ELSE VpName(t, c)[n]]

\* A slip: a GETNEXT is content with the instance it stands at.
MatchesOrEqual(name, exact, newname) ==
  name = newname \/ (~exact /\ OidLess(name, newname))

Matches(name, exact, newname) ==
  IF exact THEN name = newname ELSE OidLess(name, newname)

\* header_alarmEntry and header_eventLogEntry: the first index that matches;
\* count + 1 stands for MATCH_FAILED.
HeaderEntry(t, c, name, exact, count) ==
  CHOOSE index \in 1 .. count + 1 :
    /\ index <= count => Matches(name, exact, NewName(t, c, index))
    /\ \A i \in 1 .. index - 1 : ~Matches(name, exact, NewName(t, c, i))

\* One variable's answer to a request.
VarAnswer(t, c, req) ==
  LET index == HeaderEntry(t, c, req.name, req.exact, req.count[t])
  IN  IF index > req.count[t] THEN NoAnswer
      ELSE [name |-> NewName(t, c, index), value |-> Value(t, c), index |-> index]

\* The agent library asks the variables in the order of their OIDs until one
\* of them answers.
Answer(req) ==
  LET Answering(t) == {c \in Column(t) : VarAnswer(t, c, req) # NoAnswer}
      First(t) == CHOOSE c \in Answering(t) : \A d \in Answering(t) : c <= d
  IN  IF Answering("alarms") # {} THEN VarAnswer("alarms", First("alarms"), req)
      ELSE IF Answering("events") # {} THEN VarAnswer("events", First("events"), req)
      ELSE NoAnswer
-----------------------------------------------------------------------------
Request == [name : Name, exact : BOOLEAN, count : [Table -> 0 .. MaxRows]]

TablesInit == request \in Request /\ answer = <<>>

Reply ==
  /\ answer = <<>>
  /\ answer' = Answer(request)
  /\ UNCHANGED request

TablesSpec == TablesInit /\ [][Reply]_tableVars
-----------------------------------------------------------------------------
(* The MIB (wrsAlarmMib.mib.txt): the objects of an entry, in order, each  *)
(* with the member of the fault manager's record it shows and its syntax.  *)

MibEntry(t) ==
  << <<"index", "Unsigned32">>, <<"uuid", "DisplayString">>,
     <<"alarm_id", "WrsAlarmId">> >>
  \o (IF t = "alarms" THEN << >> ELSE << <<"alarm_state", "WrsAlarmState">> >>)
  \o << <<"entity_instance_id", "WrsAlarmEntityInstanceId">>,
        <<"timestamp", "DateAndTime">>, <<"severity", "WrsAlarmSeverity">>,
        <<"reason_text", "WrsAlarmText">>, <<"alarm_type", "WrsAlarmEventType">>,
        <<"probable_cause", "WrsAlarmProbableCause">>,
        <<"proposed_repair_action", "WrsAlarmText">>,
        <<"service_affecting", "WrsBoolean">>, <<"suppression", "WrsBoolean">> >>

\* What a syntax looks like on the wire.
Wire(syntax) ==
  CASE syntax = "DateAndTime" -> <<"date", "ASN_OCTET_STR">>
    [] syntax = "Unsigned32" -> <<"long", "ASN_UNSIGNED">>
    [] syntax \in {"DisplayString", "WrsAlarmId", "WrsAlarmEntityInstanceId",
                   "WrsAlarmText"} -> <<"string", "ASN_OCTET_STR">>
    [] OTHER -> <<"long", "ASN_INTEGER">>

\* MAX-ACCESS: the first object of an entry is its INDEX, which a manager sees
\* in the other instances' names only.
MaxAccess(c) == IF c = 1 THEN "not-accessible" ELSE "read-only"

\* The instances of tables with these row counts, of the entry's objects from
\* this one to that one.
InstancesOf(first, last, count) ==
  {inst \in Table \X (first .. last) \X (1 .. MaxRows) :
     inst[2] <= Len(MibEntry(inst[1])) /\ inst[3] <= count[inst[1]]}

\* Those a manager may be answered with, and those of the two INDEX objects.
Instances(count)      == InstancesOf(2, 13, count)
IndexInstances(count) == InstancesOf(1, 1, count)

InstanceName(inst) == TableOid(inst[1]) \o <<1, inst[2], inst[3]>>

\* The one among these instances that a request is for: the one it names, or the
\* next one in the order of names.
Asked(req, instances) ==
  {inst \in instances :
     IF req.exact THEN InstanceName(inst) = req.name
     ELSE /\ OidLess(req.name, InstanceName(inst))
          /\ \A other \in instances :
               OidLess(req.name, InstanceName(other))
                 => ~OidLess(InstanceName(other), InstanceName(inst))}

\* What the MIB answers.
Wanted(req) == Asked(req, Instances(req.count))

\* An object as the MIB shows it: its value, its type and its access.
Shown(t, c) ==
  LET object == MibEntry(t)[c]
  IN  << <<object[1], Wire(object[2])[1]>>, Wire(object[2])[2], MaxAccess(c) >>

\* The same for the uuid, the second object, which is cut short.
ShownCut(t, c) == << Cut(MibEntry(t)[c][1]), "ASN_OCTET_STR", MaxAccess(c) >>

Answers(ans, inst) == ans.name = InstanceName(inst) /\ ans.index = inst[3]

\* A GET answers the instance it names and a GETNEXT the least instance after
\* its name, over columns and tables, with the value, the type and the access
\* that the MIB gives its object, the uuid without its last character; if there
\* is none there is no answer.  A walk by GETNEXT so visits every instance once,
\* in order.  What it meets besides are the INDEX objects (RegisteredAsInMib),
\* each in its place: before every accessible instance that is still to come.
AnswerFaithful ==
  answer # <<>> =>
    \/ answer = NoAnswer /\ Wanted(request) = {}
    \/ answer # NoAnswer
       /\ \E inst \in Wanted(request) :
            /\ Answers(answer, inst)
            /\ \/ answer.value = Shown(inst[1], inst[2])
               \/ inst[2] = 2 /\ answer.value = ShownCut(inst[1], inst[2])
    \/ answer # NoAnswer
       /\ \E inst \in Asked(request, IndexInstances(request.count)) :
            /\ Answers(answer, inst)
            /\ answer.value[1] = Shown(inst[1], inst[2])[1]
            /\ \A other \in Wanted(request) :
                 OidLess(InstanceName(inst), InstanceName(other))

\* "SYNTAX      Unsigned32 (1..4294967295)", "MAX-ACCESS  not-accessible"
\* (wrsAlarmMib.mib.txt:317-318, 490-491): an object that is answered is one the
\* MIB lets a manager read, in the type the MIB gives it.
RegisteredAsInMib ==
  answer \notin {<<>>, NoAnswer} =>
    \A inst \in Instances(request.count) \cup IndexInstances(request.count) :
      Answers(answer, inst) =>
        /\ MaxAccess(inst[2]) = "read-only"
        /\ answer.value[2] = Wire(MibEntry(inst[1])[inst[2]][2])[2]
=============================================================================
