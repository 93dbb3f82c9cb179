------------------------------ MODULE AlarmTable ------------------------------
(***************************************************************************)
(* The active alarm table of the fm-subagent: how a GET or GETNEXT on a    *)
(* row is answered from a list that is reloaded from the fault manager's   *)
(* database (snmpActiveAlarms.c, with the session of snmpAgentPlugin.c).   *)
(* The event log table (snmpEventLogs.c) is the same algorithm with other  *)
(* constants; FmSubagent composes the two.                                 *)
(*                                                                         *)
(* A request asks for a row by its index.  The subagent compares the index *)
(* with a row count it keeps for COUNT_TTL seconds of wall clock time,     *)
(* then rescans the table, which it reloads unless the last load was less  *)
(* than MINLOADFREQ seconds of monotonic time ago.  Alarms are raised and  *)
(* cleared, the database goes away and comes back, and clocks advance      *)
(* between any two steps, during a query too.                              *)
(*                                                                         *)
(* Clocks are modelled by ages: loadAge is the monotonic time minus        *)
(* LastLoad, up to MINLOADFREQ; scanAge is the wall clock time minus       *)
(* scan_time, up to COUNT_TTL + 1 and, after the wall clock was set back,  *)
(* down to -ClockBack.  The code tells no larger ages apart.               *)
(***************************************************************************)
EXTENDS Integers, Sequences, FiniteSets

CONSTANTS
  Alarm,        \* the alarms there may be
  NoAlarm,      \* the row served before any alarm was read: all zeroes
  MaxIndex,     \* bound: the largest index asked for
  MINLOADFREQ,  \* seconds between two loads
  COUNT_TTL,    \* seconds the count is kept: 60
  retryCount,   \* queries per load
  ClockBack     \* bound: how far the wall clock is ever set back

ASSUME AlarmTableAssumption ==
  /\ IsFiniteSet(Alarm) /\ NoAlarm \notin Alarm
  /\ MaxIndex \in Nat /\ MINLOADFREQ \in Nat \ {0} /\ COUNT_TTL \in Nat
  /\ retryCount \in Nat \ {0, 1} /\ ClockBack \in Nat

VARIABLES
  \* the database
  db,         \* the active alarms
  dbUp,       \* whether it answers
  handle,     \* alm_handle: "ok", "broken" (its connection is lost) or
              \* "dead" (destroyed, and no other could be created)
  \* the subagent
  pc,         \* "down", or the point the request has reached
  alarmList,  \* alarm_list
  count,      \* Active_Alarm_Count
  loadAge,    \* the monotonic clock minus LastLoad
  scanAge,    \* the wall clock minus scan_time
  caller,     \* who called Alarm_Scan_Init: "count" or "index"
  index,      \* the index of the row looked for
  try,        \* the queries of this load that failed
  alrm,       \* the row in the static buffer of var_alarms
  \* history
  goneFor,    \* goneFor[a]: seconds since a was cleared, up to MINLOADFREQ
  recent,     \* alarms active since MINLOADFREQ seconds before the request
  calmFor,    \* seconds without a disturbance, up to Calm
  calmRequest \* the request began in calm, and nothing has disturbed it

dbVars   == <<db, dbUp>>
listVars == <<alarmList, count, alrm>>
ageVars  == <<loadAge, scanAge>>
reqVars  == <<caller, index, try>>
ghosts   == <<goneFor, recent, calmFor, calmRequest>>
vars == <<db, dbUp, handle, pc, alarmList, count, loadAge, scanAge, caller,
          index, try, alrm, goneFor, recent, calmFor, calmRequest>>

\* How long the table takes to forget a disturbance.
Calm == COUNT_TTL + MINLOADFREQ + ClockBack

Capped(n, cap) == IF n < cap THEN n ELSE cap

\* The orders in which a query may return the alarms of S.
Enumerations(S) ==
  {s \in [1 .. Cardinality(S) -> S] : \A a \in S : \E i \in DOMAIN s : s[i] = a}

\* The locals of a request go out of scope, and its history ends.
RequestOver ==
  /\ caller' = "count" /\ index' = 0 /\ try' = 0
  /\ recent' = {} /\ calmRequest' = FALSE

Disturbed == calmFor' = 0 /\ calmRequest' = FALSE

Init ==
  /\ db = {} /\ dbUp = TRUE /\ handle = "dead"
  /\ pc = "down"
  /\ alarmList = << >> /\ count = 0 /\ alrm = NoAlarm
  /\ loadAge = MINLOADFREQ /\ scanAge = COUNT_TTL + 1
  /\ caller = "count" /\ index = 0 /\ try = 0
  /\ goneFor = [a \in Alarm |-> MINLOADFREQ]
  /\ recent = {}
  /\ calmFor = 0 /\ calmRequest = FALSE
-----------------------------------------------------------------------------
(* The database and the clocks.                                            *)

Raise(a) ==
  /\ dbUp /\ a \notin db
  /\ db' = db \cup {a}
  /\ recent' = recent \cup {a}
  /\ Disturbed
  /\ UNCHANGED <<dbUp, handle, pc, listVars, ageVars, reqVars, goneFor>>

Clear(a) ==
  /\ dbUp /\ a \in db
  /\ db' = db \ {a}
  /\ goneFor' = [goneFor EXCEPT ![a] = 0]
  /\ Disturbed
  /\ UNCHANGED <<dbUp, handle, pc, listVars, ageVars, reqVars, recent>>

DbDown ==
  /\ dbUp
  /\ dbUp' = FALSE
  /\ handle' = IF handle = "ok" THEN "broken" ELSE handle
  /\ Disturbed
  /\ UNCHANGED <<db, pc, listVars, ageVars, reqVars, goneFor, recent>>

DbUp ==
  /\ ~dbUp
  /\ dbUp' = TRUE
  /\ UNCHANGED <<db, handle, pc, listVars, ageVars, reqVars, ghosts>>

Tick ==
  /\ loadAge' = Capped(loadAge + 1, MINLOADFREQ)
  /\ scanAge' = Capped(scanAge + 1, COUNT_TTL + 1)
  /\ goneFor' = [a \in Alarm |-> Capped(goneFor[a] + 1, MINLOADFREQ)]
  /\ calmFor' = IF dbUp THEN Capped(calmFor + 1, Calm) ELSE 0
  /\ UNCHANGED <<dbVars, handle, pc, listVars, reqVars, recent, calmRequest>>

\* The wall clock is set.
ClockStep(age) ==
  /\ scanAge' = age
  /\ Disturbed
  /\ UNCHANGED <<dbVars, handle, pc, listVars, loadAge, reqVars, goneFor,
                 recent>>
-----------------------------------------------------------------------------
(* The process.                                                            *)

\* init_snmpAgentPlugin: without a session the process exits, and is started
\* again until there is one.
Start ==
  /\ pc = "down"
  /\ dbUp
  /\ handle' = "ok"
  /\ alarmList' = << >> /\ count' = 0 /\ alrm' = NoAlarm
  /\ loadAge' = MINLOADFREQ /\ scanAge' = COUNT_TTL + 1
  /\ pc' = "idle"
  /\ UNCHANGED <<dbVars, reqVars, ghosts>>

\* The process ends: its main loop between two requests, where
\* deinit_snmpAgentPlugin destroys the session, or at any point when it is
\* killed.
Stop ==
  /\ pc # "down"
  /\ pc' = "down"
  /\ handle' = "dead"
  /\ RequestOver
  /\ UNCHANGED <<dbVars, listVars, ageVars, goneFor, calmFor>>

\* A GET asks for row k, a GETNEXT that stands at row k for the one after it.
Request(exact, k) ==
  /\ pc = "idle"
  /\ index' = IF exact THEN k ELSE k + 1
  /\ recent' = {a \in Alarm : a \in db \/ goneFor[a] < MINLOADFREQ}
  /\ calmRequest' = (calmFor = Calm)
  /\ pc' = "count"
  /\ UNCHANGED <<dbVars, handle, listVars, ageVars, caller, try, goneFor,
                 calmFor>>

\* A slip: the count is kept as long as it is not zero.
CountKeptForEver == count = 0

CountIsOld == count = 0 \/ scanAge > COUNT_TTL

\* Active_Alarm_Get_Count.
GetCount ==
  /\ pc = "count"
  /\ pc' = IF CountIsOld THEN "init" ELSE "lookup"
  /\ scanAge' = IF CountIsOld THEN 0 ELSE scanAge
  /\ caller' = "count"
  /\ UNCHANGED <<dbVars, handle, listVars, loadAge, index, try, ghosts>>

\* header_alarmEntry: the index is among 1 .. count, or there is no match.
Lookup ==
  /\ pc = "lookup"
  /\ \/ /\ index \in 1 .. count
        /\ pc' = "init"
        /\ caller' = "index"
        /\ UNCHANGED <<index, try, recent, calmRequest>>
     \/ /\ index \notin 1 .. count
        /\ pc' = "idle"
        /\ RequestOver
  /\ UNCHANGED <<dbVars, handle, listVars, ageVars, goneFor, calmFor>>

LoadIsRecent == loadAge < MINLOADFREQ

\* Alarm_Scan_Init, up to its first query.
SkipReload ==
  /\ pc = "init"
  /\ LoadIsRecent
  /\ pc' = "walk"
  /\ UNCHANGED <<dbVars, handle, listVars, ageVars, reqVars, ghosts>>

\* A slip: the old list is kept for the case that the load fails.
OldListKept == alarmList

OldListFreed == << >>

BeginLoad ==
  /\ pc = "init"
  /\ ~LoadIsRecent
  /\ loadAge' = 0
  /\ alarmList' = OldListFreed
  /\ try' = 0
  /\ pc' = "query"
  /\ UNCHANGED <<dbVars, handle, count, alrm, scanAge, caller, index, ghosts>>

QueryAnswered ==
  /\ pc = "query"
  /\ handle = "ok"
  /\ alarmList' \in Enumerations(db)
  /\ pc' = "walk"
  /\ UNCHANGED <<dbVars, handle, count, alrm, ageVars, reqVars, ghosts>>

\* calloc returns NULL for a row: the list ends before it.
QueryTruncated ==
  /\ pc = "query"
  /\ handle = "ok"
  /\ \E s \in Enumerations(db) : \E n \in 0 .. Len(s) - 1 :
       alarmList' = SubSeq(s, 1, n)
  /\ pc' = "walk"
  /\ Disturbed
  /\ UNCHANGED <<dbVars, handle, count, alrm, ageVars, reqVars, goneFor,
                 recent>>

\* A slip: the result of fm_snmp_util_create_session is taken for granted.
RenewAssumed == "ok"

\* renewAlarmSession destroys the session before it creates another.
RenewedHandle == IF dbUp THEN "ok" ELSE "dead"

\* A slip: a failed query is not counted.
NextTryForgotten == try

NextTry == try + 1

QueryFails ==
  /\ pc = "query"
  /\ handle # "ok"
  /\ handle' = RenewedHandle
  /\ try' = NextTry
  /\ pc' = IF NextTry < retryCount THEN "query" ELSE "walk"
  /\ UNCHANGED <<dbVars, listVars, ageVars, caller, index, ghosts>>

\* The other table's query has failed: the two tables share the session.  This
\* table relies on it that what it is left with is a session of a database that
\* answers, or none.
SessionRenewed ==
  /\ pc = "idle"
  /\ handle # "ok"
  /\ handle' = IF dbUp THEN "ok" ELSE "dead"
  /\ UNCHANGED <<dbVars, pc, listVars, ageVars, reqVars, ghosts>>

\* A destroyed session is used: the call fails as above, or the process dies.
QueryCrashes ==
  /\ pc = "query"
  /\ handle = "dead"
  /\ pc' = "down"
  /\ RequestOver
  /\ UNCHANGED <<dbVars, handle, listVars, ageVars, goneFor, calmFor>>

\* The loop of Active_Alarm_Get_Count over the list.
WalkToCount ==
  /\ pc = "walk" /\ caller = "count"
  /\ count' = Len(alarmList)
  /\ pc' = "lookup"
  /\ UNCHANGED <<dbVars, handle, alarmList, alrm, ageVars, reqVars, ghosts>>

\* A slip: a scan that does not reload leaves saveIndex alone, and the loop
\* runs to the last row.
LastRowReached ==
  IF alarmList = << >> THEN alrm ELSE alarmList[Len(alarmList)]

\* Alarm_Scan_By_Index, whose result var_alarms ignores: it stops at the row
\* looked for or at the last one, and leaves alrm alone when there is none.
RowReached ==
  IF alarmList = << >> THEN alrm
  ELSE alarmList[IF index < Len(alarmList) THEN index ELSE Len(alarmList)]

WalkToIndex ==
  /\ pc = "walk" /\ caller = "index"
  /\ alrm' = RowReached
  /\ pc' = "idle"
  /\ RequestOver
  /\ UNCHANGED <<dbVars, handle, alarmList, count, ageVars, goneFor, calmFor>>
-----------------------------------------------------------------------------
AgentStep ==
  \/ GetCount \/ Lookup
  \/ SkipReload \/ BeginLoad
  \/ QueryAnswered \/ QueryTruncated \/ QueryFails \/ QueryCrashes
  \/ WalkToCount \/ WalkToIndex

Next ==
  \/ \E a \in Alarm : Raise(a) \/ Clear(a)
  \/ DbDown \/ DbUp
  \/ Tick
  \/ \E age \in -ClockBack .. COUNT_TTL + 1 : ClockStep(age)
  \/ Start \/ Stop \/ SessionRenewed
  \/ \E exact \in BOOLEAN, k \in 0 .. MaxIndex : Request(exact, k)
  \/ AgentStep

Spec == Init /\ [][Next]_vars
-----------------------------------------------------------------------------
(* Properties.                                                             *)

Point == {"down", "idle", "count", "lookup", "init", "query", "walk"}

\* A session that works needs a database that answers.
TypeOK ==
  /\ db \in SUBSET Alarm /\ dbUp \in BOOLEAN
  /\ handle \in {"ok", "broken", "dead"} /\ (handle = "ok" => dbUp)
  /\ pc \in Point
  /\ alarmList \in Seq(Alarm) /\ count \in Nat
  /\ loadAge \in 0 .. MINLOADFREQ
  /\ scanAge \in -ClockBack .. COUNT_TTL + 1
  /\ caller \in {"count", "index"} /\ index \in 0 .. MaxIndex + 1
  /\ try \in 0 .. retryCount
  /\ alrm \in Alarm \cup {NoAlarm}
  /\ goneFor \in [Alarm -> 0 .. MINLOADFREQ]
  /\ recent \in SUBSET Alarm
  /\ calmFor \in 0 .. Calm /\ calmRequest \in BOOLEAN

RowServed == pc = "walk" /\ pc' = "idle"

\* The reload limit keeps rows fresh: as long as the list is not empty, the
\* row served was an active alarm during the request, or less than MINLOADFREQ
\* seconds before it, whatever the database did meanwhile.
ServedFresh == [][RowServed /\ alarmList # << >> => alrm' \in recent]_vars

\* A disturbance is forgotten: when no alarm came or went, the database was
\* up, no allocation failed and no clock was set for Calm seconds, then
\* the manager gets the row it asked for from a list of exactly the active
\* alarms, and is told that there is no row only when there is none.
CalmTableExact ==
  [][calmRequest =>
       /\ RowServed => /\ alarmList \in Enumerations(db)
                       /\ index \in 1 .. Len(alarmList)
                       /\ alrm' = alarmList[index]
       /\ pc = "lookup" /\ pc' = "idle" =>
            index \notin 1 .. Cardinality(db)]_vars

\* How many steps a request can still make: it loads the list at most twice,
\* for the count and for the row, and a load is at most retryCount queries.
StepsLeft ==
  CASE pc = "count"                       -> 2 * retryCount + 6
    [] pc = "init" /\ caller = "count"    -> 2 * retryCount + 5
    [] pc = "query" /\ caller = "count"   -> 2 * retryCount + 4 - try
    [] pc = "walk" /\ caller = "count"    -> retryCount + 4
    [] pc = "lookup"                      -> retryCount + 3
    [] pc = "init" /\ caller = "index"    -> retryCount + 2
    [] pc = "query" /\ caller = "index"   -> retryCount + 1 - try
    [] pc = "walk" /\ caller = "index"    -> 1
    [] OTHER                              -> 0

\* A request never goes on for ever: each of its steps is one of
\* 2 * retryCount + 6, and no failure of the database, no renewal of the
\* session and no clock that is set in between gives it a step more.
RequestBounded ==
  [][/\ StepsLeft' \in 0 .. 2 * retryCount + 6
     /\ StepsLeft' > StepsLeft => pc = "idle"
     /\ AgentStep => StepsLeft' < StepsLeft]_vars

\* "This table contains information about active alarms" (wrsAlarmMib.mib.txt:290)
\* and "Error, doesn't exist" (snmpActiveAlarms.c:139): a row that is
\* served exists in the list it is served from.
ServedRowExists == [][RowServed => index \in 1 .. Len(alarmList)]_vars
=============================================================================
