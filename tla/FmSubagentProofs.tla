--------------------------- MODULE FmSubagentProofs ---------------------------
(***************************************************************************)
(* The two tables of the fm-subagent keep what AlarmTable guarantees,      *)
(* although they share a session: each is refined by the whole subagent,   *)
(* for any alarms, any logs and any limits.  Checked by TLAPS.             *)
(***************************************************************************)
EXTENDS FmSubagent, TLAPS

\* A!vars and E!vars, without unfolding the substitutions anew at each use.
LEMMA TableVars ==
  /\ UNCHANGED <<dbUp, handle, aVars>> => UNCHANGED A!vars
  /\ UNCHANGED <<dbUp, handle, eVars>> => UNCHANGED E!vars
  BY DEF A!vars, E!vars, aVars, eVars

\* What a step of the event log table does to the session.
LEMMA EventStepSession ==
  ASSUME E!AgentStep \/ \E exact \in BOOLEAN, k \in 0 .. MaxIndex : E!Request(exact, k)
  PROVE  /\ dbUp' = dbUp
         /\ \/ handle' = handle
            \/ handle # "ok" /\ handle' = E!RenewedHandle
  BY DEF E!AgentStep, E!Request, E!GetCount, E!Lookup, E!SkipReload,
         E!BeginLoad, E!QueryAnswered, E!QueryTruncated, E!QueryFails,
         E!QueryCrashes, E!WalkToCount, E!WalkToIndex, E!dbVars

LEMMA AlarmStepSession ==
  ASSUME A!AgentStep \/ \E exact \in BOOLEAN, k \in 0 .. MaxIndex : A!Request(exact, k)
  PROVE  /\ dbUp' = dbUp
         /\ \/ handle' = handle
            \/ handle # "ok" /\ handle' = A!RenewedHandle
  BY DEF A!AgentStep, A!Request, A!GetCount, A!Lookup, A!SkipReload,
         A!BeginLoad, A!QueryAnswered, A!QueryTruncated, A!QueryFails,
         A!QueryCrashes, A!WalkToCount, A!WalkToIndex, A!dbVars

\* A session renewed as QueryFails does it is what the other table relies on.
LEMMA OtherSession ==
  /\ A!RenewedHandle = E!RenewedHandle
  /\ aPc = "idle" /\ handle # "ok" /\ handle' = A!RenewedHandle
       /\ UNCHANGED <<dbUp, aVars>> => A!SessionRenewed
  /\ ePc = "idle" /\ handle # "ok" /\ handle' = E!RenewedHandle
       /\ UNCHANGED <<dbUp, eVars>> => E!SessionRenewed
  BY DEF A!RenewedHandle, E!RenewedHandle, A!SessionRenewed, E!SessionRenewed,
         aVars, eVars, A!dbVars, A!listVars, A!ageVars, A!reqVars, A!ghosts,
         E!dbVars, E!listVars, E!ageVars, E!reqVars, E!ghosts

LEMMA AlarmsDoNotTouchSession ==
  /\ AlarmsChange => UNCHANGED <<dbUp, handle>>
  /\ LogsChange => UNCHANGED <<dbUp, handle>>
  BY DEF AlarmsChange, LogsChange, A!Raise, A!Clear, E!Raise, E!Clear
-----------------------------------------------------------------------------
\* Every step of the subagent is a step of the alarm table, or none.
LEMMA AlarmTableStep == [Next]_vars => [A!Next]_A!vars
<1> SUFFICES ASSUME [Next]_vars PROVE A!Next \/ UNCHANGED A!vars
  OBVIOUS
<1>1. CASE AlarmsChange
  BY <1>1 DEF AlarmsChange, A!Next
<1>2. CASE LogsChange
  BY <1>2, AlarmsDoNotTouchSession, TableVars DEF LogsChange
<1>3. CASE DbDown \/ DbUp \/ Tick
  BY <1>3 DEF DbDown, DbUp, Tick, A!Next
<1>4. CASE ClockStep
  BY <1>4 DEF ClockStep, A!Next
<1>5. CASE Start \/ Shutdown \/ Killed
  BY <1>5 DEF Start, Shutdown, Killed, A!Next
<1>6. CASE Signal \/ EnterProcess \/ ProcessReturns
  BY <1>6, TableVars DEF Signal, EnterProcess, ProcessReturns
<1>7. CASE AlarmRequest
  BY <1>7 DEF AlarmRequest, A!Next
<1>8. CASE AlarmStep
  BY <1>8 DEF AlarmStep, A!Next
<1>9. CASE EventRequest \/ EventStep
  <2>1. aPc = "idle" /\ UNCHANGED aVars
    BY <1>9 DEF EventRequest, EventStep, OtherIdle
  <2>2. /\ dbUp' = dbUp
        /\ handle' = handle \/ (handle # "ok" /\ handle' = E!RenewedHandle)
    <3>1. CASE EventRequest
      BY <3>1, EventStepSession DEF EventRequest
    <3>2. CASE EventStep
      BY <3>2, EventStepSession DEF EventStep
    <3> QED BY <1>9, <3>1, <3>2
  <2>3. CASE handle' = handle
    BY <2>1, <2>2, <2>3, TableVars
  <2>4. CASE handle # "ok" /\ handle' = E!RenewedHandle
    <3>1. A!SessionRenewed
      BY <2>1, <2>2, <2>4, OtherSession
    <3> QED BY <3>1 DEF A!Next
  <2> QED BY <2>2, <2>3, <2>4
<1>10. CASE Crash
  BY <1>10 DEF Crash, A!Next, A!AgentStep
<1>11. CASE UNCHANGED vars
  BY <1>11, TableVars DEF vars
<1> QED BY <1>1, <1>2, <1>3, <1>4, <1>5, <1>6, <1>7, <1>8, <1>9, <1>10, <1>11
       DEF Next, RowsStay

\* The fm-subagent implements AlarmTable with the active alarms: sharing the
\* session with the event log table costs the alarm table no guarantee.
THEOREM AlarmTableRefined == Spec => AlarmTableKept
<1>1. Init => A!Init
  BY DEF Init
<1> QED BY <1>1, AlarmTableStep, PTL DEF Spec, AlarmTableKept, A!Spec
-----------------------------------------------------------------------------
\* Every step of the subagent is a step of the event log table, or none.
LEMMA EventTableStep == [Next]_vars => [E!Next]_E!vars
<1> SUFFICES ASSUME [Next]_vars PROVE E!Next \/ UNCHANGED E!vars
  OBVIOUS
<1>1. CASE LogsChange
  BY <1>1 DEF LogsChange, E!Next
<1>2. CASE AlarmsChange
  BY <1>2, AlarmsDoNotTouchSession, TableVars DEF AlarmsChange
<1>3. CASE DbDown \/ DbUp \/ Tick
  BY <1>3 DEF DbDown, DbUp, Tick, E!Next
<1>4. CASE ClockStep
  BY <1>4 DEF ClockStep, E!Next
<1>5. CASE Start \/ Shutdown \/ Killed
  BY <1>5 DEF Start, Shutdown, Killed, E!Next
<1>6. CASE Signal \/ EnterProcess \/ ProcessReturns
  BY <1>6, TableVars DEF Signal, EnterProcess, ProcessReturns
<1>7. CASE EventRequest
  BY <1>7 DEF EventRequest, E!Next
<1>8. CASE EventStep
  BY <1>8 DEF EventStep, E!Next
<1>9. CASE AlarmRequest \/ AlarmStep
  <2>1. ePc = "idle" /\ UNCHANGED eVars
    BY <1>9 DEF AlarmRequest, AlarmStep, OtherIdle
  <2>2. /\ dbUp' = dbUp
        /\ handle' = handle \/ (handle # "ok" /\ handle' = E!RenewedHandle)
    <3>1. CASE AlarmRequest
      BY <3>1, AlarmStepSession, OtherSession DEF AlarmRequest
    <3>2. CASE AlarmStep
      BY <3>2, AlarmStepSession, OtherSession DEF AlarmStep
    <3> QED BY <1>9, <3>1, <3>2
  <2>3. CASE handle' = handle
    BY <2>1, <2>2, <2>3, TableVars
  <2>4. CASE handle # "ok" /\ handle' = E!RenewedHandle
    <3>1. E!SessionRenewed
      BY <2>1, <2>2, <2>4, OtherSession
    <3> QED BY <3>1 DEF E!Next
  <2> QED BY <2>2, <2>3, <2>4
<1>10. CASE Crash
  BY <1>10 DEF Crash, E!Next, E!AgentStep
<1>11. CASE UNCHANGED vars
  BY <1>11, TableVars DEF vars
<1> QED BY <1>1, <1>2, <1>3, <1>4, <1>5, <1>6, <1>7, <1>8, <1>9, <1>10, <1>11
       DEF Next, RowsStay

\* The same for the event logs.
THEOREM EventTableRefined == Spec => EventTableKept
<1>1. Init => E!Init
  BY DEF Init
<1> QED BY <1>1, EventTableStep, PTL DEF Spec, EventTableKept, E!Spec
-----------------------------------------------------------------------------
(* The guarantees of the tables: AlarmTable's theorems carry over.         *)

AP == INSTANCE AlarmTableProofs WITH
       MINLOADFREQ <- ALARM_MINLOADFREQ,
       db <- aDb, pc <- aPc, alarmList <- aList, count <- aCount,
       loadAge <- aLoadAge, scanAge <- aScanAge, caller <- aCaller,
       index <- aIndex, try <- aTry, alrm <- aRow, goneFor <- aGone,
       recent <- aRecent, calmFor <- aCalm, calmRequest <- aCalmRequest

\* What FreshRows and CalmIsExact assume of the constants.
LEMMA AlarmRowsRightAssumption == AP!AlarmTableAssumption
  BY FmSubagentAssumption
     DEF AP!AlarmTableAssumption, AP!IsFiniteSet, IsFiniteSet

\* A and AP are the same instance of AlarmTable: their requests take the same
\* steps, and so do their tables.
LEMMA AlarmRowsRightSameStep == A!AgentStep <=> AP!AgentStep
  BY DEF A!AgentStep, AP!AgentStep, A!GetCount, AP!GetCount, A!Lookup,
         AP!Lookup, A!SkipReload, AP!SkipReload, A!BeginLoad, AP!BeginLoad,
         A!QueryAnswered, AP!QueryAnswered, A!QueryTruncated,
         AP!QueryTruncated, A!QueryFails, AP!QueryFails, A!QueryCrashes,
         AP!QueryCrashes, A!WalkToCount, AP!WalkToCount, A!WalkToIndex,
         AP!WalkToIndex, A!Disturbed, AP!Disturbed, A!RequestOver,
         AP!RequestOver, A!CountIsOld, AP!CountIsOld, A!LoadIsRecent,
         AP!LoadIsRecent, A!OldListFreed, AP!OldListFreed, A!RenewedHandle,
         AP!RenewedHandle, A!NextTry, AP!NextTry, A!RowReached, AP!RowReached,
         A!Enumerations, AP!Enumerations, A!Cardinality, AP!Cardinality,
         A!dbVars, AP!dbVars, A!listVars, AP!listVars, A!ageVars, AP!ageVars,
         A!reqVars, AP!reqVars, A!ghosts, AP!ghosts

LEMMA AlarmRowsRightSameSpec == A!Spec => AP!Spec
<1>1. A!Init <=> AP!Init
  BY DEF A!Init, AP!Init
<1>2. A!Next <=> AP!Next
  BY AlarmRowsRightSameStep
     DEF A!Next, AP!Next, A!Raise, AP!Raise, A!Clear, AP!Clear, A!DbDown,
         AP!DbDown, A!DbUp, AP!DbUp, A!Tick, AP!Tick, A!ClockStep,
         AP!ClockStep, A!Start, AP!Start, A!Stop, AP!Stop, A!SessionRenewed,
         AP!SessionRenewed, A!Request, AP!Request, A!Disturbed, AP!Disturbed,
         A!RequestOver, AP!RequestOver, A!RenewedHandle, AP!RenewedHandle,
         A!Capped, AP!Capped, A!Calm, AP!Calm, A!dbVars, AP!dbVars, A!listVars,
         AP!listVars, A!ageVars, AP!ageVars, A!reqVars, AP!reqVars, A!ghosts,
         AP!ghosts
<1> QED BY <1>1, <1>2, PTL DEF A!Spec, AP!Spec, A!vars, AP!vars

\* A row of the active alarm table is fresh, and exact in calm, whatever the
\* event log table does to the session meanwhile.
THEOREM AlarmRowsRight == Spec => A!ServedFresh /\ A!CalmTableExact
<1>1. AP!Spec => AP!ServedFresh /\ AP!CalmTableExact
  BY AlarmRowsRightAssumption, AP!FreshRows, AP!CalmIsExact
<1>2. AP!ServedFresh <=> A!ServedFresh
  BY PTL DEF A!ServedFresh, AP!ServedFresh, A!RowServed, AP!RowServed,
             A!vars, AP!vars
<1>3. AP!CalmTableExact <=> A!CalmTableExact
  BY PTL DEF A!CalmTableExact, AP!CalmTableExact, A!RowServed, AP!RowServed,
             A!vars, AP!vars, A!Enumerations, AP!Enumerations,
             A!Cardinality, AP!Cardinality
<1> QED BY <1>1, <1>2, <1>3, AlarmTableRefined, AlarmRowsRightSameSpec DEF AlarmTableKept

\* A request for the active alarm table ends after at most 2 * retryCount + 6 steps
\* of the subagent's thread, whatever the other table does to the session.
LEMMA AlarmRequestsBounded == Spec => A!RequestBounded
<1>1. AP!Spec => AP!RequestBounded
  BY AlarmRowsRightAssumption, AP!RequestsAreBounded
<1>2. A!StepsLeft = AP!StepsLeft
  BY DEF A!StepsLeft, AP!StepsLeft
<1>3. AP!StepsLeft' = A!StepsLeft'
  BY DEF A!StepsLeft, AP!StepsLeft
<1>4. AP!StepsLeft' \in 0 .. 2 * retryCount + 6
      <=> A!StepsLeft' \in 0 .. 2 * retryCount + 6
  BY <1>3
<1>5. AP!StepsLeft' > AP!StepsLeft <=> A!StepsLeft' > A!StepsLeft
  BY <1>2, <1>3
<1>6. AP!StepsLeft' < AP!StepsLeft <=> A!StepsLeft' < A!StepsLeft
  BY <1>2, <1>3
<1>7. AP!RequestBounded <=> A!RequestBounded
  BY <1>4, <1>5, <1>6, AlarmRowsRightSameStep, PTL
     DEF A!RequestBounded, AP!RequestBounded, A!vars, AP!vars
<1> QED BY <1>1, <1>7, AlarmTableRefined, AlarmRowsRightSameSpec DEF AlarmTableKept

EP == INSTANCE AlarmTableProofs WITH
       Alarm <- Log, NoAlarm <- NoLog, MINLOADFREQ <- EVENT_MINLOADFREQ,
       db <- eDb, pc <- ePc, alarmList <- eList, count <- eCount,
       loadAge <- eLoadAge, scanAge <- eScanAge, caller <- eCaller,
       index <- eIndex, try <- eTry, alrm <- eRow, goneFor <- eGone,
       recent <- eRecent, calmFor <- eCalm, calmRequest <- eCalmRequest

\* What FreshRows and CalmIsExact assume of the constants.
LEMMA LogRowsRightAssumption == EP!AlarmTableAssumption
  BY FmSubagentAssumption
     DEF EP!AlarmTableAssumption, EP!IsFiniteSet, IsFiniteSet

\* E and EP are the same instance of AlarmTable: their requests take the same
\* steps, and so do their tables.
LEMMA LogRowsRightSameStep == E!AgentStep <=> EP!AgentStep
  BY DEF E!AgentStep, EP!AgentStep, E!GetCount, EP!GetCount, E!Lookup,
         EP!Lookup, E!SkipReload, EP!SkipReload, E!BeginLoad, EP!BeginLoad,
         E!QueryAnswered, EP!QueryAnswered, E!QueryTruncated,
         EP!QueryTruncated, E!QueryFails, EP!QueryFails, E!QueryCrashes,
         EP!QueryCrashes, E!WalkToCount, EP!WalkToCount, E!WalkToIndex,
         EP!WalkToIndex, E!Disturbed, EP!Disturbed, E!RequestOver,
         EP!RequestOver, E!CountIsOld, EP!CountIsOld, E!LoadIsRecent,
         EP!LoadIsRecent, E!OldListFreed, EP!OldListFreed, E!RenewedHandle,
         EP!RenewedHandle, E!NextTry, EP!NextTry, E!RowReached, EP!RowReached,
         E!Enumerations, EP!Enumerations, E!Cardinality, EP!Cardinality,
         E!dbVars, EP!dbVars, E!listVars, EP!listVars, E!ageVars, EP!ageVars,
         E!reqVars, EP!reqVars, E!ghosts, EP!ghosts

LEMMA LogRowsRightSameSpec == E!Spec => EP!Spec
<1>1. E!Init <=> EP!Init
  BY DEF E!Init, EP!Init
<1>2. E!Next <=> EP!Next
  BY LogRowsRightSameStep
     DEF E!Next, EP!Next, E!Raise, EP!Raise, E!Clear, EP!Clear, E!DbDown,
         EP!DbDown, E!DbUp, EP!DbUp, E!Tick, EP!Tick, E!ClockStep,
         EP!ClockStep, E!Start, EP!Start, E!Stop, EP!Stop, E!SessionRenewed,
         EP!SessionRenewed, E!Request, EP!Request, E!Disturbed, EP!Disturbed,
         E!RequestOver, EP!RequestOver, E!RenewedHandle, EP!RenewedHandle,
         E!Capped, EP!Capped, E!Calm, EP!Calm, E!dbVars, EP!dbVars, E!listVars,
         EP!listVars, E!ageVars, EP!ageVars, E!reqVars, EP!reqVars, E!ghosts,
         EP!ghosts
<1> QED BY <1>1, <1>2, PTL DEF E!Spec, EP!Spec, E!vars, EP!vars

\* The same for a row of the event log table, with its own reload limit.
THEOREM LogRowsRight == Spec => E!ServedFresh /\ E!CalmTableExact
<1>1. EP!Spec => EP!ServedFresh /\ EP!CalmTableExact
  BY LogRowsRightAssumption, EP!FreshRows, EP!CalmIsExact
<1>2. EP!ServedFresh <=> E!ServedFresh
  BY PTL DEF E!ServedFresh, EP!ServedFresh, E!RowServed, EP!RowServed,
             E!vars, EP!vars
<1>3. EP!CalmTableExact <=> E!CalmTableExact
  BY PTL DEF E!CalmTableExact, EP!CalmTableExact, E!RowServed, EP!RowServed,
             E!vars, EP!vars, E!Enumerations, EP!Enumerations,
             E!Cardinality, EP!Cardinality
<1> QED BY <1>1, <1>2, <1>3, EventTableRefined, LogRowsRightSameSpec DEF EventTableKept

\* A request for the event log table ends after at most 2 * retryCount + 6 steps
\* of the subagent's thread, whatever the other table does to the session.
LEMMA LogRequestsBounded == Spec => E!RequestBounded
<1>1. EP!Spec => EP!RequestBounded
  BY LogRowsRightAssumption, EP!RequestsAreBounded
<1>2. E!StepsLeft = EP!StepsLeft
  BY DEF E!StepsLeft, EP!StepsLeft
<1>3. EP!StepsLeft' = E!StepsLeft'
  BY DEF E!StepsLeft, EP!StepsLeft
<1>4. EP!StepsLeft' \in 0 .. 2 * retryCount + 6
      <=> E!StepsLeft' \in 0 .. 2 * retryCount + 6
  BY <1>3
<1>5. EP!StepsLeft' > EP!StepsLeft <=> E!StepsLeft' > E!StepsLeft
  BY <1>2, <1>3
<1>6. EP!StepsLeft' < EP!StepsLeft <=> E!StepsLeft' < E!StepsLeft
  BY <1>2, <1>3
<1>7. EP!RequestBounded <=> E!RequestBounded
  BY <1>4, <1>5, <1>6, LogRowsRightSameStep, PTL
     DEF E!RequestBounded, EP!RequestBounded, E!vars, EP!vars
<1> QED BY <1>1, <1>7, EventTableRefined, LogRowsRightSameSpec DEF EventTableKept

\* The loads of both tables end on one session, of which each table may leave the
\* other a dead handle at any time, for any retryCount and any behaviour of the
\* database.
THEOREM RequestsOfBothBounded == Spec => RequestsBounded
  BY AlarmRequestsBounded, LogRequestsBounded, PTL DEF RequestsBounded
=============================================================================
