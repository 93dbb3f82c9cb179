------------------------------ MODULE FmSubagent ------------------------------
(***************************************************************************)
(* The fm-subagent: its main loop (snmpSubAgent.c), the active alarm table *)
(* (snmpActiveAlarms.c) and the event log table (snmpEventLogs.c), which   *)
(* share one thread, the clocks, and the one session to the fault          *)
(* manager's database (snmpAgentPlugin.c).                                 *)
(*                                                                         *)
(* The two tables are the same code with different reload limits; both are *)
(* instances of AlarmTable.  Each destroys and creates the session that    *)
(* the other uses too when a query of its own fails.                       *)
(***************************************************************************)
EXTENDS Integers, Sequences, FiniteSets

CONSTANTS
  Alarm, NoAlarm,     \* the alarms there may be, and the empty row
  Log, NoLog,         \* the event logs there may be, and the empty row
  MaxIndex,           \* bound: the largest index asked for
  ALARM_MINLOADFREQ,  \* MINLOADFREQ of snmpActiveAlarms.c: 1
  EVENT_MINLOADFREQ,  \* MINLOADFREQ of snmpEventLogs.c: 2
  COUNT_TTL, retryCount, ClockBack  \* as in AlarmTable

ASSUME FmSubagentAssumption ==
  /\ IsFiniteSet(Alarm) /\ NoAlarm \notin Alarm
  /\ IsFiniteSet(Log) /\ NoLog \notin Log
  /\ MaxIndex \in Nat /\ COUNT_TTL \in Nat
  /\ ALARM_MINLOADFREQ \in Nat \ {0} /\ EVENT_MINLOADFREQ \in Nat \ {0}
  /\ retryCount \in Nat \ {0, 1} /\ ClockBack \in Nat

VARIABLES
  main,          \* "down", "test" (of the loop's condition) or "process"
  keep_running,
  dbUp, handle,  \* the database and alm_handle
  \* the variables of the active alarm table, named as in AlarmTable
  aDb, aPc, aList, aCount, aLoadAge, aScanAge, aCaller, aIndex, aTry, aRow,
  aGone, aRecent, aCalm, aCalmRequest,
  \* those of the event log table
  eDb, ePc, eList, eCount, eLoadAge, eScanAge, eCaller, eIndex, eTry, eRow,
  eGone, eRecent, eCalm, eCalmRequest

mainVars == <<main, keep_running>>
aVars == <<aDb, aPc, aList, aCount, aLoadAge, aScanAge, aCaller, aIndex, aTry,
           aRow, aGone, aRecent, aCalm, aCalmRequest>>
eVars == <<eDb, ePc, eList, eCount, eLoadAge, eScanAge, eCaller, eIndex, eTry,
           eRow, eGone, eRecent, eCalm, eCalmRequest>>
vars == <<main, keep_running, dbUp, handle, aVars, eVars>>

A == INSTANCE AlarmTable WITH
       MINLOADFREQ <- ALARM_MINLOADFREQ,
       db <- aDb, pc <- aPc, alarmList <- aList, count <- aCount,
       loadAge <- aLoadAge, scanAge <- aScanAge, caller <- aCaller,
       index <- aIndex, try <- aTry, alrm <- aRow, goneFor <- aGone,
       recent <- aRecent, calmFor <- aCalm, calmRequest <- aCalmRequest

E == INSTANCE AlarmTable WITH
       Alarm <- Log, NoAlarm <- NoLog, MINLOADFREQ <- EVENT_MINLOADFREQ,
       db <- eDb, pc <- ePc, alarmList <- eList, count <- eCount,
       loadAge <- eLoadAge, scanAge <- eScanAge, caller <- eCaller,
       index <- eIndex, try <- eTry, alrm <- eRow, goneFor <- eGone,
       recent <- eRecent, calmFor <- eCalm, calmRequest <- eCalmRequest

Init == main = "down" /\ keep_running = FALSE /\ A!Init /\ E!Init
-----------------------------------------------------------------------------
(* The world around the subagent.                                          *)

\* The fault manager raises and clears alarms, and writes and purges logs.
AlarmsChange ==
  /\ \E a \in Alarm : A!Raise(a) \/ A!Clear(a)
  /\ UNCHANGED <<mainVars, eVars>>

LogsChange ==
  /\ \E l \in Log : E!Raise(l) \/ E!Clear(l)
  /\ UNCHANGED <<mainVars, aVars>>

DbDown == A!DbDown /\ E!DbDown /\ UNCHANGED mainVars

DbUp == A!DbUp /\ E!DbUp /\ UNCHANGED mainVars

\* Each table measures its ages on the same clocks.
Tick == A!Tick /\ E!Tick /\ UNCHANGED mainVars

ClockStep ==
  /\ \E a, e \in -ClockBack .. COUNT_TTL + 1 : A!ClockStep(a) /\ E!ClockStep(e)
  /\ UNCHANGED mainVars
-----------------------------------------------------------------------------
(* The main program.                                                       *)

\* main up to its loop; without a session it exits, and is started again.
Start ==
  /\ main = "down"
  /\ A!Start /\ E!Start
  /\ main' = "test" /\ keep_running' = TRUE

\* stop_server: only the variable changes.
Signal ==
  /\ main # "down"
  /\ keep_running' = FALSE
  /\ UNCHANGED <<main, dbUp, handle, aVars, eVars>>

\* A slip: the loop is left to the signal's default action.
LoopForEver == TRUE

LoopGoesOn == keep_running

EnterProcess ==
  /\ main = "test"
  /\ LoopGoesOn
  /\ main' = "process"
  /\ UNCHANGED <<keep_running, dbUp, handle, aVars, eVars>>

\* snmp_shutdown and deinit_snmpAgentPlugin.
Shutdown ==
  /\ main = "test"
  /\ ~LoopGoesOn
  /\ A!Stop /\ E!Stop
  /\ main' = "down"
  /\ UNCHANGED keep_running

\* agent_check_and_process has handled what was ready, or its select was
\* interrupted by the signal.
ProcessReturns ==
  /\ main = "process"
  /\ aPc = "idle" /\ ePc = "idle"
  /\ main' = "test"
  /\ UNCHANGED <<keep_running, dbUp, handle, aVars, eVars>>

\* The container is killed.
Killed ==
  /\ main # "down"
  /\ A!Stop /\ E!Stop
  /\ main' = "down"
  /\ UNCHANGED keep_running
-----------------------------------------------------------------------------
(* One thread: a table is called, and goes on, while the other is idle.    *)

OtherIdle(pc) == pc = "idle"

AlarmRequest ==
  /\ main = "process"
  /\ OtherIdle(ePc)
  /\ \E exact \in BOOLEAN, k \in 0 .. MaxIndex : A!Request(exact, k)
  /\ UNCHANGED <<mainVars, eVars>>

EventRequest ==
  /\ main = "process"
  /\ OtherIdle(aPc)
  /\ \E exact \in BOOLEAN, k \in 0 .. MaxIndex : E!Request(exact, k)
  /\ UNCHANGED <<mainVars, aVars>>

\* Only a query that fails changes the session, and so the other table.
AlarmStep ==
  /\ OtherIdle(ePc)
  /\ A!AgentStep /\ ~A!QueryCrashes
  /\ UNCHANGED <<mainVars, eVars>>

EventStep ==
  /\ OtherIdle(aPc)
  /\ E!AgentStep /\ ~E!QueryCrashes
  /\ UNCHANGED <<mainVars, aVars>>

\* The process dies when a query uses a destroyed session.
Crash ==
  /\ \/ A!QueryCrashes /\ E!Stop
     \/ E!QueryCrashes /\ A!Stop
  /\ main' = "down"
  /\ UNCHANGED keep_running
-----------------------------------------------------------------------------
\* Everything but a change of the tables' contents in the database.
RowsStay ==
  \/ DbDown \/ DbUp \/ Tick \/ ClockStep
  \/ Start \/ Signal \/ EnterProcess \/ Shutdown \/ ProcessReturns \/ Killed
  \/ AlarmRequest \/ EventRequest \/ AlarmStep \/ EventStep \/ Crash

Next == AlarmsChange \/ LogsChange \/ RowsStay

Spec == Init /\ [][Next]_vars

\* Nothing holds the thread up.  A call of agent_check_and_process serves the
\* packets that are ready, not those that arrive meanwhile, and returns.
Fairness ==
  /\ WF_vars(AlarmStep) /\ WF_vars(EventStep)
  /\ WF_vars(EnterProcess) /\ WF_vars(Shutdown)
  /\ SF_vars(ProcessReturns)

FairSpec == Spec /\ Fairness
-----------------------------------------------------------------------------
(* Properties.                                                             *)

\* To the active alarm table, the event log table and the main loop are no
\* more than the events AlarmTable allows for, so that whatever AlarmTable
\* guarantees the fm-subagent guarantees.  In particular a session that the
\* other table has renewed works only if the database answered, and none
\* changes hands while a request of this table is going on (SessionRenewed).
AlarmTableKept == A!Spec

\* The same for the event log table.
EventTableKept == E!Spec

\* "In case we recevie a request to stop (kill -TERM or kill -INT)"
\* (snmpSubAgent.c:186): a process that was signalled ends, also when a query
\* is going on or the database is down.
StopHonoured == main # "down" /\ ~keep_running ~> main = "down"

AtWork(pc) == pc \notin {"idle", "down"}

\* Every request is answered, or the process ends, also when the database is
\* down and both tables wear out the session: a load gives up after retryCount
\* queries, whoever has renewed the session in between.
RequestsAnswered ==
  AtWork(aPc) \/ AtWork(ePc) ~> ~AtWork(aPc) /\ ~AtWork(ePc)

\* The part of this that needs no fairness: a request for either table takes a
\* bounded number of steps of the thread (AlarmTable), though the other table
\* renews and loses the session on which it repeats its queries.
RequestsBounded == A!RequestBounded /\ E!RequestBounded
=============================================================================
