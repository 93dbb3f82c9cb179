------------------------------- MODULE AlarmWalk -------------------------------
(***************************************************************************)
(* A manager that walks a column of the active alarm table: GETNEXT after  *)
(* GETNEXT, each from the row the one before has returned, until there is  *)
(* no next row.  Other managers ask for rows in between, and any of these  *)
(* requests may make the subagent load the table anew, in any order.       *)
(***************************************************************************)
EXTENDS AlarmTable

VARIABLES
  asked,   \* whether the request being served is the walker's
  seen,    \* the rows the walk has returned so far
  quiet,   \* the walk began in calm, and nothing has disturbed it
  changed  \* the list has changed since the walk's first row

walkVars == <<asked, seen, quiet, changed>>
allVars == <<vars, walkVars>>

WalkInit ==
  Init /\ asked = FALSE /\ seen = << >> /\ quiet = FALSE /\ changed = FALSE

\* What every step leaves behind for the walk's history.
Observed ==
  /\ quiet' = (quiet /\ calmFor' = Calm)
  /\ changed' = (changed \/ alarmList' # alarmList)

\* The walk asks for the row after the last one it has got.
WalkNext ==
  /\ \E k \in 0 .. MaxIndex : k = Len(seen) /\ Request(FALSE, k)
  /\ asked' = TRUE
  /\ quiet' = IF seen = << >> THEN calmFor = Calm ELSE quiet
  /\ UNCHANGED <<seen, changed>>

\* Another manager asks for any row.
OtherRequest ==
  /\ \E exact \in BOOLEAN, k \in 0 .. MaxIndex : Request(exact, k)
  /\ asked' = FALSE
  /\ UNCHANGED <<seen, quiet, changed>>

\* var_alarms returns a row to the walk.
RowReturned ==
  /\ asked
  /\ WalkToIndex
  /\ seen' = Append(seen, alrm')
  /\ changed' = IF seen = << >> THEN FALSE ELSE changed
  /\ UNCHANGED <<asked, quiet>>

\* var_alarms returns no row: the walk is over, and another may begin.
WalkEnds ==
  /\ asked
  /\ Lookup /\ pc' = "idle"
  /\ seen' = << >>
  /\ UNCHANGED <<asked, quiet, changed>>

Between ==
  /\ \/ \E a \in Alarm : Raise(a) \/ Clear(a)
     \/ DbDown \/ DbUp \/ Tick
     \/ \E age \in -ClockBack .. COUNT_TTL + 1 : ClockStep(age)
     \/ Start \/ Stop \/ SessionRenewed
     \/ GetCount \/ SkipReload \/ BeginLoad
     \/ QueryAnswered \/ QueryTruncated \/ QueryFails \/ QueryCrashes
     \/ WalkToCount
     \/ Lookup /\ pc' = "init"
     \/ ~asked /\ (WalkToIndex \/ Lookup)
  /\ Observed
  /\ UNCHANGED <<asked, seen>>

WalkStep == WalkNext \/ OtherRequest \/ RowReturned \/ WalkEnds \/ Between

WalkSpec == WalkInit /\ [][WalkStep]_allVars
-----------------------------------------------------------------------------
(* Properties.                                                             *)

\* A walk in calm is as long as the table, and every row of it is an active
\* alarm, however often the list is loaded meanwhile, by this walk's requests
\* or by others'.
WalkCounts ==
  [][WalkEnds /\ quiet =>
       /\ Len(seen) = Cardinality(db)
       /\ \A i \in 1 .. Len(seen) : seen[i] \in db]_allVars

\* When besides no load has put another list in place, the walk names every
\* active alarm once.
WalkComplete ==
  [][WalkEnds /\ quiet /\ ~changed => seen \in Enumerations(db)]_allVars
=============================================================================
