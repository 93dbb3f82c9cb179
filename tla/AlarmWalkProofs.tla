---------------------------- MODULE AlarmWalkProofs ----------------------------
(***************************************************************************)
(* What a walk in calm returns, for any number of alarms and however often *)
(* the table is loaded under it, checked by TLAPS.                         *)
(***************************************************************************)
EXTENDS AlarmWalk, AlarmTableProofs

WalkType == /\ asked \in BOOLEAN /\ quiet \in BOOLEAN /\ changed \in BOOLEAN
            /\ seen \in Seq(Alarm \cup {NoAlarm})

\* What a walk in calm knows: its requests are calm, they ask for the row
\* after those it has seen, and these are active.
QuietInv ==
  quiet =>
    /\ calmFor = Calm
    /\ Len(seen) <= Cardinality(db)
    /\ \A i \in 1 .. Len(seen) : seen[i] \in db
    /\ asked /\ pc \notin {"down", "idle"} =>
         calmRequest /\ index = Len(seen) + 1

\* As long as the list stays, the rows seen are its first rows.
SameListInv ==
  quiet /\ ~changed /\ seen # << >> =>
    /\ ListGood
    /\ \A i \in 1 .. Len(seen) : seen[i] = alarmList[i]

WInv == IInv /\ WalkType /\ QuietInv /\ SameListInv
-----------------------------------------------------------------------------
\* The walk's steps are steps of the table.
LEMMA TableStep == [WalkStep]_allVars => [Next]_vars
<1> SUFFICES ASSUME [WalkStep]_allVars PROVE [Next]_vars
  OBVIOUS
<1>1. CASE WalkNext
  BY <1>1 DEF WalkNext, Next
<1>2. CASE OtherRequest
  BY <1>2 DEF OtherRequest, Next
<1>3. CASE RowReturned \/ WalkEnds
  BY <1>3 DEF RowReturned, WalkEnds, Next, AgentStep
<1>4. CASE Between
  BY <1>4 DEF Between, Next, AgentStep
<1>5. CASE UNCHANGED allVars
  BY <1>5 DEF allVars
<1> QED BY <1>1, <1>2, <1>3, <1>4, <1>5 DEF WalkStep

\* What a calm request is answered: the row of its index in a list of exactly
\* the active alarms, or nothing when there is no such row.
LEMMA CalmRow ==
  ASSUME IInv, WalkToIndex, calmRequest
  PROVE  /\ ListGood
         /\ index \in 1 .. Cardinality(db)
         /\ alrm' = alarmList[index] /\ alrm' \in db
<1>1. ListGood /\ CountGood /\ index \in 1 .. count
  BY DEF WalkToIndex, IInv, CalmInv, IndexInv
<1>2. alarmList \in Seq(db) /\ Len(alarmList) = Cardinality(db)
  BY <1>1, DbFinite, EnumerationIsSeq DEF ListGood, IInv
<1>3. index \in 1 .. Len(alarmList) /\ Len(alarmList) \in Nat
  BY <1>1, <1>2 DEF CountGood
<1>4. alarmList # << >> /\ RowReached = alarmList[index]
  BY <1>3 DEF RowReached
<1> QED BY <1>1, <1>2, <1>3, <1>4 DEF WalkToIndex

LEMMA CalmNoRow ==
  ASSUME IInv, Lookup, pc' = "idle", calmRequest
  PROVE  index \notin 1 .. Cardinality(db)
  BY DEF Lookup, IInv, CalmInv, CountGood

\* While it stays calm the database does not change, and a request stays calm.
LEMMA CalmKept ==
  ASSUME IInv, Next, calmFor' = Calm
  PROVE  /\ db' = db
         /\ pc' \notin {"down", "idle"} /\ pc \notin {"down", "idle"} =>
              calmRequest' = calmRequest /\ index' = index
         /\ pc \in {"down", "idle"} /\ pc' \notin {"down", "idle"} =>
              \E exact \in BOOLEAN, k \in 0 .. MaxIndex : Request(exact, k)
<1>1. Calm # 0
  BY CalmIsNat, AlarmTableAssumption
<1>2. CASE Tick \/ DbUp
  BY <1>2 DEF Tick, DbUp, dbVars, reqVars, ghosts
<1>3. CASE \/ \E a \in Alarm : Raise(a) \/ Clear(a)
           \/ DbDown \/ \E age \in -ClockBack .. COUNT_TTL + 1 : ClockStep(age)
           \/ QueryTruncated
  BY <1>1, <1>3 DEF Raise, Clear, DbDown, ClockStep, QueryTruncated, Disturbed
<1>4. CASE Start \/ Stop \/ SessionRenewed
  BY <1>4 DEF Start, Stop, SessionRenewed, dbVars
<1>5. CASE \E exact \in BOOLEAN, k \in 0 .. MaxIndex : Request(exact, k)
  BY <1>5 DEF Request, dbVars
<1>6. CASE AgentStep /\ ~QueryTruncated
  BY <1>6 DEF AgentStep, GetCount, Lookup, SkipReload, BeginLoad, QueryAnswered,
       QueryFails, QueryCrashes, WalkToCount, WalkToIndex, dbVars, reqVars,
       ghosts
<1> QED BY <1>2, <1>3, <1>4, <1>5, <1>6 DEF Next, AgentStep
-----------------------------------------------------------------------------
LEMMA WalkInitial == WalkInit => WInv
<1> SUFFICES ASSUME WalkInit PROVE WInv
  OBVIOUS
<1>1. asked \in BOOLEAN /\ quiet \in BOOLEAN /\ changed \in BOOLEAN /\ ~quiet
  BY Zenon DEF WalkInit
<1> QED BY <1>1, InitInv DEF WalkInit, WInv, WalkType, QuietInv, SameListInv

\* Only a request makes the table work.
LEMMA BetweenPoints ==
  ASSUME Between, pc \in {"down", "idle"}
  PROVE  pc' \in {"down", "idle"}
  BY DEF Between, Raise, Clear, DbDown, DbUp, Tick, ClockStep, Start, Stop,
         SessionRenewed, GetCount, SkipReload, BeginLoad, QueryAnswered,
         QueryTruncated, QueryFails, QueryCrashes, WalkToCount, Lookup,
         WalkToIndex

LEMMA WalkTypeStep == WInv /\ IInv' /\ [WalkStep]_allVars => WalkType'
<1> SUFFICES ASSUME WInv, IInv', [WalkStep]_allVars PROVE WalkType'
  OBVIOUS
<1> USE DEF WInv, WalkType, walkVars
<1>1. CASE WalkNext
  <2>1. asked' \in BOOLEAN /\ quiet' \in BOOLEAN
    BY <1>1, Zenon DEF WalkNext
  <2> QED BY <1>1, <2>1 DEF WalkNext
<1>2. CASE OtherRequest
  BY <1>2, Zenon DEF OtherRequest
<1>3. CASE RowReturned
  <2>1. asked' \in BOOLEAN /\ quiet' \in BOOLEAN /\ changed' \in BOOLEAN
    BY <1>3, Zenon DEF RowReturned
  <2>2. alrm' \in Alarm \cup {NoAlarm}
    BY DEF IInv, TypeOK
  <2>3. seen' \in Seq(Alarm \cup {NoAlarm})
    BY <1>3, <2>2 DEF RowReturned
  <2> QED BY <2>1, <2>3, Zenon
<1>4. CASE WalkEnds
  <2>1. asked' \in BOOLEAN /\ quiet' \in BOOLEAN /\ changed' \in BOOLEAN
    BY <1>4, Zenon DEF WalkEnds
  <2> QED BY <1>4, <2>1 DEF WalkEnds
<1>5. CASE Between
  <2>1. asked' \in BOOLEAN /\ quiet' \in BOOLEAN /\ changed' \in BOOLEAN
    BY <1>5, Zenon DEF Between, Observed
  <2> QED BY <1>5, <2>1 DEF Between
<1>6. CASE UNCHANGED allVars
  BY <1>6 DEF allVars
<1> QED BY <1>1, <1>2, <1>3, <1>4, <1>5, <1>6 DEF WalkStep

LEMMA QuietStep ==
  ASSUME WInv, IInv', WalkStep
  PROVE  QuietInv' /\ SameListInv'
<1> SUFFICES ASSUME quiet' PROVE QuietInv' /\ SameListInv'
  BY DEF QuietInv, SameListInv
<1>1. /\ IsFiniteSet(db) /\ Cardinality(db) \in Nat
      /\ Len(seen) \in Nat /\ seen \in Seq(Alarm \cup {NoAlarm})
  BY DbFinite DEF WInv, IInv, WalkType
<1>2. CASE WalkNext
  <2>1. /\ index' = Len(seen) + 1 /\ calmRequest' = (calmFor = Calm)
        /\ UNCHANGED <<db, calmFor, alarmList, seen, changed>>
    BY <1>2 DEF WalkNext, Request, dbVars, listVars
  <2>2. CASE seen = << >>
    <3>1. calmFor = Calm /\ Len(seen) = 0
      BY <1>2, <2>2 DEF WalkNext
    <3>2. SameListInv'
      BY <2>1, <2>2 DEF SameListInv
    <3>3. Len(seen') = 0 /\ calmFor' = Calm /\ calmRequest'
          /\ index' = Len(seen') + 1 /\ Cardinality(db') \in Nat
      BY <1>1, <2>1, <3>1
    <3>4. QuietInv'
      BY <3>3 DEF QuietInv
    <3> QED BY <3>2, <3>4
  <2>3. CASE seen # << >>
    <3>1. quiet
      BY <1>2, <2>3 DEF WalkNext
    <3> QED BY <1>1, <2>1, <2>3, <3>1 DEF WInv, QuietInv, SameListInv, ListGood
  <2> QED BY <2>2, <2>3
<1>3. CASE OtherRequest
  <2>1. quiet /\ ~asked' /\ UNCHANGED <<db, calmFor, alarmList, seen, changed>>
    BY <1>3 DEF OtherRequest, Request, dbVars, listVars
  <2> QED BY <2>1 DEF WInv, QuietInv, SameListInv, ListGood
<1>4. CASE RowReturned
  <2>1. /\ quiet /\ asked /\ pc' = "idle" /\ WalkToIndex /\ pc = "walk"
        /\ UNCHANGED <<db, calmFor, alarmList>> /\ seen' = Append(seen, alrm')
    BY <1>4 DEF RowReturned, WalkToIndex, dbVars
  <2>2. calmRequest /\ index = Len(seen) + 1
    BY <2>1 DEF WInv, QuietInv
  <2>3. /\ ListGood /\ index \in 1 .. Cardinality(db)
        /\ alrm' = alarmList[index] /\ alrm' \in db
    BY <2>1, <2>2, CalmRow DEF WInv
  <2>4. /\ Len(seen') = Len(seen) + 1 /\ seen'[Len(seen) + 1] = alrm'
        /\ \A i \in 1 .. Len(seen) : seen'[i] = seen[i]
    <3>1. alrm' \in Alarm \cup {NoAlarm}
      BY DEF IInv, TypeOK
    <3> QED BY <1>1, <2>1, <3>1
  <2>5. QuietInv'
    BY <1>1, <2>1, <2>2, <2>3, <2>4 DEF WInv, QuietInv
  <2>6. SameListInv'
    <3>1. CASE seen = << >>
      <4>1. Len(seen) = 0
        BY <3>1
      <4> QED BY <2>1, <2>2, <2>3, <2>4, <4>1 DEF SameListInv, ListGood
    <3>2. CASE seen # << >>
      <4>1. changed' = changed
        BY <1>4, <3>2 DEF RowReturned
      <4>2. ~changed => \A i \in 1 .. Len(seen) : seen[i] = alarmList[i]
        BY <2>1, <3>2 DEF WInv, SameListInv
      <4>3. ~changed => \A i \in 1 .. Len(seen') : seen'[i] = alarmList[i]
        BY <1>1, <2>2, <2>3, <2>4, <4>2
      <4> QED BY <2>1, <2>3, <4>1, <4>3 DEF SameListInv, ListGood
    <3> QED BY <3>1, <3>2
  <2> QED BY <2>5, <2>6
<1>5. CASE WalkEnds
  <2>1. quiet /\ pc' = "idle" /\ UNCHANGED <<db, calmFor>> /\ seen' = << >>
    BY <1>5 DEF WalkEnds, Lookup, dbVars
  <2>2. Len(seen') = 0
    BY <2>1
  <2> QED BY <1>1, <2>1, <2>2 DEF WInv, QuietInv, SameListInv
<1>6. CASE Between
  <2>1. /\ quiet /\ calmFor' = Calm /\ UNCHANGED <<asked, seen>>
        /\ ~changed' => ~changed /\ alarmList' = alarmList
    BY <1>6 DEF Between, Observed
  <2>2. Next
    BY <1>6 DEF Between, Next, AgentStep
  <2>3. /\ db' = db
        /\ pc' \notin {"down", "idle"} =>
             /\ pc \notin {"down", "idle"}
             /\ calmRequest' = calmRequest /\ index' = index
    BY <1>6, <2>1, <2>2, CalmKept, BetweenPoints DEF WInv
  <2> QED BY <2>1, <2>3 DEF WInv, QuietInv, SameListInv, ListGood
<1> QED BY <1>2, <1>3, <1>4, <1>5, <1>6 DEF WalkStep

LEMMA WalkInvariance == WalkSpec => []WInv
<1>1. WInv /\ [WalkStep]_allVars => WInv'
  <2> SUFFICES ASSUME WInv, [WalkStep]_allVars PROVE WInv'
    OBVIOUS
  <2>1. IInv'
    BY TableStep, StepInv DEF WInv
  <2>2. WalkType'
    BY <2>1, WalkTypeStep
  <2>3. QuietInv' /\ SameListInv'
    <3>1. CASE WalkStep
      BY <2>1, <3>1, QuietStep
    <3>2. CASE UNCHANGED allVars
      BY <3>2 DEF allVars, walkVars, vars, WInv, QuietInv, SameListInv, ListGood
    <3> QED BY <3>1, <3>2
  <2> QED BY <2>1, <2>2, <2>3 DEF WInv
<1> QED BY WalkInitial, <1>1, PTL DEF WalkSpec

\* When a walk in calm ends, the request that ended it asked for the row after
\* the last, and there was none.
LEMMA WalkEndsAtLast ==
  ASSUME WInv, WalkEnds, quiet
  PROVE  Len(seen) = Cardinality(db)
<1>1. Lookup /\ pc' = "idle" /\ asked /\ pc = "lookup"
  BY DEF WalkEnds, Lookup
<1>2. calmRequest /\ index = Len(seen) + 1 /\ Len(seen) <= Cardinality(db)
  BY <1>1 DEF WInv, QuietInv
<1>3. index \notin 1 .. Cardinality(db)
  BY <1>1, <1>2, CalmNoRow DEF WInv
<1>4. Len(seen) \in Nat /\ Cardinality(db) \in Nat
  BY DbFinite DEF WInv, WalkType, IInv
<1> QED BY <1>2, <1>3, <1>4

\* A walk in calm has the length of the table and returns active alarms only.
THEOREM WalksCount == WalkSpec => WalkCounts
<1>1. WInv /\ [WalkStep]_allVars =>
        [WalkEnds /\ quiet =>
           /\ Len(seen) = Cardinality(db)
           /\ \A i \in 1 .. Len(seen) : seen[i] \in db]_allVars
  BY WalkEndsAtLast DEF WInv, QuietInv
<1> QED BY <1>1, WalkInvariance, PTL DEF WalkSpec, WalkCounts

\* If the list has not changed under it, it returns each active alarm once.
THEOREM WalksAreComplete == WalkSpec => WalkComplete
<1>1. WInv /\ [WalkStep]_allVars =>
        [WalkEnds /\ quiet /\ ~changed => seen \in Enumerations(db)]_allVars
  <2> SUFFICES ASSUME WInv, WalkEnds, quiet, ~changed
               PROVE  seen \in Enumerations(db)
    OBVIOUS
  <2>1. Len(seen) = Cardinality(db)
    BY WalkEndsAtLast
  <2>2. /\ IsFiniteSet(db) /\ Cardinality(db) \in Nat
        /\ seen \in Seq(Alarm \cup {NoAlarm})
    BY DbFinite DEF WInv, WalkType, IInv
  <2>3. \A i \in 1 .. Len(seen) : seen[i] \in db
    BY DEF WInv, QuietInv
  <2>4. seen \in [1 .. Cardinality(db) -> db]
    BY <2>1, <2>2, <2>3
  <2>5. CASE seen = << >>
    <3>1. db = {}
      BY <2>1, <2>2, <2>5, FS_EmptySet
    <3> QED BY <2>4, <3>1 DEF Enumerations
  <2>6. CASE seen # << >>
    <3>1. ListGood /\ \A i \in 1 .. Len(seen) : seen[i] = alarmList[i]
      BY <2>6 DEF WInv, SameListInv
    <3>2. \A a \in db : \E i \in 1 .. Cardinality(db) : alarmList[i] = a
      BY <3>1 DEF ListGood, Enumerations
    <3> QED BY <2>1, <2>4, <3>1, <3>2 DEF Enumerations
  <2> QED BY <2>5, <2>6
<1> QED BY <1>1, WalkInvariance, PTL DEF WalkSpec, WalkComplete
=============================================================================
