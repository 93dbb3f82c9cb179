-------------------------- MODULE AlarmTableProofs --------------------------
(***************************************************************************)
(* What AlarmTable guarantees for every set of alarms and every setting of *)
(* its time limits, checked by TLAPS.                                      *)
(***************************************************************************)
EXTENDS AlarmTable, FiniteSetTheorems, TLAPS

ListGood  == alarmList \in Enumerations(db)
CountGood == count = Cardinality(db)

(* The parts of the inductive invariant.                                   *)

\* Every row of the list is an active alarm, or was one when the list was
\* loaded; the list that a request walks holds only recent alarms.
FreshInv ==
  /\ \A i \in 1 .. Len(alarmList) :
       alarmList[i] \in db \/ goneFor[alarmList[i]] <= loadAge
  /\ pc \notin {"down", "idle"} =>
       \A a \in Alarm : a \in db \/ goneFor[a] < MINLOADFREQ => a \in recent
  /\ pc = "query" => alarmList = << >>
  /\ pc = "walk" => \A i \in 1 .. Len(alarmList) : alarmList[i] \in recent

\* It is not calm while the database is down, and a calm request finds it calm.
UpInv ==
  /\ ~dbUp => calmFor = 0
  /\ calmRequest => dbUp /\ calmFor = Calm

\* A list that is wrong was disturbed after it was loaded, or is too old to be
\* used again.
ListInv ==
  pc \notin {"down", "query"} =>
    ListGood \/ calmFor <= loadAge \/ loadAge = MINLOADFREQ

\* How recent a disturbance must be for the count to be wrong.
CountDisturbed == calmFor < scanAge + MINLOADFREQ + ClockBack

CountInv ==
  /\ pc \in {"idle", "count", "lookup"} => CountGood \/ CountDisturbed
  /\ pc \in {"init", "query", "walk"} /\ caller = "index" =>
       CountGood \/ CountDisturbed
  /\ pc = "walk" => ListGood \/ CountDisturbed

\* A load whose second query fails was disturbed while it lasted.
LoadInv ==
  pc = "query" /\ try > 0 /\ handle # "ok" =>
    /\ ~calmRequest
    /\ CountDisturbed
    /\ calmFor <= loadAge \/ loadAge = MINLOADFREQ

\* What a calm request has found so far.
CalmInv ==
  calmRequest =>
    /\ pc = "walk" => ListGood
    /\ pc = "lookup" => CountGood
    /\ pc \in {"init", "query", "walk"} /\ caller = "index" => CountGood

IndexInv ==
  pc \in {"init", "query", "walk"} /\ caller = "index" => index \in 1 .. count

TryInv == pc = "query" => try < retryCount

IInv == /\ TypeOK /\ FreshInv /\ UpInv /\ ListInv /\ CountInv /\ LoadInv
        /\ CalmInv /\ IndexInv /\ TryInv

-----------------------------------------------------------------------------
LEMMA EnumerationIsSeq ==
  ASSUME NEW S, IsFiniteSet(S), NEW s \in Enumerations(S)
  PROVE  s \in Seq(S) /\ Len(s) = Cardinality(S)
<1>1. Cardinality(S) \in Nat
  BY FS_CardinalityType
<1>2. s \in [1 .. Cardinality(S) -> S]
  BY DEF Enumerations
<1> QED BY <1>1, <1>2

LEMMA DbFinite == TypeOK => IsFiniteSet(db) /\ Cardinality(db) \in Nat
  BY FS_Subset, FS_CardinalityType, AlarmTableAssumption DEF TypeOK

LEMMA CalmIsNat ==
  /\ Calm \in Nat /\ Calm >= MINLOADFREQ
  /\ Calm = COUNT_TTL + MINLOADFREQ + ClockBack
  BY AlarmTableAssumption DEF Calm

\* The rows an answered query leaves in the list are rows of the database.
LEMMA QueryRows ==
  ASSUME TypeOK, QueryAnswered \/ QueryTruncated
  PROVE  alarmList' \in Seq(db)
<1>1. CASE QueryAnswered
  BY <1>1, DbFinite, EnumerationIsSeq DEF QueryAnswered
<1>2. CASE QueryTruncated
  <2>1. PICK s \in Enumerations(db) :
          \E n \in 0 .. Len(s) - 1 : alarmList' = SubSeq(s, 1, n)
    BY <1>2 DEF QueryTruncated
  <2>2. s \in Seq(db) /\ Len(s) \in Nat
    BY DbFinite, EnumerationIsSeq
  <2>3. PICK n \in Nat : n <= Len(s) /\ alarmList' = SubSeq(s, 1, n)
    BY <2>1, <2>2
  <2>4. SubSeq(s, 1, n) \in Seq(db)
    BY <2>2, <2>3
  <2> QED BY <2>3, <2>4
<1> QED BY <1>1, <1>2

\* The rows of the list are alarms, and the row served is one or the old one.
LEMMA RowType ==
  ASSUME TypeOK, IndexInv, pc = "walk", caller = "index"
  PROVE  /\ RowReached \in Alarm \cup {NoAlarm}
         /\ alarmList # << >> =>
              \E i \in 1 .. Len(alarmList) : RowReached = alarmList[i]
<1>1. index \in 1 .. count /\ count \in Nat
  BY DEF IndexInv, TypeOK
<1>2. CASE alarmList = << >>
  BY <1>2 DEF RowReached, TypeOK
<1>3. CASE alarmList # << >>
  <2>1. Len(alarmList) \in Nat /\ Len(alarmList) >= 1
    BY <1>3 DEF TypeOK
  <2>2. PICK i \in 1 .. Len(alarmList) : RowReached = alarmList[i]
    BY <1>1, <1>3, <2>1 DEF RowReached
  <2> QED BY <1>3, <2>2 DEF TypeOK
<1> QED BY <1>2, <1>3

LEMMA OverType ==
  ASSUME RequestOver
  PROVE  /\ caller' \in {"count", "index"} /\ index' \in 0 .. MaxIndex + 1
         /\ try' \in 0 .. retryCount /\ recent' \in SUBSET Alarm
         /\ calmRequest' \in BOOLEAN
<1>1. calmRequest' \in BOOLEAN
  BY Zenon DEF RequestOver
<1> QED BY <1>1, AlarmTableAssumption DEF RequestOver

LEMMA TypeStep == TypeOK /\ IndexInv /\ TryInv /\ [Next]_vars => TypeOK'
<1> SUFFICES ASSUME TypeOK, IndexInv, TryInv, [Next]_vars PROVE TypeOK'
  OBVIOUS
<1> USE AlarmTableAssumption, CalmIsNat
      DEF dbVars, listVars, ageVars, reqVars, ghosts, Disturbed, Capped, Point
<1>1. ASSUME NEW a \in Alarm, Raise(a) \/ Clear(a) PROVE TypeOK'
  <2>1. calmRequest' \in BOOLEAN /\ dbUp' \in BOOLEAN /\ (handle' = "ok" => dbUp')
    BY <1>1, Zenon DEF Raise, Clear, TypeOK
  <2>2. db' \in SUBSET Alarm /\ recent' \in SUBSET Alarm
    BY <1>1 DEF Raise, Clear, TypeOK
  <2>3. goneFor' \in [Alarm -> 0 .. MINLOADFREQ]
    BY <1>1 DEF Raise, Clear, TypeOK
  <2>4. calmFor' \in 0 .. Calm
    BY <1>1 DEF Raise, Clear
  <2> QED BY <1>1, <2>1, <2>2, <2>3, <2>4 DEF Raise, Clear, TypeOK
<1>2. CASE DbDown \/ DbUp
  <2>1. calmRequest' \in BOOLEAN /\ dbUp' \in BOOLEAN /\ (handle' = "ok" => dbUp')
    BY <1>2, Zenon DEF DbDown, DbUp, TypeOK
  <2>2. handle' \in {"ok", "broken", "dead"}
    BY <1>2 DEF DbDown, DbUp, TypeOK
  <2>3. calmFor' \in 0 .. Calm
    BY <1>2 DEF DbDown, DbUp, TypeOK
  <2> QED BY <1>2, <2>1, <2>2, <2>3 DEF DbDown, DbUp, TypeOK
<1>3. CASE Tick
  <2>1. goneFor' \in [Alarm -> 0 .. MINLOADFREQ]
    BY <1>3 DEF Tick, TypeOK
  <2>2. /\ loadAge' \in 0 .. MINLOADFREQ /\ scanAge' \in -ClockBack .. COUNT_TTL + 1
        /\ calmFor' \in 0 .. Calm
    BY <1>3 DEF Tick, TypeOK
  <2> QED BY <1>3, <2>1, <2>2 DEF Tick, TypeOK
<1>4. ASSUME NEW age \in -ClockBack .. COUNT_TTL + 1, ClockStep(age) PROVE TypeOK'
  <2>1. calmRequest' \in BOOLEAN /\ dbUp' \in BOOLEAN /\ (handle' = "ok" => dbUp')
    BY <1>4, Zenon DEF ClockStep, TypeOK
  <2>2. calmFor' \in 0 .. Calm
    BY <1>4 DEF ClockStep
  <2> QED BY <1>4, <2>1, <2>2 DEF ClockStep, TypeOK
<1>5. CASE Start \/ Stop \/ SessionRenewed
  <2>1. /\ handle' \in {"ok", "broken", "dead"} /\ pc' \in Point
        /\ handle' = "ok" => dbUp = TRUE
    BY <1>5 DEF Start, Stop, SessionRenewed, RenewedHandle, TypeOK, Point
  <2>2. calmRequest' \in BOOLEAN /\ dbUp' \in BOOLEAN /\ (handle' = "ok" => dbUp')
    <3>1. dbUp' = dbUp
      BY <1>5 DEF Start, Stop, SessionRenewed, dbVars
    <3>2. calmRequest' = calmRequest \/ RequestOver
      BY <1>5 DEF Start, Stop, SessionRenewed, ghosts
    <3> QED BY <2>1, <3>1, <3>2, OverType, Zenon DEF TypeOK
  <2>3. loadAge' \in 0 .. MINLOADFREQ /\ scanAge' \in -ClockBack .. COUNT_TTL + 1
    BY <1>5 DEF Start, Stop, SessionRenewed, TypeOK
  <2>4. alarmList' \in Seq(Alarm)
    <3>1. alarmList' = << >> \/ alarmList' = alarmList
      BY <1>5 DEF Start, Stop, SessionRenewed
    <3>2. << >> \in Seq(Alarm)
      OBVIOUS
    <3> QED BY <3>1, <3>2, Zenon DEF TypeOK
  <2>5. count' \in Nat /\ alrm' \in Alarm \cup {NoAlarm}
    BY <1>5 DEF Start, Stop, SessionRenewed, TypeOK
  <2>6. /\ caller' \in {"count", "index"} /\ index' \in 0 .. MaxIndex + 1
        /\ try' \in 0 .. retryCount /\ recent' \in SUBSET Alarm
    BY <1>5, OverType DEF Start, Stop, SessionRenewed, TypeOK
  <2> QED BY <1>5, <2>1, <2>2, <2>3, <2>4, <2>5, <2>6
          DEF Start, Stop, SessionRenewed, TypeOK
<1>6. ASSUME NEW exact \in BOOLEAN, NEW k \in 0 .. MaxIndex, Request(exact, k)
      PROVE TypeOK'
  <2>1. calmRequest' \in BOOLEAN /\ dbUp' \in BOOLEAN /\ (handle' = "ok" => dbUp')
    BY <1>6, Zenon DEF Request, TypeOK
  <2>2. index' \in 0 .. MaxIndex + 1
    BY <1>6 DEF Request
  <2>3. recent' \in SUBSET Alarm
    BY <1>6 DEF Request
  <2> QED BY <1>6, <2>1, <2>2, <2>3 DEF Request, TypeOK
<1>7. CASE GetCount \/ Lookup \/ SkipReload \/ BeginLoad
  <2>1. CASE GetCount
    BY <2>1 DEF GetCount, TypeOK
  <2>2. CASE Lookup
    <3>1. CASE index \in 1 .. count
      BY <2>2, <3>1 DEF Lookup, TypeOK
    <3>2. CASE index \notin 1 .. count
      BY <2>2, <3>2, OverType DEF Lookup, TypeOK
    <3> QED BY <3>1, <3>2
  <2>3. CASE SkipReload
    BY <2>3 DEF SkipReload, TypeOK
  <2>4. CASE BeginLoad
    <3>1. alarmList' \in Seq(Alarm) /\ loadAge' \in 0 .. MINLOADFREQ
      BY <2>4 DEF BeginLoad, OldListFreed
    <3>2. try' \in 0 .. retryCount
      BY <2>4 DEF BeginLoad
    <3> QED BY <2>4, <3>1, <3>2 DEF BeginLoad, TypeOK
  <2> QED BY <1>7, <2>1, <2>2, <2>3, <2>4
<1>8. CASE QueryAnswered \/ QueryTruncated
  <2>1. alarmList' \in Seq(Alarm)
    <3>1. alarmList' \in Seq(db) /\ db \subseteq Alarm
      BY <1>8, QueryRows DEF TypeOK
    <3> QED BY <3>1
  <2>2. calmRequest' \in BOOLEAN /\ dbUp' \in BOOLEAN /\ (handle' = "ok" => dbUp')
    BY <1>8, Zenon DEF QueryAnswered, QueryTruncated, TypeOK
  <2>3. calmFor' \in 0 .. Calm
    BY <1>8 DEF QueryAnswered, QueryTruncated, TypeOK
  <2> QED BY <1>8, <2>1, <2>2, <2>3 DEF QueryAnswered, QueryTruncated, TypeOK
<1>9. CASE QueryFails
  <2>1. try' \in 0 .. retryCount
    BY <1>9 DEF QueryFails, NextTry, TryInv, TypeOK
  <2>2. calmRequest' \in BOOLEAN /\ dbUp' \in BOOLEAN
    BY <1>9, Zenon DEF QueryFails, TypeOK
  <2>3. handle' \in {"ok", "dead"} /\ (handle' = "ok" => dbUp')
    BY <1>9 DEF QueryFails, RenewedHandle
  <2> QED BY <1>9, <2>1, <2>2, <2>3 DEF QueryFails, TypeOK
<1>10. CASE QueryCrashes \/ WalkToCount
  <2>1. CASE QueryCrashes
    BY <2>1, OverType DEF QueryCrashes, TypeOK
  <2>2. CASE WalkToCount
    <3>1. count' \in Nat
      BY <2>2 DEF WalkToCount, TypeOK
    <3> QED BY <2>2, <3>1 DEF WalkToCount, TypeOK
  <2> QED BY <1>10, <2>1, <2>2
<1>11. CASE WalkToIndex
  <2>1. alrm' \in Alarm \cup {NoAlarm}
    BY <1>11, RowType DEF WalkToIndex
  <2> QED BY <1>11, <2>1, OverType DEF WalkToIndex, TypeOK
<1>12. CASE UNCHANGED vars
  BY <1>12 DEF vars, TypeOK
<1> QED
  BY <1>1, <1>2, <1>3, <1>4, <1>5, <1>6, <1>7, <1>8, <1>9, <1>10, <1>11, <1>12
     DEF Next, AgentStep

-----------------------------------------------------------------------------
LEMMA IndexStep == TypeOK /\ IndexInv /\ TryInv /\ [Next]_vars => IndexInv' /\ TryInv'
<1> SUFFICES ASSUME TypeOK, IndexInv, TryInv, [Next]_vars
             PROVE  IndexInv' /\ TryInv'
  OBVIOUS
<1> USE AlarmTableAssumption
      DEF dbVars, listVars, ageVars, reqVars, ghosts, IndexInv, TryInv
<1>1. ASSUME NEW a \in Alarm, Raise(a) \/ Clear(a) PROVE IndexInv' /\ TryInv'
  BY <1>1 DEF Raise, Clear
<1>2. CASE DbDown \/ DbUp \/ Tick
  BY <1>2 DEF DbDown, DbUp, Tick
<1>3. ASSUME NEW age \in -ClockBack .. COUNT_TTL + 1, ClockStep(age)
      PROVE  IndexInv' /\ TryInv'
  BY <1>3 DEF ClockStep
<1>4. CASE Start \/ Stop \/ SessionRenewed
  BY <1>4 DEF Start, Stop, SessionRenewed
<1>5. ASSUME NEW exact \in BOOLEAN, NEW k \in 0 .. MaxIndex, Request(exact, k)
      PROVE  IndexInv' /\ TryInv'
  BY <1>5 DEF Request
<1>6. CASE GetCount \/ Lookup
  BY <1>6 DEF GetCount, Lookup
<1>7. CASE SkipReload \/ BeginLoad
  BY <1>7 DEF SkipReload, BeginLoad
<1>8. CASE QueryAnswered \/ QueryTruncated \/ QueryCrashes
  BY <1>8 DEF QueryAnswered, QueryTruncated, QueryCrashes
<1>9. CASE QueryFails
  BY <1>9 DEF QueryFails, NextTry, TypeOK
<1>10. CASE WalkToCount \/ WalkToIndex
  BY <1>10 DEF WalkToCount, WalkToIndex
<1>11. CASE UNCHANGED vars
  BY <1>11 DEF vars
<1> QED
  BY <1>1, <1>2, <1>3, <1>4, <1>5, <1>6, <1>7, <1>8, <1>9, <1>10, <1>11
     DEF Next, AgentStep

LEMMA UpStep == TypeOK /\ UpInv /\ [Next]_vars => UpInv'
<1> SUFFICES ASSUME TypeOK, UpInv, [Next]_vars PROVE UpInv'
  OBVIOUS
<1> USE DEF dbVars, listVars, ageVars, reqVars, ghosts, UpInv
<1>1. ASSUME NEW a \in Alarm, Raise(a) \/ Clear(a) PROVE UpInv'
  BY <1>1 DEF Raise, Clear, Disturbed
<1>2. CASE DbDown
  BY <1>2 DEF DbDown, Disturbed
<1>3. CASE DbUp
  <2>1. ~calmRequest
    BY <1>3 DEF DbUp
  <2> QED BY <1>3, <2>1 DEF DbUp
<1>4. CASE Tick
  <2>1. calmFor = Calm /\ dbUp => calmFor' = Calm
    BY <1>4, CalmIsNat DEF Tick, Capped
  <2> QED BY <1>4, <2>1 DEF Tick
<1>5. ASSUME NEW age \in -ClockBack .. COUNT_TTL + 1, ClockStep(age) PROVE UpInv'
  BY <1>5 DEF ClockStep, Disturbed
<1>6. CASE Start \/ Stop \/ SessionRenewed
  BY <1>6 DEF Start, Stop, SessionRenewed, RequestOver
<1>7. ASSUME NEW exact \in BOOLEAN, NEW k \in 0 .. MaxIndex, Request(exact, k)
      PROVE  UpInv'
  <2>1. Calm > 0
    BY CalmIsNat, AlarmTableAssumption
  <2>2. calmFor = Calm => dbUp
    BY <2>1
  <2>3. calmRequest' => calmFor = Calm
    BY <1>7 DEF Request
  <2> QED BY <1>7, <2>2, <2>3 DEF Request
<1>8. CASE AgentStep
  <2>1. CASE QueryTruncated
    BY <2>1 DEF QueryTruncated, Disturbed
  <2>2. CASE ~QueryTruncated
    <3>1. /\ dbUp' = dbUp /\ calmFor' = calmFor
          /\ calmRequest' = calmRequest \/ calmRequest' = FALSE
      BY <1>8, <2>2
         DEF AgentStep, GetCount, Lookup, SkipReload, BeginLoad, QueryAnswered,
             QueryFails, QueryCrashes, WalkToCount, WalkToIndex, RequestOver
    <3> QED BY <3>1
  <2> QED BY <2>1, <2>2
<1>9. CASE UNCHANGED vars
  BY <1>9 DEF vars
<1> QED
  BY <1>1, <1>2, <1>3, <1>4, <1>5, <1>6, <1>7, <1>8, <1>9 DEF Next

LEMMA FreshStep == TypeOK /\ FreshInv /\ [Next]_vars => FreshInv'
<1> SUFFICES ASSUME TypeOK, FreshInv, [Next]_vars PROVE FreshInv'
  OBVIOUS
<1> USE AlarmTableAssumption DEF dbVars, listVars, ageVars, reqVars, ghosts
<1>a. \A i \in 1 .. Len(alarmList) : alarmList[i] \in Alarm
  BY DEF TypeOK
<1>1. ASSUME NEW a \in Alarm, Raise(a) PROVE FreshInv'
  BY <1>1, <1>a DEF Raise, FreshInv
<1>2. ASSUME NEW a \in Alarm, Clear(a) PROVE FreshInv'
  <2>1. /\ \A b \in Alarm : goneFor'[b] = IF b = a THEN 0 ELSE goneFor[b]
        /\ loadAge \in Nat
    BY <1>2 DEF Clear, TypeOK
  <2> QED BY <1>2, <1>a, <2>1 DEF Clear, FreshInv
<1>3. CASE DbDown \/ DbUp
  BY <1>3 DEF DbDown, DbUp, FreshInv
<1>4. CASE Tick
  <2>1. \A a \in Alarm : /\ goneFor[a] \in Nat
                         /\ goneFor'[a] = Capped(goneFor[a] + 1, MINLOADFREQ)
    BY <1>4 DEF Tick, TypeOK
  <2>2. /\ loadAge \in Nat /\ loadAge' = Capped(loadAge + 1, MINLOADFREQ)
        /\ UNCHANGED <<db, pc, alarmList, recent>>
    BY <1>4 DEF Tick, TypeOK
  <2>3. \A a \in Alarm :
          /\ goneFor[a] <= loadAge => goneFor'[a] <= loadAge'
          /\ goneFor'[a] < MINLOADFREQ => goneFor[a] < MINLOADFREQ
    BY <2>1, <2>2 DEF Capped
  <2> QED BY <1>a, <2>2, <2>3 DEF FreshInv
<1>5. ASSUME NEW age \in -ClockBack .. COUNT_TTL + 1, ClockStep(age)
      PROVE  FreshInv'
  BY <1>5 DEF ClockStep, FreshInv
<1>6. CASE Start
  <2>1. pc' = "idle" /\ Len(alarmList') = 0
    BY <1>6 DEF Start
  <2> QED BY <2>1 DEF FreshInv
<1>7. CASE Stop \/ SessionRenewed \/ GetCount \/ Lookup
  BY <1>7 DEF Stop, SessionRenewed, GetCount, Lookup, FreshInv
<1>8. ASSUME NEW exact \in BOOLEAN, NEW k \in 0 .. MaxIndex, Request(exact, k)
      PROVE  FreshInv'
  BY <1>8 DEF Request, FreshInv
<1>9. CASE SkipReload
  <2>1. \A i \in 1 .. Len(alarmList) : alarmList[i] \in recent
    <3> SUFFICES ASSUME NEW i \in 1 .. Len(alarmList) PROVE alarmList[i] \in recent
      OBVIOUS
    <3>1. /\ alarmList[i] \in Alarm
          /\ alarmList[i] \in db \/ goneFor[alarmList[i]] < MINLOADFREQ
      BY <1>9, <1>a DEF SkipReload, LoadIsRecent, FreshInv, TypeOK
    <3> QED BY <1>9, <3>1 DEF SkipReload, FreshInv
  <2> QED BY <1>9, <2>1 DEF SkipReload, FreshInv
<1>10. CASE BeginLoad
  <2>1. alarmList' = << >> /\ Len(alarmList') = 0
    BY <1>10 DEF BeginLoad, OldListFreed
  <2> QED BY <1>10, <2>1 DEF BeginLoad, FreshInv
<1>11. CASE QueryAnswered \/ QueryTruncated
  <2>1. \A i \in 1 .. Len(alarmList') : alarmList'[i] \in db
    BY <1>11, QueryRows
  <2>2. pc = "query" /\ pc' = "walk" /\ UNCHANGED <<db, goneFor, recent, loadAge>>
    BY <1>11 DEF QueryAnswered, QueryTruncated
  <2>3. db \subseteq Alarm
    BY DEF TypeOK
  <2> QED BY <2>1, <2>2, <2>3 DEF FreshInv
<1>12. CASE QueryFails \/ QueryCrashes
  <2>1. alarmList' = << >> /\ Len(alarmList') = 0
    BY <1>12 DEF QueryFails, QueryCrashes, FreshInv
  <2>2. UNCHANGED <<db, goneFor>> /\ pc = "query"
    BY <1>12 DEF QueryFails, QueryCrashes
  <2>3. pc' = "down" \/ recent' = recent
    BY <1>12 DEF QueryFails, QueryCrashes
  <2> QED BY <2>1, <2>2, <2>3 DEF FreshInv
<1>13. CASE WalkToCount \/ WalkToIndex
  BY <1>13 DEF WalkToCount, WalkToIndex, FreshInv
<1>14. CASE UNCHANGED vars
  BY <1>14 DEF vars, FreshInv
<1> QED
  BY <1>1, <1>2, <1>3, <1>4, <1>5, <1>6, <1>7, <1>8, <1>9, <1>10, <1>11, <1>12,
     <1>13, <1>14 DEF Next, AgentStep

\* Time passes for a disturbance and for a load alike, and a count goes out of
\* date no later than the disturbance is forgotten.
LEMMA TickAges ==
  ASSUME TypeOK, Tick
  PROVE  /\ calmFor <= loadAge => calmFor' <= loadAge' \/ loadAge' = MINLOADFREQ
         /\ loadAge = MINLOADFREQ => loadAge' = MINLOADFREQ
         /\ CountDisturbed => CountDisturbed'
<1>1. /\ calmFor \in Nat /\ calmFor <= Calm /\ loadAge \in Nat /\ scanAge \in Int
      /\ scanAge >= -ClockBack /\ scanAge <= COUNT_TTL + 1 /\ loadAge <= MINLOADFREQ
  BY AlarmTableAssumption, CalmIsNat DEF TypeOK
<1>2. calmFor' \in Int /\ calmFor' <= calmFor + 1 /\ calmFor' <= Calm
  BY <1>1, CalmIsNat DEF Tick, Capped
<1>3. loadAge' = Capped(loadAge + 1, MINLOADFREQ)
  BY DEF Tick
<1>4. scanAge' = Capped(scanAge + 1, COUNT_TTL + 1)
  BY DEF Tick
<1>5. calmFor <= loadAge => calmFor' <= loadAge' \/ loadAge' = MINLOADFREQ
  BY <1>1, <1>2, <1>3, AlarmTableAssumption DEF Capped
<1>6. loadAge = MINLOADFREQ => loadAge' = MINLOADFREQ
  BY <1>1, <1>3, AlarmTableAssumption DEF Capped
<1>7. CountDisturbed => CountDisturbed'
  BY <1>1, <1>2, <1>4, AlarmTableAssumption, CalmIsNat DEF Capped, CountDisturbed
<1> QED BY <1>5, <1>6, <1>7

\* A disturbance puts the count in doubt, whatever the wall clock shows.
LEMMA DisturbedNow == TypeOK /\ calmFor = 0 => CountDisturbed /\ calmFor <= loadAge
<1>1. ASSUME NEW s \in Int, NEW b \in Nat, NEW m \in Nat \ {0}, s >= -b
      PROVE  0 < s + m + b
  <2>1. s + b >= 0
    BY <1>1
  <2> QED BY <2>1
<1>2. TypeOK => /\ scanAge \in Int /\ scanAge >= -ClockBack
                /\ loadAge \in Nat
  BY AlarmTableAssumption DEF TypeOK
<1> QED BY <1>1, <1>2, AlarmTableAssumption DEF CountDisturbed

LEMMA ListStep ==
  TypeOK /\ TypeOK' /\ ListInv /\ LoadInv /\ [Next]_vars => ListInv'
<1> SUFFICES ASSUME TypeOK, TypeOK', ListInv, LoadInv, [Next]_vars PROVE ListInv'
  OBVIOUS
<1> USE DEF dbVars, listVars, ageVars, reqVars, ghosts
<1>a. calmFor' = 0 => ListInv'
  BY AlarmTableAssumption DEF TypeOK, ListInv
<1>1. ASSUME NEW a \in Alarm, Raise(a) \/ Clear(a) PROVE ListInv'
  BY <1>1, <1>a DEF Raise, Clear, Disturbed
<1>2. CASE DbDown \/ QueryTruncated
  BY <1>2, <1>a DEF DbDown, QueryTruncated, Disturbed
<1>3. ASSUME NEW age \in -ClockBack .. COUNT_TTL + 1, ClockStep(age) PROVE ListInv'
  BY <1>3, <1>a DEF ClockStep, Disturbed
<1>4. CASE DbUp \/ Stop \/ SessionRenewed
  BY <1>4 DEF DbUp, Stop, SessionRenewed, ListInv, ListGood
<1>5. CASE Tick
  <2>1. UNCHANGED <<pc, alarmList, db>>
    BY <1>5 DEF Tick
  <2> QED BY <1>5, <2>1, TickAges DEF ListInv, ListGood
<1>6. CASE Start
  BY <1>6 DEF Start, ListInv
<1>7. ASSUME NEW exact \in BOOLEAN, NEW k \in 0 .. MaxIndex, Request(exact, k)
      PROVE  ListInv'
  BY <1>7 DEF Request, ListInv, ListGood
<1>8. CASE GetCount \/ Lookup \/ SkipReload
  BY <1>8 DEF GetCount, Lookup, SkipReload, ListInv, ListGood
<1>9. CASE BeginLoad \/ QueryCrashes
  BY <1>9 DEF BeginLoad, QueryCrashes, ListInv
<1>10. CASE QueryAnswered
  <2>1. alarmList' \in Enumerations(db) /\ db' = db
    BY <1>10 DEF QueryAnswered
  <2> QED BY <2>1 DEF ListInv, ListGood
<1>11. CASE QueryFails
  <2>1. pc' \notin {"down", "query"} => try > 0
    BY <1>11, AlarmTableAssumption DEF QueryFails, NextTry, TypeOK
  <2>2. try > 0 => calmFor <= loadAge \/ loadAge = MINLOADFREQ
    BY <1>11 DEF QueryFails, LoadInv
  <2>3. UNCHANGED <<calmFor, loadAge>>
    BY <1>11 DEF QueryFails
  <2> QED BY <2>1, <2>2, <2>3 DEF ListInv
<1>12. CASE WalkToCount \/ WalkToIndex
  BY <1>12 DEF WalkToCount, WalkToIndex, ListInv, ListGood
<1>13. CASE UNCHANGED vars
  BY <1>13 DEF vars, ListInv, ListGood
<1> QED
  BY <1>1, <1>2, <1>3, <1>4, <1>5, <1>6, <1>7, <1>8, <1>9, <1>10, <1>11, <1>12,
     <1>13 DEF Next, AgentStep

\* A list loaded less than MINLOADFREQ seconds ago that is wrong was disturbed
\* since then.
LEMMA RecentList ==
  ASSUME TypeOK, ListInv, SkipReload
  PROVE  ListGood \/ calmFor < MINLOADFREQ
  BY AlarmTableAssumption, CalmIsNat DEF SkipReload, LoadIsRecent, ListInv, TypeOK

LEMMA CountStep ==
  TypeOK /\ TypeOK' /\ ListInv /\ LoadInv /\ CountInv /\ [Next]_vars => CountInv'
<1> SUFFICES ASSUME TypeOK, TypeOK', ListInv, LoadInv, CountInv, [Next]_vars
             PROVE  CountInv'
  OBVIOUS
<1> USE DEF dbVars, listVars, ageVars, reqVars, ghosts
<1>a. calmFor' = 0 => CountInv'
  <2>1. (TypeOK /\ calmFor = 0 => CountDisturbed /\ calmFor <= loadAge)'
    BY DisturbedNow, PTL
  <2> QED BY <2>1 DEF CountInv
<1>1. ASSUME NEW a \in Alarm, Raise(a) \/ Clear(a) PROVE CountInv'
  BY <1>1, <1>a DEF Raise, Clear, Disturbed
<1>2. CASE DbDown \/ QueryTruncated
  BY <1>2, <1>a DEF DbDown, QueryTruncated, Disturbed
<1>3. ASSUME NEW age \in -ClockBack .. COUNT_TTL + 1, ClockStep(age) PROVE CountInv'
  BY <1>3, <1>a DEF ClockStep, Disturbed
<1>4. CASE DbUp \/ Stop \/ SessionRenewed \/ QueryCrashes
  BY <1>4 DEF DbUp, Stop, SessionRenewed, QueryCrashes, CountInv, CountGood,
              CountDisturbed, ListGood
<1>5. CASE Tick
  <2>1. UNCHANGED <<pc, caller, count, alarmList, db>>
    BY <1>5 DEF Tick
  <2> QED BY <1>5, <2>1, TickAges DEF CountInv, CountGood, ListGood
<1>6. CASE Start
  <2>1. calmFor \in Int /\ calmFor <= Calm
    BY CalmIsNat DEF TypeOK
  <2>2. pc' = "idle" /\ scanAge' = COUNT_TTL + 1 /\ calmFor' = calmFor
    BY <1>6 DEF Start
  <2>3. CountDisturbed'
    BY <2>1, <2>2, CalmIsNat, AlarmTableAssumption DEF CountDisturbed
  <2> QED BY <2>3, <2>2 DEF CountInv
<1>7. ASSUME NEW exact \in BOOLEAN, NEW k \in 0 .. MaxIndex, Request(exact, k)
      PROVE  CountInv'
  BY <1>7 DEF Request, CountInv, CountGood, CountDisturbed
<1>8. CASE GetCount
  <2>1. CASE CountIsOld
    BY <1>8, <2>1 DEF GetCount, CountInv
  <2>2. CASE ~CountIsOld
    BY <1>8, <2>2 DEF GetCount, CountInv, CountGood, CountDisturbed
  <2> QED BY <2>1, <2>2
<1>9. CASE Lookup
  BY <1>9 DEF Lookup, CountInv, CountGood, CountDisturbed
<1>10. CASE SkipReload
  <2>1. ListGood \/ CountDisturbed
    BY <1>10, RecentList, AlarmTableAssumption, CalmIsNat DEF CountDisturbed, TypeOK
  <2> QED
    BY <1>10, <2>1 DEF SkipReload, CountInv, CountGood, CountDisturbed, ListGood
<1>11. CASE BeginLoad
  BY <1>11 DEF BeginLoad, CountInv, CountGood, CountDisturbed
<1>12. CASE QueryAnswered
  <2>1. alarmList' \in Enumerations(db) /\ db' = db
    BY <1>12 DEF QueryAnswered
  <2> QED
    BY <1>12, <2>1 DEF QueryAnswered, CountInv, CountGood, CountDisturbed, ListGood
<1>13. CASE QueryFails
  <2>1. pc' = "walk" => try > 0
    BY <1>13, AlarmTableAssumption DEF QueryFails, NextTry, TypeOK
  <2>2. try > 0 => CountDisturbed
    BY <1>13 DEF QueryFails, LoadInv
  <2>3. UNCHANGED <<calmFor, scanAge, caller, count, db>> /\ pc = "query"
        /\ pc' \in {"query", "walk"}
    BY <1>13 DEF QueryFails
  <2> QED BY <2>1, <2>2, <2>3 DEF CountInv, CountDisturbed, CountGood
<1>14. CASE WalkToCount
  <2>1. ListGood => Len(alarmList) = Cardinality(db)
    BY DbFinite, EnumerationIsSeq DEF ListGood
  <2> QED BY <1>14, <2>1 DEF WalkToCount, CountInv, CountGood, CountDisturbed
<1>15. CASE WalkToIndex
  BY <1>15 DEF WalkToIndex, CountInv, CountGood, CountDisturbed
<1>16. CASE UNCHANGED vars
  BY <1>16 DEF vars, CountInv, CountGood, CountDisturbed, ListGood
<1> QED
  BY <1>1, <1>2, <1>3, <1>4, <1>5, <1>6, <1>7, <1>8, <1>9, <1>10, <1>11, <1>12,
     <1>13, <1>14, <1>15, <1>16 DEF Next, AgentStep

LEMMA LoadStep ==
  TypeOK /\ TypeOK' /\ UpInv /\ LoadInv /\ [Next]_vars => LoadInv'
<1> SUFFICES ASSUME TypeOK, TypeOK', UpInv, LoadInv, [Next]_vars PROVE LoadInv'
  OBVIOUS
<1> USE DEF dbVars, listVars, ageVars, reqVars, ghosts
<1>a. calmFor' = 0 /\ calmRequest' = FALSE => LoadInv'
  <2>1. (TypeOK /\ calmFor = 0 => CountDisturbed /\ calmFor <= loadAge)'
    BY DisturbedNow, PTL
  <2> QED BY <2>1 DEF LoadInv
<1>1. ASSUME NEW a \in Alarm, Raise(a) \/ Clear(a) PROVE LoadInv'
  BY <1>1, <1>a DEF Raise, Clear, Disturbed
<1>2. CASE DbDown \/ QueryTruncated
  BY <1>2, <1>a DEF DbDown, QueryTruncated, Disturbed
<1>3. ASSUME NEW age \in -ClockBack .. COUNT_TTL + 1, ClockStep(age) PROVE LoadInv'
  BY <1>3, <1>a DEF ClockStep, Disturbed
<1>4. CASE DbUp \/ UNCHANGED vars
  <2>1. UNCHANGED <<pc, try, handle, calmRequest, calmFor, scanAge, loadAge>>
    BY <1>4 DEF DbUp, vars
  <2> QED BY <2>1 DEF LoadInv, CountDisturbed
<1>5. CASE Tick
  <2>1. UNCHANGED <<pc, try, handle, calmRequest>>
    BY <1>5 DEF Tick
  <2> QED BY <1>5, <2>1, TickAges DEF LoadInv
<1>6. CASE Start \/ Stop \/ SessionRenewed \/ GetCount \/ Lookup
           \/ SkipReload \/ QueryAnswered
           \/ QueryCrashes \/ WalkToCount \/ WalkToIndex
  <2>1. pc' # "query"
    BY <1>6 DEF Start, Stop, SessionRenewed, GetCount, Lookup, SkipReload,
                QueryAnswered, QueryCrashes, WalkToCount, WalkToIndex
  <2> QED BY <2>1 DEF LoadInv
<1>7. ASSUME NEW exact \in BOOLEAN, NEW k \in 0 .. MaxIndex, Request(exact, k)
      PROVE  LoadInv'
  BY <1>7 DEF Request, LoadInv
<1>8. CASE BeginLoad
  BY <1>8 DEF BeginLoad, LoadInv
<1>9. CASE QueryFails
  <2>1. CASE dbUp
    BY <1>9, <2>1 DEF QueryFails, RenewedHandle, LoadInv
  <2>2. CASE ~dbUp
    <3>1. calmFor' = 0 /\ calmRequest' = calmRequest /\ ~calmRequest
      BY <1>9, <2>2 DEF QueryFails, UpInv
    <3>2. calmRequest' = FALSE
      BY <3>1, Zenon DEF TypeOK
    <3> QED BY <1>a, <3>1, <3>2
  <2> QED BY <2>1, <2>2
<1> QED
  BY <1>1, <1>2, <1>3, <1>4, <1>5, <1>6, <1>7, <1>8, <1>9 DEF Next, AgentStep

LEMMA CalmStep ==
  TypeOK /\ UpInv /\ ListInv /\ LoadInv /\ CountInv /\ CalmInv /\ [Next]_vars
    => CalmInv'
<1> SUFFICES ASSUME TypeOK, UpInv, ListInv, LoadInv, CountInv, CalmInv,
                    [Next]_vars
             PROVE  CalmInv'
  OBVIOUS
<1> USE DEF dbVars, listVars, ageVars, reqVars, ghosts
<1>a. calmRequest' = FALSE => CalmInv'
  BY DEF CalmInv
<1>1. ASSUME NEW a \in Alarm, Raise(a) \/ Clear(a) PROVE CalmInv'
  BY <1>1, <1>a DEF Raise, Clear, Disturbed
<1>2. CASE DbDown \/ QueryTruncated
  BY <1>2, <1>a DEF DbDown, QueryTruncated, Disturbed
<1>3. ASSUME NEW age \in -ClockBack .. COUNT_TTL + 1, ClockStep(age) PROVE CalmInv'
  BY <1>3, <1>a DEF ClockStep, Disturbed
<1>4. CASE DbUp \/ Tick \/ UNCHANGED vars
  <2>1. UNCHANGED <<pc, caller, calmRequest, alarmList, count, db>>
    BY <1>4 DEF DbUp, Tick, vars
  <2> QED BY <2>1 DEF CalmInv, ListGood, CountGood
<1>5. CASE Start \/ Stop \/ SessionRenewed \/ QueryCrashes \/ WalkToIndex
  <2>1. pc' \in {"idle", "down"}
    BY <1>5 DEF Start, Stop, SessionRenewed, QueryCrashes, WalkToIndex
  <2> QED BY <2>1 DEF CalmInv
<1>6. ASSUME NEW exact \in BOOLEAN, NEW k \in 0 .. MaxIndex, Request(exact, k)
      PROVE  CalmInv'
  BY <1>6 DEF Request, CalmInv
<1>7. CASE GetCount
  <2>1. CASE CountIsOld
    BY <1>7, <2>1 DEF GetCount, CalmInv
  <2>2. CASE ~CountIsOld
    <3>1. scanAge \in Int /\ scanAge <= COUNT_TTL
      BY <2>2, AlarmTableAssumption DEF CountIsOld, TypeOK
    <3>2. calmFor = Calm => ~CountDisturbed
      BY <3>1, CalmIsNat, AlarmTableAssumption DEF CountDisturbed
    <3>3. calmRequest => CountGood
      BY <1>7, <3>2 DEF GetCount, UpInv, CountInv
    <3> QED BY <1>7, <2>2, <3>3 DEF GetCount, CalmInv, CountGood
  <2> QED BY <2>1, <2>2
<1>8. CASE Lookup
  BY <1>8 DEF Lookup, CalmInv, CountGood
<1>9. CASE SkipReload
  <2>1. calmRequest => ListGood
    BY <1>9, RecentList, CalmIsNat, AlarmTableAssumption DEF UpInv
  <2> QED BY <1>9, <2>1 DEF SkipReload, CalmInv, ListGood, CountGood
<1>10. CASE BeginLoad
  BY <1>10 DEF BeginLoad, CalmInv, CountGood
<1>11. CASE QueryAnswered
  <2>1. ListGood'
    BY <1>11 DEF QueryAnswered, ListGood
  <2> QED BY <1>11, <2>1 DEF QueryAnswered, CalmInv, CountGood
<1>12. CASE QueryFails
  <2>1. pc' = "walk" => try > 0
    BY <1>12, AlarmTableAssumption DEF QueryFails, NextTry, TypeOK
  <2>2. try > 0 => ~calmRequest
    BY <1>12 DEF QueryFails, LoadInv
  <2>3. UNCHANGED <<calmRequest, caller, count, db>> /\ pc = "query"
        /\ pc' \in {"query", "walk"}
    BY <1>12 DEF QueryFails
  <2> QED BY <2>1, <2>2, <2>3 DEF CalmInv, CountGood
<1>13. CASE WalkToCount
  <2>1. ListGood => Len(alarmList) = Cardinality(db)
    BY DbFinite, EnumerationIsSeq DEF ListGood
  <2>2. calmRequest => ListGood
    BY <1>13 DEF WalkToCount, CalmInv
  <2> QED BY <1>13, <2>1, <2>2 DEF WalkToCount, CalmInv, CountGood
<1> QED
  BY <1>1, <1>2, <1>3, <1>4, <1>5, <1>6, <1>7, <1>8, <1>9, <1>10, <1>11, <1>12,
     <1>13 DEF Next, AgentStep

-----------------------------------------------------------------------------
LEMMA InitInv == Init => IInv
<1> SUFFICES ASSUME Init PROVE IInv
  OBVIOUS
<1> USE AlarmTableAssumption DEF Init
<1>1. TypeOK
  <2>1. calmRequest \in BOOLEAN /\ dbUp \in BOOLEAN /\ handle # "ok"
    OBVIOUS
  <2>2. << >> \in Seq(Alarm)
    OBVIOUS
  <2>3. goneFor \in [Alarm -> 0 .. MINLOADFREQ] /\ calmFor \in 0 .. Calm
    BY CalmIsNat
  <2> QED BY <2>1, <2>2, <2>3 DEF TypeOK, Point
<1>2. FreshInv
  <2>1. Len(alarmList) = 0
    OBVIOUS
  <2> QED BY <2>1 DEF FreshInv
<1>3. UpInv /\ ListInv /\ CountInv /\ LoadInv /\ CalmInv /\ IndexInv /\ TryInv
  BY DEF UpInv, ListInv, CountInv, LoadInv, CalmInv, IndexInv, TryInv
<1> QED BY <1>1, <1>2, <1>3 DEF IInv

LEMMA StepInv == IInv /\ [Next]_vars => IInv'
  BY TypeStep, FreshStep, UpStep, ListStep, CountStep, LoadStep, CalmStep, IndexStep
     DEF IInv

\* What the table's state satisfies in every run.
THEOREM Invariance == Spec => []IInv
  BY InitInv, StepInv, PTL DEF Spec

\* The variables of the table and of its database session stay within their
\* types; a session that works has a database that answers.
THEOREM TypeCorrect == Spec => []TypeOK
<1>1. IInv => TypeOK
  BY DEF IInv
<1> QED BY <1>1, Invariance, PTL

\* Alarm_Scan_By_Index serves a row that was an active alarm during the
\* request or less than MINLOADFREQ seconds before it, unless the list is empty.
THEOREM FreshRows == Spec => ServedFresh
<1>1. IInv /\ [Next]_vars => [RowServed /\ alarmList # << >> => alrm' \in recent]_vars
  <2> SUFFICES ASSUME IInv, Next, RowServed, alarmList # << >>
               PROVE  alrm' \in recent
    OBVIOUS
  <2> USE DEF IInv
  <2>1. WalkToIndex
    BY DEF RowServed, Next, AgentStep, Raise, Clear, DbDown, DbUp, Tick, ClockStep,
           Start, Stop, SessionRenewed, Request, GetCount, Lookup,
           SkipReload, BeginLoad,
           QueryAnswered, QueryTruncated, QueryFails, QueryCrashes, WalkToCount
  <2>2. PICK i \in 1 .. Len(alarmList) : RowReached = alarmList[i]
    BY <2>1, RowType DEF WalkToIndex
  <2> QED BY <2>1, <2>2 DEF WalkToIndex, FreshInv
<1> QED BY <1>1, Invariance, PTL DEF Spec, ServedFresh

\* Once Calm seconds have passed without a disturbance, var_alarms answers
\* from a list of exactly the active alarms.
THEOREM CalmIsExact == Spec => CalmTableExact
<1> DEFINE Exact ==
      calmRequest =>
        /\ RowServed => /\ alarmList \in Enumerations(db)
                        /\ index \in 1 .. Len(alarmList)
                        /\ alrm' = alarmList[index]
        /\ pc = "lookup" /\ pc' = "idle" =>
             index \notin 1 .. Cardinality(db)
<1>1. IInv /\ [Next]_vars => [Exact]_vars
  <2> SUFFICES ASSUME IInv, Next, calmRequest PROVE Exact
    OBVIOUS
  <2> USE DEF IInv
  <2>1. ASSUME RowServed
        PROVE  /\ alarmList \in Enumerations(db)
               /\ index \in 1 .. Len(alarmList)
               /\ alrm' = alarmList[index]
    <3>1. WalkToIndex
      BY <2>1 DEF RowServed, Next, AgentStep, Raise, Clear, DbDown, DbUp, Tick,
           ClockStep, Start, Stop, SessionRenewed, Request, GetCount, Lookup,
           SkipReload, BeginLoad,
           QueryAnswered, QueryTruncated, QueryFails, QueryCrashes, WalkToCount
    <3>2. ListGood /\ CountGood /\ index \in 1 .. count
      BY <3>1 DEF WalkToIndex, CalmInv, IndexInv
    <3>3. Len(alarmList) = count /\ count \in Nat
      BY <3>2, DbFinite, EnumerationIsSeq DEF ListGood, CountGood
    <3>4. alarmList # << >>
      BY <3>2, <3>3
    <3>5. RowReached = alarmList[index]
      BY <3>2, <3>3, <3>4 DEF RowReached
    <3> QED BY <3>1, <3>2, <3>3, <3>5 DEF WalkToIndex, ListGood
  <2>2. ASSUME pc = "lookup", pc' = "idle" PROVE index \notin 1 .. Cardinality(db)
    <3>1. Lookup
      BY <2>2 DEF Next, AgentStep, Raise, Clear, DbDown, DbUp, Tick, ClockStep,
           Start, Stop, SessionRenewed, Request, GetCount, SkipReload,
           BeginLoad, QueryAnswered,
           QueryTruncated, QueryFails, QueryCrashes, WalkToCount, WalkToIndex
    <3> QED BY <2>2, <3>1 DEF Lookup, CalmInv, CountGood
  <2> QED BY <2>1, <2>2
<1> QED BY <1>1, Invariance, PTL DEF Spec, CalmTableExact
-----------------------------------------------------------------------------
(* A variant: what remains to be done for a request.                       *)

LEMMA StepsLeftType ==
  /\ IInv => StepsLeft \in 0 .. 2 * retryCount + 6
  /\ IInv' => StepsLeft' \in 0 .. 2 * retryCount + 6
<1>1. ASSUME IInv PROVE StepsLeft \in 0 .. 2 * retryCount + 6
  <2>1. try \in 0 .. retryCount
    BY <1>1 DEF IInv, TypeOK
  <2> QED BY <2>1, AlarmTableAssumption DEF StepsLeft
<1>2. ASSUME IInv' PROVE StepsLeft' \in 0 .. 2 * retryCount + 6
  <2>1. try' \in 0 .. retryCount
    BY <1>2 DEF IInv, TypeOK
  <2> QED BY <2>1, AlarmTableAssumption DEF StepsLeft
<1> QED BY <1>1, <1>2

\* Each step of a request brings its end nearer.
LEMMA AgentStepCounts == IInv /\ AgentStep => StepsLeft' < StepsLeft
<1> SUFFICES ASSUME IInv, AgentStep PROVE StepsLeft' < StepsLeft
  OBVIOUS
<1> USE AlarmTableAssumption
    DEF StepsLeft, dbVars, listVars, ageVars, reqVars, ghosts
<1>1. pc \in Point /\ caller \in {"count", "index"} /\ try \in 0 .. retryCount
  BY DEF IInv, TypeOK
<1>2. CASE GetCount \/ Lookup
  BY <1>1, <1>2 DEF GetCount, Lookup, RequestOver, Point
<1>3. CASE SkipReload \/ BeginLoad
  BY <1>1, <1>3 DEF SkipReload, BeginLoad
<1>4. CASE QueryAnswered \/ QueryTruncated \/ QueryFails \/ QueryCrashes
  <2>1. try < retryCount
    BY <1>4 DEF IInv, TryInv, QueryAnswered, QueryTruncated, QueryFails,
                QueryCrashes
  <2>2. CASE QueryAnswered \/ QueryTruncated
    BY <1>1, <2>1, <2>2 DEF QueryAnswered, QueryTruncated
  <2>3. CASE QueryFails
    BY <1>1, <2>1, <2>3 DEF QueryFails, NextTry
  <2>4. CASE QueryCrashes
    BY <1>1, <2>1, <2>4 DEF QueryCrashes, RequestOver
  <2> QED BY <1>4, <2>2, <2>3, <2>4
<1>5. CASE WalkToCount \/ WalkToIndex
  BY <1>1, <1>5 DEF WalkToCount, WalkToIndex, RequestOver
<1> QED BY <1>2, <1>3, <1>4, <1>5 DEF AgentStep

\* No event outside the request adds to what remains of it.
LEMMA OtherStepsDoNotCount ==
  IInv /\ Next /\ ~AgentStep => StepsLeft' <= StepsLeft \/ pc = "idle"
<1> SUFFICES ASSUME IInv, Next, ~AgentStep, pc # "idle"
             PROVE  StepsLeft' <= StepsLeft
  OBVIOUS
<1> USE DEF StepsLeft, dbVars, listVars, ageVars, reqVars, ghosts
<1>0. StepsLeft \in Nat
  BY StepsLeftType, AlarmTableAssumption
<1>1. ASSUME UNCHANGED <<pc, caller, try>> PROVE StepsLeft' <= StepsLeft
  BY <1>0, <1>1
<1>2. CASE \/ \E a \in Alarm : Raise(a) \/ Clear(a)
           \/ DbDown \/ DbUp \/ Tick
           \/ \E age \in -ClockBack .. COUNT_TTL + 1 : ClockStep(age)
  <2>1. UNCHANGED <<pc, caller, try>>
    BY <1>2 DEF Raise, Clear, DbDown, DbUp, Tick, ClockStep
  <2> QED BY <1>1, <2>1
<1>3. CASE Start \/ Stop
  <2>1. StepsLeft' = 0
    BY <1>3 DEF Start, Stop
  <2> QED BY <1>0, <2>1
<1>4. CASE \/ SessionRenewed
           \/ \E exact \in BOOLEAN, k \in 0 .. MaxIndex : Request(exact, k)
  BY <1>4 DEF SessionRenewed, Request
<1> QED BY <1>2, <1>3, <1>4 DEF Next

\* For every retryCount: a request that was taken up has at most
\* 2 * retryCount + 6 steps before it, whatever happens between them.
THEOREM RequestsAreBounded == Spec => RequestBounded
<1>1. IInv /\ IInv' /\ [Next]_vars =>
        [/\ StepsLeft' \in 0 .. 2 * retryCount + 6
         /\ StepsLeft' > StepsLeft => pc = "idle"
         /\ AgentStep => StepsLeft' < StepsLeft]_vars
  <2> SUFFICES ASSUME IInv, IInv', Next
               PROVE  /\ StepsLeft' \in 0 .. 2 * retryCount + 6
                      /\ StepsLeft' > StepsLeft => pc = "idle"
                      /\ AgentStep => StepsLeft' < StepsLeft
    OBVIOUS
  <2>1. /\ StepsLeft \in 0 .. 2 * retryCount + 6
        /\ StepsLeft' \in 0 .. 2 * retryCount + 6
    BY StepsLeftType
  <2>2. ~AgentStep => StepsLeft' <= StepsLeft \/ pc = "idle"
    BY OtherStepsDoNotCount
  <2>3. AgentStep => StepsLeft' < StepsLeft
    BY AgentStepCounts
  <2> QED BY <2>1, <2>2, <2>3, AlarmTableAssumption
<1> QED BY Invariance, <1>1, PTL DEF Spec, RequestBounded
=============================================================================
