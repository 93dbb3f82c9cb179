--------------------------- MODULE MibTablesProofs ---------------------------
(***************************************************************************)
(* Which instance answers a request, and with what: proofs of MibTables'   *)
(* invariant for every name, and of the facts about the order of names     *)
(* that a walk by GETNEXT rests on.                                        *)
(***************************************************************************)
EXTENDS MibTables, SequenceTheorems, WellFoundedInduction, TLAPS

LessRel == OpToRel(<, Nat)

\* The least number principle.
LEMMA LeastNumber ==
  ASSUME NEW T, T \subseteq Nat, T # {}
  PROVE  \E x \in T : \A y \in T : x <= y
<1>1. IsWellFoundedOn(LessRel, Nat)
  BY NatLessThanWellFounded DEF LessRel
<1>2. PICK x \in T : \A y \in T : ~(<<y, x>> \in LessRel)
  BY <1>1, WFMin
<1>3. \A y \in T : ~(y < x)
  BY <1>2 DEF LessRel, OpToRel
<1> QED BY <1>3
-----------------------------------------------------------------------------
(* The order of names.                                                     *)

LEMMA OidLessIrreflexive == \A a \in Seq(Nat) : ~OidLess(a, a)
  BY LenProperties, ElementOfSeq DEF OidLess

\* Names are ordered as by a dictionary.
LEMMA OidLessTransitive ==
  ASSUME NEW a \in Seq(Nat), NEW b \in Seq(Nat), NEW c \in Seq(Nat),
         OidLess(a, b), OidLess(b, c)
  PROVE  OidLess(a, c)
<1>0. /\ Len(a) \in Nat /\ Len(b) \in Nat /\ Len(c) \in Nat
      /\ \A i \in 1 .. Len(a) : a[i] \in Nat
      /\ \A i \in 1 .. Len(b) : b[i] \in Nat
      /\ \A i \in 1 .. Len(c) : c[i] \in Nat
  BY LenProperties, ElementOfSeq
<1>1. PICK n \in 1 .. Len(b) : /\ n <= Len(a) + 1
                               /\ \A j \in 1 .. n - 1 : a[j] = b[j]
                               /\ n <= Len(a) => a[n] < b[n]
  BY DEF OidLess
<1>2. PICK m \in 1 .. Len(c) : /\ m <= Len(b) + 1
                               /\ \A j \in 1 .. m - 1 : b[j] = c[j]
                               /\ m <= Len(b) => b[m] < c[m]
  BY DEF OidLess
<1>3. CASE n <= m
  <2>1. \A j \in 1 .. n - 1 : a[j] = c[j]
    BY <1>0, <1>1, <1>2, <1>3
  <2>2. n \in 1 .. Len(c) /\ n <= Len(a) + 1
    BY <1>0, <1>1, <1>2, <1>3
  <2>3. ASSUME n <= Len(a) PROVE a[n] < c[n]
    <3>1. a[n] < b[n] /\ a[n] \in Nat /\ b[n] \in Nat /\ c[n] \in Nat
      BY <1>0, <1>1, <2>2, <2>3
    <3>2. CASE n < m
      <4>1. b[n] = c[n]
        BY <1>0, <1>1, <1>2, <3>2
      <4> QED BY <3>1, <4>1
    <3>3. CASE n = m
      <4>1. b[n] < c[n]
        BY <1>2, <3>3
      <4> QED BY <3>1, <4>1
    <3> QED BY <1>1, <1>2, <1>3, <3>2, <3>3
  <2> QED BY <2>1, <2>2, <2>3 DEF OidLess
<1>4. CASE m < n
  <2>1. \A j \in 1 .. m - 1 : a[j] = c[j]
    BY <1>0, <1>1, <1>2, <1>4
  <2>2. m <= Len(a) + 1
    BY <1>0, <1>1, <1>2, <1>4
  <2>3. m <= Len(a) => a[m] < c[m]
    BY <1>0, <1>1, <1>2, <1>4
  <2> QED BY <2>1, <2>2, <2>3 DEF OidLess
<1> QED BY <1>0, <1>1, <1>2, <1>3, <1>4

LEMMA OidLessAsymmetric ==
  \A a, b \in Seq(Nat) : OidLess(a, b) => ~OidLess(b, a)
  BY OidLessIrreflexive, OidLessTransitive

\* Of two names one is the smaller, unless they are the same: the first place
\* where they differ, or where one of them ends, tells.
LEMMA OidLessTotal ==
  ASSUME NEW a \in Seq(Nat), NEW b \in Seq(Nat), a # b
  PROVE  OidLess(a, b) \/ OidLess(b, a)
<1>0. /\ Len(a) \in Nat /\ Len(b) \in Nat
      /\ \A i \in 1 .. Len(a) : a[i] \in Nat
      /\ \A i \in 1 .. Len(b) : b[i] \in Nat
  BY LenProperties, ElementOfSeq
<1> DEFINE T == {n \in Nat \ {0} : \/ n = Len(a) + 1 \/ n = Len(b) + 1
                                   \/ n <= Len(a) /\ n <= Len(b) /\ a[n] # b[n]}
<1>1. PICK n \in T : \A m \in T : n <= m
  <2>1. Len(a) + 1 \in T /\ T \subseteq Nat
    BY <1>0
  <2> HIDE DEF T
  <2> QED BY <2>1, LeastNumber
<1>2. n <= Len(a) + 1 /\ n <= Len(b) + 1 /\ n \in Nat \ {0}
  BY <1>0, <1>1
<1>3. \A j \in 1 .. n - 1 : a[j] = b[j]
  <2> SUFFICES ASSUME NEW j \in 1 .. n - 1, a[j] # b[j] PROVE FALSE
    OBVIOUS
  <2>1. j \in Nat \ {0} /\ j <= Len(a) /\ j <= Len(b) /\ j < n
    <3>1. Len(a) \in Nat /\ Len(b) \in Nat
      BY <1>0
    <3> HIDE DEF T
    <3> QED BY <1>2, <3>1
  <2>2. j \in T
    BY <2>1
  <2> QED BY <1>1, <1>2, <2>1, <2>2
<1>4. CASE n <= Len(a) /\ n <= Len(b)
  <2>1. a[n] < b[n] \/ b[n] < a[n]
    BY <1>0, <1>1, <1>2, <1>4
  <2> QED BY <1>2, <1>3, <1>4, <2>1 DEF OidLess
<1>5. CASE n = Len(a) + 1 /\ n <= Len(b)
  BY <1>0, <1>2, <1>3, <1>5 DEF OidLess
<1>6. CASE n = Len(b) + 1 /\ n <= Len(a)
  BY <1>0, <1>2, <1>3, <1>6 DEF OidLess
<1>7. ~(n = Len(a) + 1 /\ n = Len(b) + 1)
  <2> SUFFICES ASSUME n = Len(a) + 1, n = Len(b) + 1 PROVE FALSE
    OBVIOUS
  <2>1. Len(a) = Len(b) /\ \A i \in 1 .. Len(a) : a[i] = b[i]
    BY <1>0, <1>3
  <2> QED BY <2>1, SeqEqual
<1>8. \/ n <= Len(a) /\ n <= Len(b)
      \/ n = Len(a) + 1 /\ n <= Len(b)
      \/ n = Len(b) + 1 /\ n <= Len(a)
      \/ n = Len(a) + 1 /\ n = Len(b) + 1
  BY <1>0, <1>2
<1> QED BY <1>4, <1>5, <1>6, <1>7, <1>8
-----------------------------------------------------------------------------
(* The names of the instances.                                             *)

TableNumber(t) == IF t = "alarms" THEN 1 ELSE 4

\* What follows a table's OID.
LEMMA TableOidThen ==
  ASSUME NEW t \in Table, NEW end \in Seq(Nat)
  PROVE  LET name == TableOid(t) \o end
         IN  /\ name \in Seq(Nat) /\ Len(name) = 12 + Len(end)
             /\ \A n \in 1 .. 11 : name[n] = CgtsAlarmTableOid[n]
             /\ name[12] = TableNumber(t)
             /\ \A n \in 1 .. Len(end) : \A k \in 1 .. Len(name) :
                  k = 12 + n => name[k] = end[n]
<1>1. /\ TableOid(t) \in Seq(Nat) /\ Len(TableOid(t)) = 12
      /\ TableOid(t)[12] = TableNumber(t)
      /\ \A n \in 1 .. 11 : TableOid(t)[n] = CgtsAlarmTableOid[n]
  <2>1. CASE t = "alarms"
    BY <2>1 DEF TableOid, TableNumber, CgtsAlarmTableOid
  <2>2. CASE t # "alarms"
    BY <2>2 DEF TableOid, TableNumber, CgtsAlarmTableOid, CgtsEventLogTableOid
  <2> QED BY <2>1, <2>2
<1> DEFINE oid == TableOid(t)
<1> HIDE DEF oid
<1>2. Len(end) \in Nat
  BY LenProperties
<1>3. /\ oid \o end \in Seq(Nat) /\ Len(oid \o end) = 12 + Len(end)
      /\ \A n \in 1 .. 12 : (oid \o end)[n] = oid[n]
      /\ \A n \in 1 .. Len(end) : \A k \in 1 .. 12 + Len(end) :
           k = 12 + n => (oid \o end)[k] = end[n]
  <2>1. oid \in Seq(Nat)
    BY <1>1 DEF oid
  <2>2. /\ oid \o end \in Seq(Nat) /\ Len(oid \o end) = Len(oid) + Len(end)
        /\ \A n \in 1 .. Len(oid) : (oid \o end)[n] = oid[n]
        /\ \A n \in 1 .. Len(end) : \A k \in 1 .. Len(oid) + Len(end) :
             k = Len(oid) + n => (oid \o end)[k] = end[n]
    BY <2>1
  <2>3. Len(oid) = 12
    BY <1>1 DEF oid
  <2> QED BY <2>2, <2>3
<1>4. /\ \A n \in 1 .. 11 : (oid \o end)[n] = CgtsAlarmTableOid[n]
      /\ (oid \o end)[12] = TableNumber(t)
  <2>1. \A n \in 1 .. 11 : n \in 1 .. 12 /\ oid[n] = CgtsAlarmTableOid[n]
    BY <1>1 DEF oid
  <2>2. 12 \in 1 .. 12 /\ oid[12] = TableNumber(t)
    BY <1>1 DEF oid
  <2> QED BY <1>3, <2>1, <2>2
<1> QED BY <1>3, <1>4 DEF oid

\* A name has fifteen numbers: only the table's, the column's and the row's
\* tell two of them apart.
LEMMA InstanceNames ==
  ASSUME NEW t \in Table, NEW c \in Nat, NEW i \in Nat
  PROVE  LET name == InstanceName(<<t, c, i>>)
         IN  /\ name \in Seq(Nat) /\ Len(name) = 15
             /\ \A n \in 1 .. 11 : name[n] = CgtsAlarmTableOid[n]
             /\ name[12] = TableNumber(t) /\ name[13] = 1
             /\ name[14] = c /\ name[15] = i
<1> DEFINE end == <<1, c, i>>
<1>1. /\ end \in Seq(Nat) /\ Len(end) = 3
      /\ end[1] = 1 /\ end[2] = c /\ end[3] = i
  OBVIOUS
<1>2. InstanceName(<<t, c, i>>) = TableOid(t) \o end
  BY DEF InstanceName
<1> HIDE DEF end
<1> DEFINE name == TableOid(t) \o end
<1>3. /\ name \in Seq(Nat) /\ Len(name) = 15
      /\ \A n \in 1 .. 11 : name[n] = CgtsAlarmTableOid[n]
      /\ name[12] = TableNumber(t)
      /\ \A n \in 1 .. 3 : \A k \in 1 .. 15 : k = 12 + n => name[k] = end[n]
  <2>1. /\ name \in Seq(Nat) /\ Len(name) = 12 + Len(end)
        /\ \A n \in 1 .. 11 : name[n] = CgtsAlarmTableOid[n]
        /\ name[12] = TableNumber(t)
        /\ \A n \in 1 .. Len(end) : \A k \in 1 .. Len(name) :
             k = 12 + n => name[k] = end[n]
    BY <1>1, TableOidThen
  <2> HIDE DEF name
  <2> QED BY <1>1, <2>1
<1> HIDE DEF name
<1>4. name[13] = end[1] /\ name[14] = end[2] /\ name[15] = end[3]
  BY <1>3
<1> QED BY <1>1, <1>2, <1>3, <1>4 DEF name

\* newname is the name of the instance.
LEMMA NewNames ==
  ASSUME NEW t \in Table, NEW c \in Nat, NEW i \in Nat
  PROVE  NewName(t, c, i) = InstanceName(<<t, c, i>>)
<1> DEFINE vp == <<1, c>>
<1>1. vp \in Seq(Nat) /\ Len(vp) = 2 /\ vp[1] = 1 /\ vp[2] = c
  OBVIOUS
<1>2. VpName(t, c) = TableOid(t) \o vp
  BY DEF VpName
<1> HIDE DEF vp
<1>3. /\ VpName(t, c) \in Seq(Nat) /\ Len(VpName(t, c)) = 14
      /\ \A n \in 1 .. 11 : VpName(t, c)[n] = CgtsAlarmTableOid[n]
      /\ VpName(t, c)[12] = TableNumber(t)
      /\ VpName(t, c)[13] = 1 /\ VpName(t, c)[14] = c
  <2> DEFINE name == TableOid(t) \o vp
  <2>1. /\ name \in Seq(Nat) /\ Len(name) = 12 + Len(vp)
        /\ \A n \in 1 .. 11 : name[n] = CgtsAlarmTableOid[n]
        /\ name[12] = TableNumber(t)
        /\ \A n \in 1 .. Len(vp) : \A k \in 1 .. Len(name) :
             k = 12 + n => name[k] = vp[n]
    BY <1>1, TableOidThen
  <2> HIDE DEF name
  <2>2. name[13] = vp[1] /\ name[14] = vp[2]
    BY <1>1, <2>1
  <2>3. Len(name) = 14
    BY <1>1, <2>1
  <2>4. VpName(t, c) = name
    BY <1>2 DEF name
  <2> QED BY <1>1, <2>1, <2>2, <2>3, <2>4
<1>4. NewName(t, c, i) = [n \in 1 .. 15 |-> IF n = 15 THEN i ELSE VpName(t, c)[n]]
  BY <1>3 DEF NewName, ALM_ENTRY_NAME_LENGTH
<1> DEFINE name == InstanceName(<<t, c, i>>)
<1>5. /\ name \in Seq(Nat) /\ Len(name) = 15
      /\ \A n \in 1 .. 11 : name[n] = CgtsAlarmTableOid[n]
      /\ name[12] = TableNumber(t) /\ name[13] = 1
      /\ name[14] = c /\ name[15] = i
  BY InstanceNames
<1> HIDE DEF name
<1>6. name \in [1 .. 15 -> Nat]
  BY <1>5, LenProperties
<1>7. \A n \in 1 .. 15 : name[n] = IF n = 15 THEN i ELSE VpName(t, c)[n]
  <2> TAKE n \in 1 .. 15
  <2>1. n \in 1 .. 11 \/ n = 12 \/ n = 13 \/ n = 14 \/ n = 15
    OBVIOUS
  <2> QED BY <1>3, <1>5, <2>1
<1>8. name = [n \in 1 .. 15 |-> IF n = 15 THEN i ELSE VpName(t, c)[n]]
  BY <1>6, <1>7
<1> QED BY <1>4, <1>8 DEF name

\* A smaller name is that of an earlier table, of an earlier column of the same
\* table, or of an earlier row of the same column.
LEMMA SmallerInstance ==
  ASSUME NEW t \in Table, NEW c \in Nat, NEW i \in Nat,
         NEW u \in Table, NEW d \in Nat, NEW j \in Nat,
         OidLess(InstanceName(<<u, d, j>>), InstanceName(<<t, c, i>>))
  PROVE  \/ u = "alarms" /\ t = "events"
         \/ u = t /\ d < c
         \/ u = t /\ d = c /\ j < i
<1> DEFINE a == InstanceName(<<u, d, j>>)
           b == InstanceName(<<t, c, i>>)
<1>1. /\ Len(a) = 15 /\ \A n \in 1 .. 11 : a[n] = CgtsAlarmTableOid[n]
      /\ a[12] = TableNumber(u) /\ a[13] = 1 /\ a[14] = d /\ a[15] = j
      /\ Len(b) = 15 /\ \A n \in 1 .. 11 : b[n] = CgtsAlarmTableOid[n]
      /\ b[12] = TableNumber(t) /\ b[13] = 1 /\ b[14] = c /\ b[15] = i
  BY InstanceNames
<1>2. PICK n \in 1 .. Len(b) : /\ \A k \in 1 .. n - 1 : a[k] = b[k]
                               /\ n <= Len(a) => a[n] < b[n]
  BY DEF OidLess
<1> HIDE DEF a, b
<1>3. a[n] < b[n] /\ n \in 1 .. 15
  BY <1>1, <1>2
<1>4. \A k \in 1 .. 11 : a[k] = b[k] /\ CgtsAlarmTableOid[k] \in Nat
  BY <1>1 DEF CgtsAlarmTableOid
<1>5. n \notin 1 .. 11 /\ n # 13
  BY <1>1, <1>3, <1>4
<1>6. CASE n = 12
  BY <1>1, <1>3, <1>6 DEF TableNumber, Table
<1>7. n > 12 => u = t
  BY <1>1, <1>2 DEF TableNumber, Table
<1>8. CASE n = 14
  BY <1>1, <1>3, <1>7, <1>8
<1>9. CASE n = 15
  BY <1>1, <1>2, <1>3, <1>7, <1>9
<1> QED BY <1>3, <1>5, <1>6, <1>8, <1>9
-----------------------------------------------------------------------------
(* Values.                                                                 *)

Head3 == << <<"index", "Unsigned32">>, <<"uuid", "DisplayString">>,
            <<"alarm_id", "WrsAlarmId">> >>
Middle(t) == IF t = "alarms" THEN << >> ELSE << <<"alarm_state", "WrsAlarmState">> >>
Tail9 == << <<"entity_instance_id", "WrsAlarmEntityInstanceId">>,
            <<"timestamp", "DateAndTime">>, <<"severity", "WrsAlarmSeverity">>,
            <<"reason_text", "WrsAlarmText">>, <<"alarm_type", "WrsAlarmEventType">>,
            <<"probable_cause", "WrsAlarmProbableCause">>,
            <<"proposed_repair_action", "WrsAlarmText">>,
            <<"service_affecting", "WrsBoolean">>, <<"suppression", "WrsBoolean">> >>

Objects == {Head3[n] : n \in 1 .. 3} \cup {Middle("events")[1]}
             \cup {Tail9[n] : n \in 1 .. 9}

\* The objects of an entry, place by place.
LEMMA EntryObjects ==
  ASSUME NEW t \in Table
  PROVE  LET k == IF t = "alarms" THEN 3 ELSE 4
         IN  /\ Len(MibEntry(t)) = k + 9
             /\ \A n \in 1 .. 3 : MibEntry(t)[n] = Head3[n]
             /\ t # "alarms" => MibEntry(t)[4] = <<"alarm_state", "WrsAlarmState">>
             /\ \A n \in 1 .. 9 : \A m \in 1 .. k + 9 :
                  m = k + n => MibEntry(t)[m] = Tail9[n]
<1> DEFINE k == IF t = "alarms" THEN 3 ELSE 4
<1>1. Head3 \in Seq(Objects) /\ Len(Head3) = 3
  BY DEF Head3, Objects
<1>2. Tail9 \in Seq(Objects) /\ Len(Tail9) = 9
  BY DEF Tail9, Objects
<1>3. /\ Middle(t) \in Seq(Objects) /\ Len(Middle(t)) = k - 3
      /\ t # "alarms" => Middle(t)[1] = <<"alarm_state", "WrsAlarmState">>
  <2>1. CASE t = "alarms"
    <3>1. Middle(t) = << >>
      BY <2>1 DEF Middle
    <3>2. << >> \in Seq(Objects) /\ Len(<< >>) = 0
      BY EmptySeq
    <3>3. k - 3 = 0
      BY <2>1
    <3> QED BY <2>1, <3>1, <3>2, <3>3
  <2>2. CASE t = "events"
    <3>1. Middle("events") = << <<"alarm_state", "WrsAlarmState">> >>
      BY DEF Middle
    <3>2. Middle("events")[1] \in Objects
      BY DEF Objects
    <3> QED BY <2>2, <3>1, <3>2
  <2> QED BY <2>1, <2>2 DEF Table
<1>4. MibEntry(t) = (Head3 \o Middle(t)) \o Tail9
  BY DEF MibEntry, Head3, Middle, Tail9
<1> DEFINE front == Head3 \o Middle(t)
<1>5. k \in {3, 4} /\ k - 3 \in Nat /\ 3 + (k - 3) = k /\ (t = "alarms" <=> k = 3)
  OBVIOUS
<1> HIDE DEF k
<1>6. /\ front \in Seq(Objects) /\ Len(front) = k
      /\ \A n \in 1 .. 3 : front[n] = Head3[n]
      /\ \A n \in 1 .. k - 3 : \A m \in 1 .. k : m = 3 + n => front[m] = Middle(t)[n]
  <2>1. /\ front \in Seq(Objects) /\ Len(front) = Len(Head3) + Len(Middle(t))
        /\ \A n \in 1 .. Len(Head3) : front[n] = Head3[n]
        /\ \A n \in 1 .. Len(Middle(t)) : \A m \in 1 .. Len(Head3) + Len(Middle(t)) :
             m = Len(Head3) + n => front[m] = Middle(t)[n]
    <3>1. Head3 \in Seq(Objects) /\ Middle(t) \in Seq(Objects)
      BY <1>1, <1>3
    <3> QED BY <3>1
  <2> HIDE DEF front
  <2> QED BY <1>1, <1>3, <1>5, <2>1
<1>7. t # "alarms" => front[4] = <<"alarm_state", "WrsAlarmState">>
  BY <1>3, <1>5, <1>6
<1> HIDE DEF front
<1>8. /\ Len(front \o Tail9) = k + 9
      /\ \A n \in 1 .. k : (front \o Tail9)[n] = front[n]
      /\ \A n \in 1 .. 9 : \A m \in 1 .. k + 9 :
           m = k + n => (front \o Tail9)[m] = Tail9[n]
  <2>1. /\ Len(front \o Tail9) = Len(front) + Len(Tail9)
        /\ \A n \in 1 .. Len(front) : (front \o Tail9)[n] = front[n]
        /\ \A n \in 1 .. Len(Tail9) : \A m \in 1 .. Len(front) + Len(Tail9) :
             m = Len(front) + n => (front \o Tail9)[m] = Tail9[n]
    <3>1. front \in Seq(Objects) /\ Tail9 \in Seq(Objects)
      BY <1>2, <1>6
    <3> QED BY <3>1
  <2> QED BY <1>2, <1>6, <2>1
<1>9. MibEntry(t) = front \o Tail9
  BY <1>4 DEF front
<1>10. /\ Len(MibEntry(t)) = k + 9
       /\ \A n \in 1 .. 3 : MibEntry(t)[n] = Head3[n]
       /\ t # "alarms" => MibEntry(t)[4] = <<"alarm_state", "WrsAlarmState">>
       /\ \A n \in 1 .. 9 : \A m \in 1 .. k + 9 :
            m = k + n => MibEntry(t)[m] = Tail9[n]
  <2>1. Len(MibEntry(t)) = k + 9 /\ \A n \in 1 .. k : MibEntry(t)[n] = front[n]
    BY <1>8, <1>9
  <2>2. \A n \in 1 .. 3 : n \in 1 .. k
    BY <1>5
  <2>3. t # "alarms" => 4 \in 1 .. k
    BY <1>5
  <2>4. t # "alarms" => MibEntry(t)[4] = <<"alarm_state", "WrsAlarmState">>
    BY <1>7, <2>1, <2>3
  <2>5. \A n \in 1 .. 3 : MibEntry(t)[n] = Head3[n]
    BY <1>6, <2>1, <2>2
  <2>6. \A n \in 1 .. 9 : \A m \in 1 .. k + 9 :
          m = k + n => MibEntry(t)[m] = Tail9[n]
    BY <1>8, <1>9
  <2> QED BY <2>1, <2>4, <2>5, <2>6
<1> QED BY <1>10 DEF k

LEMMA AlarmObjects ==
  /\ Len(MibEntry("alarms")) = 12
  /\ MibEntry("alarms")[1] = <<"index", "Unsigned32">>
  /\ MibEntry("alarms")[2] = <<"uuid", "DisplayString">>
  /\ MibEntry("alarms")[3] = <<"alarm_id", "WrsAlarmId">>
  /\ \A n \in 1 .. 9 : \A m \in 1 .. 12 : m = 3 + n => MibEntry("alarms")[m] = Tail9[n]
<1>1. "alarms" \in Table
  BY DEF Table
<1>2. Head3[1] = <<"index", "Unsigned32">> /\ Head3[2] = <<"uuid", "DisplayString">>
        /\ Head3[3] = <<"alarm_id", "WrsAlarmId">>
  BY DEF Head3
<1> QED BY <1>1, <1>2, EntryObjects

LEMMA EventObjects ==
  /\ Len(MibEntry("events")) = 13
  /\ MibEntry("events")[1] = <<"index", "Unsigned32">>
  /\ MibEntry("events")[2] = <<"uuid", "DisplayString">>
  /\ MibEntry("events")[3] = <<"alarm_id", "WrsAlarmId">>
  /\ MibEntry("events")[4] = <<"alarm_state", "WrsAlarmState">>
  /\ \A n \in 1 .. 9 : \A m \in 1 .. 13 : m = 4 + n => MibEntry("events")[m] = Tail9[n]
<1>1. "events" \in Table /\ "events" # "alarms"
  BY DEF Table
<1>2. Head3[1] = <<"index", "Unsigned32">> /\ Head3[2] = <<"uuid", "DisplayString">>
        /\ Head3[3] = <<"alarm_id", "WrsAlarmId">>
  BY DEF Head3
<1> QED BY <1>1, <1>2, EntryObjects

\* An object that may be read, on the wire.
OnTheWire(object) ==
  << <<object[1], Wire(object[2])[1]>>, Wire(object[2])[2], "read-only" >>

LEMMA HeadOnTheWire ==
  /\ OnTheWire(<<"alarm_id", "WrsAlarmId">>) = <<String("alarm_id"), "ASN_OCTET_STR", "read-only">>
  /\ OnTheWire(<<"alarm_state", "WrsAlarmState">>) = <<Long("alarm_state"), "ASN_INTEGER", "read-only">>
  BY DEF OnTheWire, Wire, Long, String

LEMMA TailOnTheWire ==
  /\ OnTheWire(Tail9[1]) = <<String("entity_instance_id"), "ASN_OCTET_STR", "read-only">>
  /\ OnTheWire(Tail9[2]) = <<Date("timestamp"), "ASN_OCTET_STR", "read-only">>
  /\ OnTheWire(Tail9[3]) = <<Long("severity"), "ASN_INTEGER", "read-only">>
  /\ OnTheWire(Tail9[4]) = <<String("reason_text"), "ASN_OCTET_STR", "read-only">>
  /\ OnTheWire(Tail9[5]) = <<Long("alarm_type"), "ASN_INTEGER", "read-only">>
  /\ OnTheWire(Tail9[6]) = <<Long("probable_cause"), "ASN_INTEGER", "read-only">>
  /\ OnTheWire(Tail9[7]) = <<String("proposed_repair_action"), "ASN_OCTET_STR", "read-only">>
  /\ OnTheWire(Tail9[8]) = <<Long("service_affecting"), "ASN_INTEGER", "read-only">>
  /\ OnTheWire(Tail9[9]) = <<Long("suppression"), "ASN_INTEGER", "read-only">>
  BY DEF OnTheWire, Wire, Long, String, Date, Tail9

LEMMA AlarmValues ==
  /\ Value("alarms", 1) = <<Long("index"), "ASN_INTEGER", "read-only">>
  /\ Value("alarms", 2) = <<Cut("uuid"), "ASN_OCTET_STR", "read-only">>
  /\ Value("alarms", 3) = <<String("alarm_id"), "ASN_OCTET_STR", "read-only">>
  /\ Value("alarms", 4) = <<String("entity_instance_id"), "ASN_OCTET_STR", "read-only">>
  /\ Value("alarms", 5) = <<Date("timestamp"), "ASN_OCTET_STR", "read-only">>
  /\ Value("alarms", 6) = <<Long("severity"), "ASN_INTEGER", "read-only">>
  /\ Value("alarms", 7) = <<String("reason_text"), "ASN_OCTET_STR", "read-only">>
  /\ Value("alarms", 8) = <<Long("alarm_type"), "ASN_INTEGER", "read-only">>
  /\ Value("alarms", 9) = <<Long("probable_cause"), "ASN_INTEGER", "read-only">>
  /\ Value("alarms", 10) = <<String("proposed_repair_action"), "ASN_OCTET_STR", "read-only">>
  /\ Value("alarms", 11) = <<Long("service_affecting"), "ASN_INTEGER", "read-only">>
  /\ Value("alarms", 12) = <<Long("suppression"), "ASN_INTEGER", "read-only">>
  BY DEF Value, Access, Variables, AlarmVariables, VarAlarms

LEMMA EventValues ==
  /\ Value("events", 1) = <<Long("index"), "ASN_INTEGER", "read-only">>
  /\ Value("events", 2) = <<Cut("uuid"), "ASN_OCTET_STR", "read-only">>
  /\ Value("events", 3) = <<String("alarm_id"), "ASN_OCTET_STR", "read-only">>
  /\ Value("events", 4) = <<Long("alarm_state"), "ASN_INTEGER", "read-only">>
  /\ Value("events", 5) = <<String("entity_instance_id"), "ASN_OCTET_STR", "read-only">>
  /\ Value("events", 6) = <<Date("timestamp"), "ASN_OCTET_STR", "read-only">>
  /\ Value("events", 7) = <<Long("severity"), "ASN_INTEGER", "read-only">>
  /\ Value("events", 8) = <<String("reason_text"), "ASN_OCTET_STR", "read-only">>
  /\ Value("events", 9) = <<Long("alarm_type"), "ASN_INTEGER", "read-only">>
  /\ Value("events", 10) = <<Long("probable_cause"), "ASN_INTEGER", "read-only">>
  /\ Value("events", 11) = <<String("proposed_repair_action"), "ASN_OCTET_STR", "read-only">>
  /\ Value("events", 12) = <<Long("service_affecting"), "ASN_INTEGER", "read-only">>
  /\ Value("events", 13) = <<Long("suppression"), "ASN_INTEGER", "read-only">>
  BY DEF Value, Access, Variables, EventLogVariables, VarEvents

\* What the MIB shows of an object, for the three kinds of object.
LEMMA ShownObjects ==
  ASSUME NEW t \in Table
  PROVE  /\ \A c \in Nat \ {1} : Shown(t, c) = OnTheWire(MibEntry(t)[c])
         /\ MibEntry(t)[2] = <<"uuid", "DisplayString">> =>
              ShownCut(t, 2) = <<Cut("uuid"), "ASN_OCTET_STR", "read-only">>
         /\ MibEntry(t)[1] = <<"index", "Unsigned32">> =>
              Shown(t, 1)[1] = Long("index")
<1>1. \A c \in Nat \ {1} : MaxAccess(c) = "read-only"
  BY DEF MaxAccess
<1>2. \A c \in Nat \ {1} : Shown(t, c) = OnTheWire(MibEntry(t)[c])
  BY <1>1 DEF Shown, OnTheWire
<1>3. MibEntry(t)[2] = <<"uuid", "DisplayString">> =>
        ShownCut(t, 2) = <<Cut("uuid"), "ASN_OCTET_STR", "read-only">>
  BY <1>1 DEF ShownCut
<1>4. MibEntry(t)[1] = <<"index", "Unsigned32">> => Shown(t, 1)[1] = Long("index")
  BY DEF Shown, Wire, Long
<1> QED BY <1>2, <1>3, <1>4

\* The variables registered for a table are, one by one, the objects of its
\* entry; and each that the MIB lets a manager read is registered for the type and
\* the access the MIB gives it and answers with the member it shows: the uuid
\* without its last character, all others whole.
THEOREM ValuesAreTheMibs ==
  \A t \in Table :
    /\ Column(t) = 1 .. Len(MibEntry(t))
    /\ \A c \in Column(t) : MaxAccess(c) = "read-only" =>
         Value(t, c) = IF c = 2 THEN ShownCut(t, c) ELSE Shown(t, c)
<1>1. Column("alarms") = 1 .. 12
  BY DEF Column, Variables, AlarmVariables
<1>2. Column("events") = 1 .. 13
  BY DEF Column, Variables, EventLogVariables
<1>3. "alarms" \in Table /\ "events" \in Table
  BY DEF Table
<1>4. ASSUME NEW c \in 1 .. 12, c # 1
      PROVE  Value("alarms", c) =
               IF c = 2 THEN ShownCut("alarms", c) ELSE Shown("alarms", c)
  <2>1. CASE c = 2
    BY <1>3, <2>1, AlarmObjects, AlarmValues, ShownObjects
  <2>2. CASE c # 2
    <3>1. Value("alarms", c) = OnTheWire(MibEntry("alarms")[c])
      <4>1. CASE c \in 3 .. 3
        <5>1. c = 3
          BY <4>1
        <5> QED BY <5>1, AlarmObjects, AlarmValues, HeadOnTheWire
      <4>2. CASE c \notin 3 .. 3
        <5>1. \/ c = 4 \/ c = 5 \/ c = 6 \/ c = 7 \/ c = 8
              \/ c = 9 \/ c = 10 \/ c = 11 \/ c = 12
          BY <1>4, <2>2, <4>2
        <5> QED BY <5>1, AlarmObjects, AlarmValues, TailOnTheWire
      <4> QED BY <4>1, <4>2
    <3>2. Shown("alarms", c) = OnTheWire(MibEntry("alarms")[c])
      BY <1>3, <1>4, ShownObjects
    <3> QED BY <2>2, <3>1, <3>2
  <2> QED BY <2>1, <2>2
<1>5. ASSUME NEW c \in 1 .. 13, c # 1
      PROVE  Value("events", c) =
               IF c = 2 THEN ShownCut("events", c) ELSE Shown("events", c)
  <2>1. CASE c = 2
    BY <1>3, <2>1, EventObjects, EventValues, ShownObjects
  <2>2. CASE c # 2
    <3>1. Value("events", c) = OnTheWire(MibEntry("events")[c])
      <4>1. CASE c \in 3 .. 4
        <5>1. c = 3 \/ c = 4
          BY <4>1
        <5> QED BY <5>1, EventObjects, EventValues, HeadOnTheWire
      <4>2. CASE c \notin 3 .. 4
        <5>1. \/ c = 5 \/ c = 6 \/ c = 7 \/ c = 8 \/ c = 9
              \/ c = 10 \/ c = 11 \/ c = 12 \/ c = 13
          BY <1>5, <2>2, <4>2
        <5> QED BY <5>1, EventObjects, EventValues, TailOnTheWire
      <4> QED BY <4>1, <4>2
    <3>2. Shown("events", c) = OnTheWire(MibEntry("events")[c])
      BY <1>3, <1>5, ShownObjects
    <3> QED BY <2>2, <3>1, <3>2
  <2> QED BY <2>1, <2>2
<1>6. MaxAccess(1) # "read-only"
  BY DEF MaxAccess
<1>7. ASSUME NEW t \in Table
      PROVE  /\ Column(t) = 1 .. Len(MibEntry(t))
             /\ \A c \in Column(t) : MaxAccess(c) = "read-only" =>
                  Value(t, c) = IF c = 2 THEN ShownCut(t, c) ELSE Shown(t, c)
  <2>1. CASE t = "alarms"
    BY <1>1, <1>4, <1>6, <2>1, AlarmObjects
  <2>2. CASE t = "events"
    BY <1>2, <1>5, <1>6, <2>2, EventObjects
  <2> QED BY <2>1, <2>2 DEF Table
<1> QED BY <1>7

\* The index object's variable shows the row's number.
LEMMA IndexValue == \A t \in Table : Value(t, 1)[1] = Shown(t, 1)[1]
<1>1. "alarms" \in Table /\ "events" \in Table
  BY DEF Table
<1>2. Value("alarms", 1)[1] = Shown("alarms", 1)[1]
  BY <1>1, AlarmObjects, AlarmValues, ShownObjects
<1>3. Value("events", 1)[1] = Shown("events", 1)[1]
  BY <1>1, EventObjects, EventValues, ShownObjects
<1> QED BY <1>2, <1>3 DEF Table
-----------------------------------------------------------------------------
(* Answers.                                                                *)

\* The loop over the rows ends at the first that matches, or at none.
LEMMA HeaderEntryIsFirst ==
  ASSUME NEW t, NEW c, NEW name, NEW exact, NEW count \in Nat
  PROVE  LET i == HeaderEntry(t, c, name, exact, count)
         IN  /\ i \in 1 .. count + 1
             /\ i <= count => Matches(name, exact, NewName(t, c, i))
             /\ \A j \in 1 .. i - 1 : ~Matches(name, exact, NewName(t, c, j))
<1> DEFINE M(i) == Matches(name, exact, NewName(t, c, i))
           T == {i \in 1 .. count + 1 : i = count + 1 \/ M(i)}
<1>1. PICK i \in T : \A j \in T : i <= j
  <2>1. T \subseteq Nat /\ count + 1 \in T
    OBVIOUS
  <2> HIDE DEF T
  <2> QED BY <2>1, LeastNumber
<1> HIDE DEF M
<1>2. /\ i \in 1 .. count + 1
      /\ i <= count => M(i)
      /\ \A j \in 1 .. i - 1 : ~M(j)
  BY <1>1
<1>3. HeaderEntry(t, c, name, exact, count) =
        CHOOSE index \in 1 .. count + 1 :
          /\ index <= count => M(index)
          /\ \A j \in 1 .. index - 1 : ~M(j)
  BY DEF HeaderEntry, M
<1> QED BY <1>2, <1>3 DEF M

\* A registered variable answers when one of the rows matches, with the first.
LEMMA VarAnswers ==
  ASSUME NEW t \in Table, NEW c \in Column(t), NEW req \in Request
  PROVE  \/ /\ VarAnswer(t, c, req) = NoAnswer
            /\ \A i \in 1 .. req.count[t] :
                 ~Matches(req.name, req.exact, InstanceName(<<t, c, i>>))
         \/ \E i \in 1 .. req.count[t] :
              /\ VarAnswer(t, c, req) = [name |-> InstanceName(<<t, c, i>>),
                                         value |-> Value(t, c), index |-> i]
              /\ VarAnswer(t, c, req) # NoAnswer
              /\ Matches(req.name, req.exact, InstanceName(<<t, c, i>>))
              /\ \A j \in 1 .. i - 1 :
                   ~Matches(req.name, req.exact, InstanceName(<<t, c, j>>))
<1> DEFINE count == req.count[t]
           i == HeaderEntry(t, c, req.name, req.exact, count)
<1>1. count \in Nat /\ c \in Nat
  <2>1. count \in 0 .. MaxRows
    BY DEF Request
  <2>2. Column(t) = 1 .. 12 \/ Column(t) = 1 .. 13
    BY ValuesAreTheMibs, AlarmObjects, EventObjects DEF Table
  <2> QED BY <2>1, <2>2, MibTablesAssumption
<1>2. \A j \in Nat : NewName(t, c, j) = InstanceName(<<t, c, j>>)
  BY <1>1, NewNames
<1>3. /\ i \in 1 .. count + 1
      /\ i <= count => Matches(req.name, req.exact, NewName(t, c, i))
      /\ \A j \in 1 .. i - 1 : ~Matches(req.name, req.exact, NewName(t, c, j))
  BY <1>1, HeaderEntryIsFirst
<1>4. VarAnswer(t, c, req) =
        IF i > count THEN NoAnswer
        ELSE [name |-> NewName(t, c, i), value |-> Value(t, c), index |-> i]
  BY DEF VarAnswer
<1> HIDE DEF i, count
<1>5. CASE i > count
  <2>1. \A j \in 1 .. count : j \in 1 .. i - 1 /\ j \in Nat
    BY <1>1, <1>3, <1>5
  <2> QED BY <1>2, <1>3, <1>4, <1>5, <2>1 DEF count
<1>6. CASE ~(i > count)
  <2>1. i \in 1 .. count /\ i \in Nat
    BY <1>1, <1>3, <1>6
  <2>2. VarAnswer(t, c, req) = [name |-> InstanceName(<<t, c, i>>),
                                value |-> Value(t, c), index |-> i]
    BY <1>2, <1>4, <1>6, <2>1
  <2>3. VarAnswer(t, c, req) # NoAnswer
    <3>1. InstanceName(<<t, c, i>>) \in Seq(Nat)
      BY <1>1, <2>1, InstanceNames
    <3>2. Value(t, c) \in UNION {{Value(u, d) : d \in Column(u)} : u \in Table}
      OBVIOUS
    <3> QED BY <2>1, <2>2, <3>1, <3>2, NoAnswerAssumption
  <2>4. Matches(req.name, req.exact, InstanceName(<<t, c, i>>))
    BY <1>2, <1>3, <1>6, <2>1
  <2>5. \A j \in 1 .. i - 1 : ~Matches(req.name, req.exact, InstanceName(<<t, c, j>>))
    <3>1. \A j \in 1 .. i - 1 : j \in Nat
      OBVIOUS
    <3> QED BY <1>2, <1>3, <3>1
  <2> QED BY <2>1, <2>2, <2>3, <2>4, <2>5 DEF count
<1> QED BY <1>5, <1>6

Answering(t, req) == {c \in Column(t) : VarAnswer(t, c, req) # NoAnswer}

LEMMA ColumnsAreNumbers ==
  \A t \in Table : Column(t) \subseteq 1 .. 13 /\ Column(t) = 1 .. Len(MibEntry(t))
<1>1. Column("alarms") = 1 .. 12 /\ Column("events") = 1 .. 13
  BY ValuesAreTheMibs, AlarmObjects, EventObjects DEF Table
<1> QED BY <1>1, ValuesAreTheMibs DEF Table

\* The answer is that of the first table and column that has one.
LEMMA FirstAnswers ==
  ASSUME NEW req \in Request
  PROVE  \/ /\ Answer(req) = NoAnswer
            /\ \A t \in Table : Answering(t, req) = {}
         \/ \E t \in Table : \E c \in Answering(t, req) :
              /\ Answer(req) = VarAnswer(t, c, req)
              /\ \A d \in Answering(t, req) : c <= d
              /\ t = "events" => Answering("alarms", req) = {}
<1> DEFINE First(t) == CHOOSE c \in Answering(t, req) : \A d \in Answering(t, req) : c <= d
<1>1. Answer(req) =
        IF Answering("alarms", req) # {}
          THEN VarAnswer("alarms", First("alarms"), req)
        ELSE IF Answering("events", req) # {}
          THEN VarAnswer("events", First("events"), req)
        ELSE NoAnswer
  BY DEF Answer, Answering
<1>2. ASSUME NEW t \in Table, Answering(t, req) # {}
      PROVE  /\ First(t) \in Answering(t, req)
             /\ \A d \in Answering(t, req) : First(t) <= d
  <2>1. Answering(t, req) \subseteq Nat
    BY ColumnsAreNumbers DEF Answering
  <2>2. \E c \in Answering(t, req) : \A d \in Answering(t, req) : c <= d
    BY <1>2, <2>1, LeastNumber
  <2> QED BY <2>2
<1> HIDE DEF First
<1>3. "alarms" \in Table /\ "events" \in Table /\ "alarms" # "events"
        /\ \A t \in Table : t = "alarms" \/ t = "events"
  BY DEF Table
<1>4. CASE Answering("alarms", req) # {}
  BY <1>1, <1>2, <1>3, <1>4
<1>5. CASE Answering("alarms", req) = {} /\ Answering("events", req) # {}
  BY <1>1, <1>2, <1>3, <1>5
<1>6. CASE Answering("alarms", req) = {} /\ Answering("events", req) = {}
  BY <1>1, <1>3, <1>6
<1> QED BY <1>4, <1>5, <1>6

\* A column answers when an instance of it matches.
LEMMA AnsweringMatches ==
  ASSUME NEW req \in Request, NEW t \in Table, NEW c \in Column(t)
  PROVE  c \in Answering(t, req) <=>
           \E i \in 1 .. req.count[t] :
             Matches(req.name, req.exact, InstanceName(<<t, c, i>>))
  BY VarAnswers DEF Answering

\* The instances of all registered variables, the index objects' among them.
Registered(count) == InstancesOf(1, 13, count)

\* An instance is a row's value in a column of a table.
LEMMA InstancesAre ==
  ASSUME NEW req \in Request
  PROVE  /\ \A inst \in Registered(req.count) :
              /\ inst = <<inst[1], inst[2], inst[3]>>
              /\ inst[1] \in Table /\ inst[2] \in Column(inst[1])
              /\ inst[3] \in 1 .. req.count[inst[1]]
         /\ \A t \in Table : \A c \in Column(t) : \A i \in 1 .. req.count[t] :
              <<t, c, i>> \in Registered(req.count)
<1>1. \A t \in Table : req.count[t] \in 0 .. MaxRows
  BY DEF Request
<1>2. ASSUME NEW inst \in Registered(req.count)
      PROVE  /\ inst = <<inst[1], inst[2], inst[3]>>
             /\ inst[1] \in Table /\ inst[2] \in Column(inst[1])
             /\ inst[3] \in 1 .. req.count[inst[1]]
  <2>1. PICK t \in Table, c \in 1 .. 13, i \in 1 .. MaxRows :
          inst = <<t, c, i>> /\ c <= Len(MibEntry(t)) /\ i <= req.count[t]
    BY DEF Registered, InstancesOf
  <2>2. c \in Column(t) /\ i \in 1 .. req.count[t]
    BY <1>1, <2>1, ColumnsAreNumbers, MibTablesAssumption
  <2> QED BY <2>1, <2>2
<1>3. ASSUME NEW t \in Table, NEW c \in Column(t), NEW i \in 1 .. req.count[t]
      PROVE  <<t, c, i>> \in Registered(req.count)
  <2>1. c \in 1 .. 13 /\ c <= Len(MibEntry(t))
    BY ColumnsAreNumbers
  <2>2. i \in 1 .. MaxRows /\ i <= req.count[t]
    BY <1>1, MibTablesAssumption
  <2> QED BY <2>1, <2>2 DEF Registered, InstancesOf
<1> QED BY <1>2, <1>3

\* What answers is the instance asked for among all registered ones, and nothing
\* answers if none of them matches.
LEMMA AnswerIsAsked ==
  ASSUME NEW req \in Request
  PROVE  \/ /\ Answer(req) = NoAnswer
            /\ \A inst \in Registered(req.count) :
                 ~Matches(req.name, req.exact, InstanceName(inst))
         \/ \E inst \in Asked(req, Registered(req.count)) :
              /\ Answer(req) # NoAnswer
              /\ Answer(req) = [name  |-> InstanceName(inst),
                                value |-> Value(inst[1], inst[2]),
                                index |-> inst[3]]
<1> DEFINE M(inst) == Matches(req.name, req.exact, InstanceName(inst))
<1>2. CASE Answer(req) = NoAnswer /\ \A t \in Table : Answering(t, req) = {}
  <2> SUFFICES ASSUME NEW inst \in Registered(req.count), M(inst) PROVE FALSE
    BY <1>2
  <2>1. /\ inst = <<inst[1], inst[2], inst[3]>>
        /\ inst[1] \in Table /\ inst[2] \in Column(inst[1])
        /\ inst[3] \in 1 .. req.count[inst[1]]
    BY InstancesAre
  <2>2. M(<<inst[1], inst[2], inst[3]>>)
    BY <2>1
  <2>3. inst[2] \in Answering(inst[1], req)
    BY <2>1, <2>2, AnsweringMatches
  <2> QED BY <1>2, <2>1, <2>3
<1>3. ASSUME NEW t \in Table, NEW c \in Answering(t, req),
             Answer(req) = VarAnswer(t, c, req),
             \A d \in Answering(t, req) : c <= d,
             t = "events" => Answering("alarms", req) = {}
      PROVE  \E inst \in Asked(req, Registered(req.count)) :
               /\ Answer(req) # NoAnswer
               /\ Answer(req) = [name  |-> InstanceName(inst),
                                 value |-> Value(inst[1], inst[2]),
                                 index |-> inst[3]]
  <2>1. c \in Column(t) /\ VarAnswer(t, c, req) # NoAnswer
    BY DEF Answering
  <2>2. PICK i \in 1 .. req.count[t] :
          /\ VarAnswer(t, c, req) = [name |-> InstanceName(<<t, c, i>>),
                                     value |-> Value(t, c), index |-> i]
          /\ M(<<t, c, i>>)
          /\ \A j \in 1 .. i - 1 : ~M(<<t, c, j>>)
    BY <2>1, VarAnswers
  <2>3. <<t, c, i>> \in Registered(req.count)
    BY <2>1, InstancesAre
  <2>4. ASSUME NEW other \in Registered(req.count), M(other)
        PROVE  ~OidLess(InstanceName(other), InstanceName(<<t, c, i>>))
    <3> DEFINE u == other[1]
               d == other[2]
               j == other[3]
    <3>1. /\ other = <<u, d, j>> /\ u \in Table /\ d \in Column(u)
          /\ j \in 1 .. req.count[u]
      BY InstancesAre
    <3>2. d \in Answering(u, req)
      BY <2>4, <3>1, AnsweringMatches
    <3>3. c \in Nat /\ i \in Nat /\ d \in Nat /\ j \in Nat
      BY <2>1, <3>1, ColumnsAreNumbers
    <3> HIDE DEF u, d, j
    <3>4. ~(u = "alarms" /\ t = "events")
      BY <1>3, <3>2
    <3>5. ~(u = t /\ d < c)
      BY <1>3, <3>2, <3>3
    <3>6. ~(u = t /\ d = c /\ j < i)
      <4> SUFFICES ASSUME u = t, d = c, j < i PROVE FALSE
        OBVIOUS
      <4>1. j \in 1 .. i - 1
        BY <3>1, <3>3
      <4>2. M(<<t, c, j>>)
        BY <2>4, <3>1
      <4> QED BY <2>2, <4>1, <4>2
    <3> QED BY <3>1, <3>3, <3>4, <3>5, <3>6, SmallerInstance
  <2>5. <<t, c, i>> \in Asked(req, Registered(req.count))
    <3>1. CASE req.exact
      BY <2>2, <2>3, <3>1 DEF Matches, Asked
    <3>2. CASE ~req.exact
      <4>1. OidLess(req.name, InstanceName(<<t, c, i>>))
        BY <2>2, <3>2 DEF Matches
      <4>2. \A other \in Registered(req.count) :
               OidLess(req.name, InstanceName(other))
                 => ~OidLess(InstanceName(other), InstanceName(<<t, c, i>>))
        BY <2>4, <3>2 DEF Matches
      <4> QED BY <2>3, <3>2, <4>1, <4>2 DEF Asked
    <3> QED BY <3>1, <3>2
  <2> QED BY <1>3, <2>1, <2>2, <2>5
<1> QED BY <1>2, <1>3, FirstAnswers
-----------------------------------------------------------------------------
(* The invariant.                                                          *)

\* An answer is the answer to the request that was made.
MibTablesInv ==
  /\ request \in Request
  /\ answer = << >> \/ answer = Answer(request)

LEMMA AnswerIsToRequest == TablesSpec => []MibTablesInv
<1>1. TablesInit => MibTablesInv
  BY DEF TablesInit, MibTablesInv
<1>2. MibTablesInv /\ [Reply]_tableVars => MibTablesInv'
  BY DEF MibTablesInv, Reply, tableVars
<1> QED BY <1>1, <1>2, PTL DEF TablesSpec

\* The registered instances are those of the index objects and the others.
LEMMA TwoKinds ==
  ASSUME NEW req \in Request
  PROVE  /\ Registered(req.count) = IndexInstances(req.count) \cup Instances(req.count)
         /\ \A inst \in IndexInstances(req.count) : inst[2] = 1
         /\ \A inst \in Instances(req.count) : inst[2] # 1
<1>1. \A inst : inst \in IndexInstances(req.count) <=>
                inst \in Registered(req.count) /\ inst[2] = 1
  BY DEF Registered, IndexInstances, InstancesOf
<1>2. \A inst : inst \in Instances(req.count) <=>
                inst \in Registered(req.count) /\ inst[2] # 1
  BY DEF Registered, Instances, InstancesOf
<1> QED BY <1>1, <1>2

\* The next instance of all is the next one of its kind.
LEMMA AskedAmongFewer ==
  ASSUME NEW req, NEW many, NEW few, few \subseteq many,
         NEW inst \in Asked(req, many), inst \in few
  PROVE  inst \in Asked(req, few)
  BY DEF Asked

\* The column's number in a name.
LEMMA ColumnInName ==
  ASSUME NEW inst, inst = <<inst[1], inst[2], inst[3]>>,
         inst[1] \in Table, inst[2] \in Nat, inst[3] \in Nat
  PROVE  InstanceName(inst) \in Seq(Nat) /\ InstanceName(inst)[14] = inst[2]
<1> DEFINE t == inst[1]
           c == inst[2]
           i == inst[3]
           name == InstanceName(<<t, c, i>>)
<1>1. t \in Table /\ c \in Nat /\ i \in Nat /\ inst = <<t, c, i>>
  OBVIOUS
<1> HIDE DEF t, c, i
<1>2. /\ name \in Seq(Nat) /\ Len(name) = 15
      /\ \A n \in 1 .. 11 : name[n] = CgtsAlarmTableOid[n]
      /\ name[12] = TableNumber(t) /\ name[13] = 1
      /\ name[14] = c /\ name[15] = i
  BY <1>1, InstanceNames
<1> HIDE DEF name
<1>3. InstanceName(inst) = name
  BY <1>1 DEF name
<1> QED BY <1>2, <1>3 DEF c

\* An index object that answers stands before all accessible instances that are
\* still to come.
LEMMA IndexBefore ==
  ASSUME NEW req \in Request, NEW inst \in Asked(req, Registered(req.count)),
         inst[2] = 1, NEW other \in Wanted(req)
  PROVE  OidLess(InstanceName(inst), InstanceName(other))
<1> DEFINE a == InstanceName(inst)
           b == InstanceName(other)
<1>1. /\ inst \in Registered(req.count)
      /\ other \in Instances(req.count) /\ other \in Registered(req.count)
  BY TwoKinds DEF Asked, Wanted
<1>2. /\ inst = <<inst[1], inst[2], inst[3]>> /\ inst[1] \in Table
      /\ inst[2] \in Nat /\ inst[3] \in Nat
      /\ other = <<other[1], other[2], other[3]>> /\ other[1] \in Table
      /\ other[2] \in Nat /\ other[3] \in Nat
  BY <1>1, InstancesAre, ColumnsAreNumbers
<1>3. a \in Seq(Nat) /\ a[14] = inst[2]
  <2> HIDE DEF b
  <2> QED BY <1>2, ColumnInName
<1>4. b \in Seq(Nat) /\ b[14] = other[2]
  <2> HIDE DEF a
  <2> QED BY <1>2, ColumnInName
<1>5. a # b
  BY <1>1, <1>3, <1>4, TwoKinds
<1>6. ~OidLess(b, a)
  BY <1>1, <1>5 DEF Asked, Wanted
<1> QED BY <1>3, <1>4, <1>5, <1>6, OidLessTotal

\* A GET is answered by the instance it names, a GETNEXT by the least after its
\* name, with the value, the type and the access the MIB gives it, for every name
\* and every length of the tables; the uuid is cut short, and the index objects
\* come in between.
THEOREM AnswersAreFaithful == TablesSpec => []AnswerFaithful
<1>1. MibTablesInv => AnswerFaithful
  <2> SUFFICES ASSUME MibTablesInv, answer # << >> PROVE AnswerFaithful
    BY DEF AnswerFaithful
  <2>1. request \in Request /\ answer = Answer(request)
    BY DEF MibTablesInv
  <2>2. ASSUME answer = NoAnswer,
               \A inst \in Registered(request.count) :
                 ~Matches(request.name, request.exact, InstanceName(inst))
        PROVE  AnswerFaithful
    <3>1. \A inst \in Wanted(request) :
             /\ inst \in Instances(request.count)
             /\ Matches(request.name, request.exact, InstanceName(inst))
      BY DEF Wanted, Asked, Matches
    <3>2. Wanted(request) = {}
      BY <2>1, <2>2, <3>1, TwoKinds
    <3> QED BY <2>2, <3>2 DEF AnswerFaithful
  <2>3. ASSUME NEW inst \in Asked(request, Registered(request.count)),
               answer # NoAnswer,
               answer = [name  |-> InstanceName(inst),
                         value |-> Value(inst[1], inst[2]),
                         index |-> inst[3]]
        PROVE  AnswerFaithful
    <3>1. /\ inst \in Registered(request.count)
          /\ inst[1] \in Table /\ inst[2] \in Column(inst[1])
      BY <2>1, InstancesAre DEF Asked
    <3>2. Answers(answer, inst) /\ answer.value = Value(inst[1], inst[2])
      BY <2>3 DEF Answers
    <3>3. CASE inst[2] = 1
      <4>1. /\ inst \in IndexInstances(request.count)
            /\ IndexInstances(request.count) \subseteq Registered(request.count)
        BY <2>1, <3>1, <3>3, TwoKinds
      <4>2. inst \in Asked(request, IndexInstances(request.count))
        BY <4>1, AskedAmongFewer
      <4>3. answer.value[1] = Shown(inst[1], inst[2])[1]
        BY <3>1, <3>2, <3>3, IndexValue
      <4>4. \A other \in Wanted(request) :
               OidLess(InstanceName(inst), InstanceName(other))
        BY <2>1, <3>3, IndexBefore
      <4> QED BY <2>3, <3>2, <4>2, <4>3, <4>4 DEF AnswerFaithful
    <3>4. CASE inst[2] # 1
      <4>1. /\ inst \in Instances(request.count)
            /\ Instances(request.count) \subseteq Registered(request.count)
        BY <2>1, <3>1, <3>4, TwoKinds
      <4>2. inst \in Wanted(request)
        BY <4>1, AskedAmongFewer DEF Wanted
      <4>3. MaxAccess(inst[2]) = "read-only"
        BY <3>4 DEF MaxAccess
      <4>4. answer.value = IF inst[2] = 2 THEN ShownCut(inst[1], inst[2])
                                          ELSE Shown(inst[1], inst[2])
        BY <3>1, <3>2, <4>3, ValuesAreTheMibs
      <4> QED BY <2>3, <3>2, <4>2, <4>4 DEF AnswerFaithful
    <3> QED BY <3>3, <3>4
  <2> QED BY <2>1, <2>2, <2>3, AnswerIsAsked
<1> QED BY <1>1, AnswerIsToRequest, PTL

\* A GETNEXT is answered by a greater name than its own.  As names are strictly
\* ordered (OidLessIrreflexive, OidLessTransitive), a walk that goes on from each
\* answer never comes back to one.
THEOREM NextIsGreater ==
  TablesSpec => [](answer \notin {<< >>, NoAnswer} /\ ~request.exact
                     => OidLess(request.name, answer.name))
<1>1. AnswerFaithful => (answer \notin {<< >>, NoAnswer} /\ ~request.exact
                           => OidLess(request.name, answer.name))
  BY DEF AnswerFaithful, Answers, Wanted, Asked
<1> QED BY <1>1, AnswersAreFaithful, PTL
=============================================================================
