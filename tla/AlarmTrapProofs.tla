--------------------------- MODULE AlarmTrapProofs ---------------------------
(***************************************************************************)
(* A trap is the MIB's notification for every message there can be: proofs *)
(* of AlarmTrap's invariant.  The list of varbinds is built by eleven      *)
(* additions in a row, each of which keeps Listed.                         *)
(***************************************************************************)
EXTENDS AlarmTrap, SequenceTheorems, TLAPS

VarbindRecord == [col : ColumnSet, value : Member \cup {Zero}]

\* A detail of an event that is not the event's (EventTrapFaithful).
Mistaken(prefix, col) ==
  prefix = "wrsEvent" /\ col \in {"ProbableCause", "ServiceAffecting"}

\* The value that the message gives for a column it has.
Own(prefix, m, col) ==
  IF <<prefix, col>> \in m.null THEN Zero ELSE <<prefix, col>>

Sent(prefix, columns, m, col) == col \in columns /\ <<prefix, col>> \in m.alarm

\* After n additions the list holds those of the first n columns that are sent,
\* in their order.
Listed(s, n, prefix, columns, m) ==
  /\ s \in Seq(VarbindRecord)
  /\ \A i \in 1 .. Len(s) :
       /\ Sent(prefix, columns, m, s[i].col)
       /\ s[i].value = Own(prefix, m, s[i].col) \/ Mistaken(prefix, s[i].col)
       /\ \E p \in 1 .. n : s[i].col = AllColumns[p]
  /\ \A p \in 1 .. n : Sent(prefix, columns, m, AllColumns[p]) =>
       \E i \in 1 .. Len(s) : s[i].col = AllColumns[p]
  /\ \A j \in 1 .. Len(s) : \A i \in 1 .. j - 1 :
       \E q \in 1 .. n : \E p \in 1 .. q - 1 :
         s[i].col = AllColumns[p] /\ s[j].col = AllColumns[q]

LEMMA ColumnsAreEleven ==
  /\ Len(AllColumns) = 11
  /\ \A n \in 1 .. 11 : AllColumns[n] \in ColumnSet
BY DEF AllColumns, ColumnSet

\* A list of one varbind, or none.
LEMMA OneVarbind ==
  ASSUME NEW prefix \in {"wrsAlarmActive", "wrsEvent"}, NEW columns, NEW m,
         NEW col \in ColumnSet
  PROVE  LET v == Varbind(prefix, columns, m, col)
         IN  /\ v \in Seq(VarbindRecord)
             /\ IF Sent(prefix, columns, m, col)
                  THEN /\ Len(v) = 1
                       /\ v[1] \in VarbindRecord
                       /\ v[1].col = col
                       /\ v[1].value = Own(prefix, m, col) \/ Mistaken(prefix, col)
                  ELSE v = << >>
<1> DEFINE value == IF prefix = "wrsEvent" THEN EventValue(col, m)
                                           ELSE AlarmValue(col, m)
<1>1. /\ value \in Member \cup {Zero}
      /\ Sent(prefix, columns, m, col) =>
           value = Own(prefix, m, col) \/ Mistaken(prefix, col)
  <2>1. ASSUME NEW p \in {"wrsAlarmActive", "wrsEvent"}
        PROVE  /\ Get(<<p, col>>, m) \in Member \cup {Zero}
               /\ <<p, col>> \in m.alarm => Get(<<p, col>>, m) = Own(p, m, col)
    BY DEF Get, Own, Member
  <2>2. CASE prefix = "wrsEvent"
    BY <2>1, <2>2 DEF EventValue, Mistaken, Sent
  <2>3. CASE prefix = "wrsAlarmActive"
    BY <2>1, <2>3 DEF AlarmValue, Sent
  <2> QED BY <2>2, <2>3
<1>2. CASE Sent(prefix, columns, m, col)
  <2>1. Varbind(prefix, columns, m, col) = << [col |-> col, value |-> value] >>
    BY <1>2 DEF Sent, Varbind
  <2> HIDE DEF value
  <2>2. [col |-> col, value |-> value] \in VarbindRecord
    BY <1>1 DEF VarbindRecord
  <2> QED BY <1>1, <1>2, <2>1, <2>2
<1>3. CASE ~Sent(prefix, columns, m, col)
  BY <1>3 DEF Sent, Varbind
<1> QED BY <1>2, <1>3

\* What an addition does to the list.
LEMMA OneMore ==
  ASSUME NEW S, NEW s \in Seq(S), NEW v \in Seq(S), Len(v) = 1
  PROVE  /\ s \o v \in Seq(S) /\ Len(s \o v) = Len(s) + 1
         /\ Len(s) \in Nat
         /\ \A i \in 1 .. Len(s) : (s \o v)[i] = s[i]
         /\ (s \o v)[Len(s) + 1] = v[1]
<1>1. Len(s) \in Nat
  BY LenProperties
<1>2. /\ s \o v \in Seq(S)
      /\ Len(s \o v) = Len(s) + Len(v)
      /\ \A i \in 1 .. Len(s) + Len(v) :
           (s \o v)[i] = IF i <= Len(s) THEN s[i] ELSE v[i - Len(s)]
  BY ConcatProperties
<1>3. (s \o v)[Len(s) + 1] = v[1]
  <2>1. Len(s) + 1 \in 1 .. Len(s) + Len(v) /\ ~(Len(s) + 1 <= Len(s))
    BY <1>1
  <2>2. Len(s) + 1 - Len(s) = 1
    BY <1>1
  <2> QED BY <1>2, <2>1, <2>2
<1>4. \A i \in 1 .. Len(s) : (s \o v)[i] = s[i]
  BY <1>1, <1>2
<1> QED BY <1>1, <1>2, <1>3, <1>4

LEMMA Below == \A q \in 1 .. 11 : \A p \in 1 .. q - 1 : p \in 1 .. 11
  OBVIOUS

\* The next addition.
LEMMA NextVarbind ==
  ASSUME NEW prefix \in {"wrsAlarmActive", "wrsEvent"}, NEW columns, NEW m,
         NEW n \in 0 .. 10, NEW s, Listed(s, n, prefix, columns, m)
  PROVE  Listed(s \o Varbind(prefix, columns, m, AllColumns[n + 1]), n + 1,
                prefix, columns, m)
<1> DEFINE col == AllColumns[n + 1]
           v == Varbind(prefix, columns, m, col)
<1>0. col \in ColumnSet
  BY ColumnsAreEleven
<1>1. s \in Seq(VarbindRecord) /\ v \in Seq(VarbindRecord)
  BY <1>0, OneVarbind DEF Listed
<1>2. CASE Sent(prefix, columns, m, col)
  <2>1. /\ Len(v) = 1 /\ v[1].col = col
        /\ v[1].value = Own(prefix, m, col) \/ Mistaken(prefix, col)
    BY <1>0, <1>2, OneVarbind
  <2> DEFINE t == s \o v
  <2>2. /\ t \in Seq(VarbindRecord) /\ Len(t) = Len(s) + 1
        /\ \A i \in 1 .. Len(s) : t[i] = s[i]
        /\ Len(s) \in Nat
        /\ t[Len(s) + 1] = v[1]
    <3> HIDE DEF v
    <3> QED BY <1>1, <2>1, OneMore
  <2> HIDE DEF v, t, col
  <2>3. \A i \in 1 .. Len(t) :
          /\ Sent(prefix, columns, m, t[i].col)
          /\ t[i].value = Own(prefix, m, t[i].col) \/ Mistaken(prefix, t[i].col)
          /\ \E p \in 1 .. n + 1 : t[i].col = AllColumns[p]
    <3> TAKE i \in 1 .. Len(t)
    <3>1. CASE i \in 1 .. Len(s)
      <4>1. t[i] = s[i]
        BY <2>2, <3>1
      <4>2. \E p \in 1 .. n : s[i].col = AllColumns[p]
        BY <3>1 DEF Listed
      <4>3. /\ Sent(prefix, columns, m, s[i].col)
            /\ s[i].value = Own(prefix, m, s[i].col) \/ Mistaken(prefix, s[i].col)
        BY <3>1 DEF Listed
      <4> QED BY <4>1, <4>2, <4>3
    <3>2. CASE i = Len(s) + 1
      BY <1>2, <2>1, <2>2, <3>2 DEF col
    <3> QED BY <1>1, <2>2, <3>1, <3>2
  <2>4. \A p \in 1 .. n + 1 : Sent(prefix, columns, m, AllColumns[p]) =>
          \E i \in 1 .. Len(t) : t[i].col = AllColumns[p]
    <3> SUFFICES ASSUME NEW p \in 1 .. n + 1,
                        Sent(prefix, columns, m, AllColumns[p])
                 PROVE  \E i \in 1 .. Len(t) : t[i].col = AllColumns[p]
      OBVIOUS
    <3>1. CASE p = n + 1
      BY <1>1, <2>1, <2>2, <3>1 DEF col
    <3>2. CASE p \in 1 .. n
      <4>1. PICK i \in 1 .. Len(s) : s[i].col = AllColumns[p]
        BY <3>2 DEF Listed
      <4> QED BY <2>2, <4>1
    <3> QED BY <3>1, <3>2
  <2>5. \A j \in 1 .. Len(t) : \A i \in 1 .. j - 1 :
          \E q \in 1 .. n + 1 : \E p \in 1 .. q - 1 :
            t[i].col = AllColumns[p] /\ t[j].col = AllColumns[q]
    <3> TAKE j \in 1 .. Len(t)
    <3> TAKE i \in 1 .. j - 1
    <3>1. CASE j \in 1 .. Len(s)
      <4>1. PICK q \in 1 .. n : \E p \in 1 .. q - 1 :
              s[i].col = AllColumns[p] /\ s[j].col = AllColumns[q]
        BY <3>1 DEF Listed
      <4>2. i \in 1 .. Len(s)
        BY <2>2, <3>1
      <4> QED BY <2>2, <3>1, <4>1, <4>2
    <3>2. CASE j = Len(s) + 1
      <4>1. i \in 1 .. Len(s)
        BY <1>1, <3>2
      <4>2. PICK p \in 1 .. n : s[i].col = AllColumns[p]
        BY <4>1 DEF Listed
      <4> QED BY <2>1, <2>2, <3>2, <4>1, <4>2 DEF col
    <3> QED BY <1>1, <2>2, <3>1, <3>2
  <2>6. Listed(t, n + 1, prefix, columns, m)
    BY <2>2, <2>3, <2>4, <2>5 DEF Listed
  <2> QED BY <2>6 DEF t, v, col
<1>3. CASE ~Sent(prefix, columns, m, col)
  <2>1. s \o v = s
    BY <1>0, <1>1, <1>3, OneVarbind
  <2> HIDE DEF v
  <2>2. \A p \in 1 .. n + 1 : Sent(prefix, columns, m, AllColumns[p]) =>
          \E i \in 1 .. Len(s) : s[i].col = AllColumns[p]
    BY <1>3 DEF Listed
  <2>3. \A j \in 1 .. Len(s) : \A i \in 1 .. j - 1 :
          \E q \in 1 .. n + 1 : \E p \in 1 .. q - 1 :
            s[i].col = AllColumns[p] /\ s[j].col = AllColumns[q]
    <3> TAKE j \in 1 .. Len(s)
    <3> TAKE i \in 1 .. j - 1
    <3>1. PICK q \in 1 .. n : \E p \in 1 .. q - 1 :
            s[i].col = AllColumns[p] /\ s[j].col = AllColumns[q]
      BY DEF Listed
    <3>2. q \in 1 .. n + 1
      OBVIOUS
    <3> QED BY <3>1, <3>2
  <2>4. \A i \in 1 .. Len(s) :
          /\ Sent(prefix, columns, m, s[i].col)
          /\ s[i].value = Own(prefix, m, s[i].col) \/ Mistaken(prefix, s[i].col)
          /\ \E p \in 1 .. n + 1 : s[i].col = AllColumns[p]
    <3> TAKE i \in 1 .. Len(s)
    <3>1. \E p \in 1 .. n : s[i].col = AllColumns[p]
      BY DEF Listed
    <3>2. /\ Sent(prefix, columns, m, s[i].col)
          /\ s[i].value = Own(prefix, m, s[i].col) \/ Mistaken(prefix, s[i].col)
      BY DEF Listed
    <3> QED BY <3>1, <3>2
  <2>5. Listed(s, n + 1, prefix, columns, m)
    BY <1>1, <2>2, <2>3, <2>4 DEF Listed
  <2> QED BY <2>1, <2>5 DEF v
<1> QED BY <1>2, <1>3

\* All eleven additions.
LEMMA VarbindsAreListed ==
  ASSUME NEW prefix \in {"wrsAlarmActive", "wrsEvent"}, NEW columns, NEW m
  PROVE  Listed(Varbinds(prefix, columns, m), 11, prefix, columns, m)
<1> DEFINE V(n) == Varbind(prefix, columns, m, AllColumns[n])
           L(s, n) == Listed(s, n, prefix, columns, m)
<1>0. V(1) = << >> \o V(1)
  BY ColumnsAreEleven, OneVarbind
<1>1. L(<< >>, 0)
  BY DEF Listed
<1>2. \A n \in 0 .. 10 : \A s : L(s, n) => L(s \o V(n + 1), n + 1)
  BY NextVarbind
<1> HIDE DEF V, L
<1>a. L(V(1), 1)
  <2>1. 0 \in 0 .. 10 /\ 0 + 1 = 1
    OBVIOUS
  <2>2. L(<< >> \o V(0 + 1), 0 + 1)
    BY <1>1, <1>2, <2>1
  <2> QED BY <1>0, <2>1, <2>2
<1>b. L(V(1) \o V(2), 2)
  BY <1>a, <1>2
<1>c. L(V(1) \o V(2) \o V(3), 3)
  BY <1>b, <1>2
<1>d. L(V(1) \o V(2) \o V(3) \o V(4), 4)
  BY <1>c, <1>2
<1>e. L(V(1) \o V(2) \o V(3) \o V(4) \o V(5), 5)
  BY <1>d, <1>2
<1>f. L(V(1) \o V(2) \o V(3) \o V(4) \o V(5) \o V(6), 6)
  BY <1>e, <1>2
<1>g. L(V(1) \o V(2) \o V(3) \o V(4) \o V(5) \o V(6) \o V(7), 7)
  BY <1>f, <1>2
<1>h. L(V(1) \o V(2) \o V(3) \o V(4) \o V(5) \o V(6) \o V(7) \o V(8), 8)
  BY <1>g, <1>2
<1>i. L(V(1) \o V(2) \o V(3) \o V(4) \o V(5) \o V(6) \o V(7) \o V(8) \o V(9), 9)
  BY <1>h, <1>2
<1>j. L(V(1) \o V(2) \o V(3) \o V(4) \o V(5) \o V(6) \o V(7) \o V(8) \o V(9)
          \o V(10), 10)
  BY <1>i, <1>2
<1>k. L(V(1) \o V(2) \o V(3) \o V(4) \o V(5) \o V(6) \o V(7) \o V(8) \o V(9)
          \o V(10) \o V(11), 11)
  BY <1>j, <1>2
<1> QED BY <1>k DEF Varbinds, V, L
-----------------------------------------------------------------------------
(* From the places among the eleven columns to those among a notification's *)
(* objects, before which the Uuid goes.                                     *)

\* A list of the columns that are sent is a list of the objects, when these are
\* the same columns in the same order: place says where each of them went.
LEMMA ListedIsLists ==
  ASSUME NEW prefix, NEW columns, NEW m,
         NEW s, Listed(s, 11, prefix, columns, m),
         NEW objects, Len(objects) \in Nat,
         NEW place,
         \A p \in 1 .. 11 : AllColumns[p] \in columns =>
            /\ place[p] \in 1 .. Len(objects)
            /\ objects[place[p]] = AllColumns[p],
         \A q \in 1 .. 11 : \A p \in 1 .. q - 1 :
            AllColumns[p] \in columns /\ AllColumns[q] \in columns
               => place[p] < place[q],
         \A n \in 1 .. Len(objects) :
            objects[n] \in columns /\ \E p \in 1 .. 11 : AllColumns[p] = objects[n]
  PROVE  Lists(s, objects, prefix, m.alarm)
<1>1. ASSUME NEW i \in 1 .. Len(s)
      PROVE  /\ s[i].col \in {objects[n] : n \in 1 .. Len(objects)}
             /\ <<prefix, s[i].col>> \in m.alarm
  <2>1. PICK p \in 1 .. 11 : s[i].col = AllColumns[p]
    BY DEF Listed
  <2>2. Sent(prefix, columns, m, s[i].col)
    BY DEF Listed
  <2> QED BY <2>1, <2>2 DEF Sent
<1>2. ASSUME NEW n \in 1 .. Len(objects), <<prefix, objects[n]>> \in m.alarm
      PROVE  \E i \in 1 .. Len(s) : s[i].col = objects[n]
  <2>1. PICK p \in 1 .. 11 : AllColumns[p] = objects[n]
    OBVIOUS
  <2>2. Sent(prefix, columns, m, AllColumns[p])
    BY <1>2, <2>1 DEF Sent
  <2>3. \E i \in 1 .. Len(s) : s[i].col = AllColumns[p]
    BY <2>2 DEF Listed
  <2> QED BY <2>1, <2>3
<1>3. ASSUME NEW j \in 1 .. Len(s), NEW i \in 1 .. j - 1
      PROVE  \E q \in 1 .. Len(objects) : \E p \in 1 .. q - 1 :
                s[i].col = objects[p] /\ s[j].col = objects[q]
  <2>0. s \in Seq(VarbindRecord)
    BY DEF Listed
  <2>1. i \in 1 .. Len(s)
    BY <2>0, LenProperties
  <2>2. PICK q \in 1 .. 11 : \E p \in 1 .. q - 1 :
          s[i].col = AllColumns[p] /\ s[j].col = AllColumns[q]
    BY DEF Listed
  <2>3. PICK p \in 1 .. q - 1 :
          s[i].col = AllColumns[p] /\ s[j].col = AllColumns[q]
    BY <2>2
  <2>4. s[i].col \in columns /\ s[j].col \in columns
    BY <2>1 DEF Listed, Sent
  <2>a. p \in 1 .. 11
    BY Below
  <2>b. AllColumns[p] \in columns /\ AllColumns[q] \in columns
    BY <2>3, <2>4
  <2>5. p \in 1 .. 11 /\ AllColumns[p] \in columns /\ AllColumns[q] \in columns
    BY <2>a, <2>b
  <2>6. /\ place[p] \in 1 .. Len(objects) /\ objects[place[p]] = s[i].col
        /\ place[q] \in 1 .. Len(objects) /\ objects[place[q]] = s[j].col
    BY <2>3, <2>5
  <2>7. place[p] < place[q]
    BY <2>3, <2>5
  <2> QED BY <2>6, <2>7
<1>4. ASSUME NEW col
      PROVE  (\E i \in 1 .. Len(s) : col = s[i].col) <=>
             (\E n \in 1 .. Len(objects) : col = objects[n]) /\ <<prefix, col>> \in m.alarm
  <2>1. ASSUME NEW i \in 1 .. Len(s), col = s[i].col
        PROVE  (\E n \in 1 .. Len(objects) : col = objects[n]) /\ <<prefix, col>> \in m.alarm
    BY <1>1, <2>1
  <2>2. ASSUME NEW n \in 1 .. Len(objects), col = objects[n], <<prefix, col>> \in m.alarm
        PROVE  \E i \in 1 .. Len(s) : col = s[i].col
    BY <1>2, <2>2
  <2> QED BY <2>1, <2>2
<1>5. {s[i].col : i \in 1 .. Len(s)} =
        {col \in {objects[n] : n \in 1 .. Len(objects)} : <<prefix, col>> \in m.alarm}
  BY <1>4
<1> QED BY <1>3, <1>5 DEF Lists

\* The places of the columns in the three kinds of notification.
DetailPlace == [p \in 1 .. 11 |-> p]
ClearPlace == [p \in 1 .. 11 |-> IF p = 6 THEN 5 ELSE p]
HierarchicalClearPlace ==
  [p \in 1 .. 11 |-> IF p = 1 THEN 1 ELSE IF p = 6 THEN 4 ELSE p - 1]

LEMMA UuidFirst ==
  ASSUME NEW objects \in Seq(ColumnSet), NEW t \in Seq(ColumnSet),
         Len(t) = Len(objects) + 1, t[1] = "Uuid",
         \A p \in 1 .. Len(objects) : \A q \in 1 .. Len(t) :
            q = p + 1 => t[q] = objects[p]
  PROVE  <<"Uuid">> \o objects = t
<1>1. <<"Uuid">> \in Seq(ColumnSet) /\ Len(<<"Uuid">>) = 1 /\ <<"Uuid">>[1] = "Uuid"
  BY DEF ColumnSet, AllColumns
<1>2. Len(objects) \in Nat
  BY LenProperties
<1> DEFINE u == <<"Uuid">>
<1> HIDE DEF u
<1>3. /\ u \o objects \in Seq(ColumnSet)
      /\ Len(u \o objects) = Len(t)
      /\ \A p \in 1 .. Len(t) : (u \o objects)[p] = IF p <= 1 THEN u[p] ELSE objects[p - 1]
  BY <1>1, <1>2, ConcatProperties DEF u
<1>4. \A p \in 1 .. Len(t) : (u \o objects)[p] = t[p]
  <2> TAKE p \in 1 .. Len(t)
  <2>1. CASE p = 1
    BY <1>1, <1>3, <2>1 DEF u
  <2>2. CASE p # 1
    <3>1. p - 1 \in 1 .. Len(objects) /\ p = (p - 1) + 1 /\ ~(p <= 1)
      BY <1>2, <2>2
    <3>2. t[p] = objects[p - 1]
      BY <3>1
    <3>3. (u \o objects)[p] = objects[p - 1]
      BY <1>3, <3>1
    <3> QED BY <3>2, <3>3
  <2> QED BY <2>1, <2>2
<1>5. u \o objects = t
  BY <1>3, <1>4, SeqEqual
<1> QED BY <1>5 DEF u

LEMMA DetailsListed ==
  ASSUME NEW prefix, NEW m, NEW s, Listed(s, 11, prefix, ColumnSet, m)
  PROVE  Lists(s, <<"Uuid">> \o Details, prefix, m.alarm)
<1>1. <<"Uuid">> \o Details = AllColumns
  <2>1. Details \in Seq(ColumnSet) /\ AllColumns \in Seq(ColumnSet)
    BY DEF Details, AllColumns, ColumnSet
  <2>4. Len(Details) = 10 /\ Len(AllColumns) = 11
    BY DEF Details, AllColumns
  <2>2. AllColumns[1] = "Uuid" /\ Len(AllColumns) = Len(Details) + 1
    BY DEF Details, AllColumns
  <2>3. ASSUME NEW p \in 1 .. Len(Details), NEW q \in 1 .. Len(AllColumns), q = p + 1
        PROVE  AllColumns[q] = Details[p]
    <3>1. \/ p = 1 \/ p = 2 \/ p = 3 \/ p = 4 \/ p = 5 \/ p = 6 \/ p = 7 \/ p = 8
          \/ p = 9 \/ p = 10
      BY <2>4
    <3> QED BY <2>3, <3>1 DEF Details, AllColumns
  <2> QED BY <2>1, <2>2, <2>3, UuidFirst
<1>2. \A p \in 1 .. 11 : DetailPlace[p] = p
  BY DEF DetailPlace
<1>3. \A p \in 1 .. 11 : AllColumns[p] \in ColumnSet =>
         DetailPlace[p] \in 1 .. Len(AllColumns) /\ AllColumns[DetailPlace[p]] = AllColumns[p]
  BY <1>2, ColumnsAreEleven
<1>4. \A q \in 1 .. 11 : \A p \in 1 .. q - 1 :
         AllColumns[p] \in ColumnSet /\ AllColumns[q] \in ColumnSet
            => DetailPlace[p] < DetailPlace[q]
  BY <1>2
<1>5. /\ Len(AllColumns) \in Nat
      /\ \A n \in 1 .. Len(AllColumns) : AllColumns[n] \in ColumnSet
           /\ \E p \in 1 .. 11 : AllColumns[p] = AllColumns[n]
  BY ColumnsAreEleven
<1>6. Lists(s, AllColumns, prefix, m.alarm)
  BY <1>3, <1>4, <1>5, ListedIsLists
<1> QED BY <1>1, <1>6

LEMMA ClearListed ==
  ASSUME NEW prefix, NEW m, NEW s, Listed(s, 11, prefix, ClearColumns, m)
  PROVE  Lists(s, <<"Uuid">> \o Notification("wrsAlarmClear").objects, prefix, m.alarm)
<1> DEFINE objects == << "Uuid", "AlarmId", "EntityInstanceId", "DateAndTime",
                         "ReasonText" >>
<1>1. <<"Uuid">> \o Notification("wrsAlarmClear").objects = objects
  <2> DEFINE mib == << "AlarmId", "EntityInstanceId", "DateAndTime", "ReasonText" >>
  <2>1. Notification("wrsAlarmClear").objects = mib
    BY DEF Notification
  <2>2. mib \in Seq(ColumnSet) /\ objects \in Seq(ColumnSet)
    BY DEF ColumnSet, AllColumns
  <2>3. Len(objects) = Len(mib) + 1 /\ objects[1] = "Uuid"
    OBVIOUS
  <2>4. ASSUME NEW p \in 1 .. Len(mib), NEW q \in 1 .. Len(objects), q = p + 1
        PROVE  objects[q] = mib[p]
    <3>1. p = 1 \/ p = 2 \/ p = 3 \/ p = 4
      OBVIOUS
    <3> QED BY <2>4, <3>1
  <2> HIDE DEF mib, objects
  <2> QED BY <2>1, <2>2, <2>3, <2>4, UuidFirst
<1>2. \A p \in 1 .. 11 : AllColumns[p] \in ClearColumns => p \in {1, 2, 3, 4, 6}
  BY DEF AllColumns, ClearColumns
<1>3. \A p \in {1, 2, 3, 4, 6} : objects[ClearPlace[p]] = AllColumns[p]
  BY DEF AllColumns, ClearPlace
<1>4. Len(objects) = 5 /\ Len(objects) \in Nat
  OBVIOUS
<1>5. \A n \in 1 .. Len(objects) :
         objects[n] \in ClearColumns /\ \E p \in 1 .. 11 : AllColumns[p] = objects[n]
  <2>1. \A n \in 1 .. 5 : objects[n] = AllColumns[IF n = 5 THEN 6 ELSE n]
    BY DEF AllColumns
  <2> QED BY <1>4, <2>1 DEF ClearColumns
<1>6. \A p \in {1, 2, 3, 4, 6} : ClearPlace[p] = IF p = 6 THEN 5 ELSE p
  BY DEF ClearPlace
<1> HIDE DEF objects
<1>7. \A p \in 1 .. 11 : AllColumns[p] \in ClearColumns =>
         ClearPlace[p] \in 1 .. Len(objects) /\ objects[ClearPlace[p]] = AllColumns[p]
  BY <1>2, <1>3, <1>4, <1>6
<1>8. \A q \in 1 .. 11 : \A p \in 1 .. q - 1 :
         AllColumns[p] \in ClearColumns /\ AllColumns[q] \in ClearColumns
            => ClearPlace[p] < ClearPlace[q]
  BY <1>2, <1>6
<1>9. Lists(s, objects, prefix, m.alarm)
  BY <1>4, <1>5, <1>7, <1>8, ListedIsLists
<1> QED BY <1>1, <1>9

LEMMA HierarchicalClearListed ==
  ASSUME NEW prefix, NEW m, NEW s,
         Listed(s, 11, prefix, HierarchicalClearColumns, m)
  PROVE  Lists(s, <<"Uuid">> \o Notification("wrsAlarmHierarchicalClear").objects,
               prefix, m.alarm)
<1> DEFINE objects == << "Uuid", "EntityInstanceId", "DateAndTime", "ReasonText" >>
<1>1. <<"Uuid">> \o Notification("wrsAlarmHierarchicalClear").objects = objects
  <2> DEFINE mib == << "EntityInstanceId", "DateAndTime", "ReasonText" >>
  <2>1. Notification("wrsAlarmHierarchicalClear").objects = mib
    BY DEF Notification
  <2>2. mib \in Seq(ColumnSet) /\ objects \in Seq(ColumnSet)
    BY DEF ColumnSet, AllColumns
  <2>3. Len(objects) = Len(mib) + 1 /\ objects[1] = "Uuid"
    OBVIOUS
  <2>4. ASSUME NEW p \in 1 .. Len(mib), NEW q \in 1 .. Len(objects), q = p + 1
        PROVE  objects[q] = mib[p]
    <3>1. p = 1 \/ p = 2 \/ p = 3
      OBVIOUS
    <3> QED BY <2>4, <3>1
  <2> HIDE DEF mib, objects
  <2> QED BY <2>1, <2>2, <2>3, <2>4, UuidFirst
<1>2. \A p \in 1 .. 11 :
         AllColumns[p] \in HierarchicalClearColumns => p \in {1, 3, 4, 6}
  BY DEF AllColumns, HierarchicalClearColumns
<1>3. \A p \in {1, 3, 4, 6} : objects[HierarchicalClearPlace[p]] = AllColumns[p]
  BY DEF AllColumns, HierarchicalClearPlace
<1>4. Len(objects) = 4 /\ Len(objects) \in Nat
  OBVIOUS
<1>5. \A n \in 1 .. Len(objects) :
         /\ objects[n] \in HierarchicalClearColumns
         /\ \E p \in 1 .. 11 : AllColumns[p] = objects[n]
  <2>1. \A n \in 1 .. 4 :
          objects[n] = AllColumns[IF n = 1 THEN 1 ELSE IF n = 4 THEN 6 ELSE n + 1]
    BY DEF AllColumns
  <2> QED BY <1>4, <2>1 DEF HierarchicalClearColumns
<1>6. \A p \in {1, 3, 4, 6} : HierarchicalClearPlace[p] =
         IF p = 1 THEN 1 ELSE IF p = 6 THEN 4 ELSE p - 1
  BY DEF HierarchicalClearPlace
<1> HIDE DEF objects
<1>7. \A p \in 1 .. 11 : AllColumns[p] \in HierarchicalClearColumns =>
         HierarchicalClearPlace[p] \in 1 .. Len(objects) /\ objects[HierarchicalClearPlace[p]] = AllColumns[p]
  BY <1>2, <1>3, <1>4, <1>6
<1>8. \A q \in 1 .. 11 : \A p \in 1 .. q - 1 :
         AllColumns[p] \in HierarchicalClearColumns /\ AllColumns[q] \in HierarchicalClearColumns
            => HierarchicalClearPlace[p] < HierarchicalClearPlace[q]
  BY <1>2, <1>6
<1>9. Lists(s, objects, prefix, m.alarm)
  BY <1>4, <1>5, <1>7, <1>8, ListedIsLists
<1> QED BY <1>1, <1>9
-----------------------------------------------------------------------------
(* The invariant.                                                          *)

\* The outcome is that of the message which arrived.
AlarmTrapInv ==
  /\ message \in Message
  /\ outcome = Pending \/ outcome = ProcessJsonAlarm(message)

LEMMA OutcomeIsTheMessages == TrapSpec => []AlarmTrapInv
<1>1. TrapInit => AlarmTrapInv
  BY DEF TrapInit, AlarmTrapInv
<1>2. AlarmTrapInv /\ [Process]_trapVars => AlarmTrapInv'
  BY DEF AlarmTrapInv, Process, trapVars
<1> QED BY <1>1, <1>2, PTL DEF TrapSpec

\* The columns that an operation's send_* function looks for.
Columns(op) ==
  CASE op = "wrsAlarmClear"             -> ClearColumns
    [] op = "wrsAlarmHierarchicalClear" -> HierarchicalClearColumns
    [] OTHER                            -> ColumnSet

\* The trap that each operation's send_* function sends.
LEMMA TrapOfOperation ==
  ASSUME NEW m, m.op \notin {NoOperation, "warmStart"}
  PROVE  ProcessJsonAlarm(m) =
           Trap(Notification(m.op).oid, Prefix(m.op), Columns(m.op), m)
<1>1. CASE m.op = "wrsAlarmClear"
  BY <1>1 DEF ProcessJsonAlarm, Notification, Prefix, Columns, Clear
<1>2. CASE m.op = "wrsAlarmHierarchicalClear"
  BY <1>2 DEF ProcessJsonAlarm, Notification, Prefix, Columns, HierarchicalClear
<1>3. CASE m.op = "wrsAlarmMessage"
  BY <1>3 DEF ProcessJsonAlarm, Notification, Prefix, Columns, EventMessage
<1>4. CASE m.op = "wrsAlarmWarning"
  BY <1>4 DEF ProcessJsonAlarm, Notification, Prefix, Columns, Warning
<1>5. CASE m.op = "wrsAlarmMinor"
  BY <1>5 DEF ProcessJsonAlarm, Notification, Prefix, Columns, Minor
<1>6. CASE m.op = "wrsAlarmMajor"
  BY <1>6 DEF ProcessJsonAlarm, Notification, Prefix, Columns, Major
<1>7. CASE m.op = "wrsAlarmCritical"
  BY <1>7 DEF ProcessJsonAlarm, Notification, Prefix, Columns, Critical
<1>8. CASE m.op \notin {"wrsAlarmClear", "wrsAlarmHierarchicalClear", "wrsAlarmMessage",
                        "wrsAlarmWarning", "wrsAlarmMinor", "wrsAlarmMajor",
                        "wrsAlarmCritical"}
  BY <1>8 DEF ProcessJsonAlarm, Notification, Prefix, Columns, AlarmMessage
<1> QED BY <1>1, <1>2, <1>3, <1>4, <1>5, <1>6, <1>7, <1>8

\* These columns are, in their order, the Uuid and the OBJECTS of the MIB's
\* notification.
LEMMA ColumnsOfOperation ==
  ASSUME NEW op, NEW prefix, NEW m, NEW s, Listed(s, 11, prefix, Columns(op), m)
  PROVE  Lists(s, <<"Uuid">> \o Notification(op).objects, prefix, m.alarm)
<1>1. CASE op = "wrsAlarmClear"
  <2>1. Columns(op) = ClearColumns
    BY <1>1 DEF Columns
  <2> QED BY <1>1, <2>1, ClearListed
<1>2. CASE op = "wrsAlarmHierarchicalClear"
  <2>1. Columns(op) = HierarchicalClearColumns
    BY <1>2 DEF Columns
  <2> QED BY <1>2, <2>1, HierarchicalClearListed
<1>3. CASE op \notin {"wrsAlarmClear", "wrsAlarmHierarchicalClear"}
  <2>1. Notification(op).objects = Details /\ Columns(op) = ColumnSet
    BY <1>3 DEF Notification, Columns
  <2> QED BY <2>1, DetailsListed
<1> QED BY <1>1, <1>2, <1>3

\* A send_* function meets no null text when the texts among the notification's
\* objects are given: it looks for no other texts.
LEMMA NoStrlenOfNull ==
  ASSUME NEW m \in Message, m.alarm # NoAlarm, TextsGiven(m),
         NEW s, Listed(s, 11, Prefix(m.op), Columns(m.op), m)
  PROVE  ~StrlenOfNull(Prefix(m.op), Columns(m.op), m)
<1> DEFINE prefix == Prefix(m.op)
           columns == Columns(m.op)
           objects == <<"Uuid">> \o Notification(m.op).objects
<1>1. Lists(s, objects, prefix, m.alarm)
  BY ColumnsOfOperation
<1>2. \A n \in 1 .. Len(objects) :
         <<prefix, objects[n]>> \in m.null => objects[n] \in IntegerColumns
  BY DEF TextsGiven
<1>3. m.null \subseteq m.alarm
  BY MessageAssumption
<1>4. Listed(s, 11, prefix, columns, m)
  OBVIOUS
<1> HIDE DEF prefix, columns, objects
<1> SUFFICES ASSUME NEW col \in columns \cap TextColumns, <<prefix, col>> \in m.null
             PROVE  FALSE
  BY DEF StrlenOfNull, prefix, columns
<1>5. PICK p \in 1 .. 11 : col = AllColumns[p]
  BY ColumnsAreEleven DEF TextColumns, ColumnSet
<1>6. PICK i \in 1 .. Len(s) : s[i].col = col
  BY <1>3, <1>4, <1>5 DEF Listed, Sent
<1>7. PICK n \in 1 .. Len(objects) : objects[n] = col
  <2>1. {s[j].col : j \in 1 .. Len(s)} =
          {c \in {objects[n] : n \in 1 .. Len(objects)} : <<prefix, c>> \in m.alarm}
    BY <1>1 DEF Lists
  <2>2. col \in {s[j].col : j \in 1 .. Len(s)}
    BY <1>6
  <2> QED BY <2>1, <2>2
<1> QED BY <1>2, <1>7 DEF TextColumns

\* Every message for an alarm or an event, whatever its operation and whichever
\* members it has, null or not, becomes the one notification that the MIB defines
\* for it, with the objects the message has, in order, none twice, and their
\* values; unless a text among these is null.
THEOREM TrapsAreFaithful == TrapSpec => []AlarmTrapFaithful
<1>1. AlarmTrapInv => AlarmTrapFaithful
  <2> SUFFICES ASSUME AlarmTrapInv, outcome # Pending, message.alarm # NoAlarm,
                      TextsGiven(message), message.op \notin {NoOperation, "warmStart"}
               PROVE  AlarmTrapFaithful
    BY DEF AlarmTrapFaithful
  <2> DEFINE op == message.op
             prefix == Prefix(op)
             columns == Columns(op)
             s == Varbinds(prefix, columns, message)
  <2>1. message \in Message /\ outcome = ProcessJsonAlarm(message)
    BY DEF AlarmTrapInv
  <2>2. Listed(s, 11, prefix, columns, message)
    <3>1. prefix \in {"wrsAlarmActive", "wrsEvent"}
      BY DEF Prefix
    <3> HIDE DEF prefix, columns
    <3> QED BY <3>1, VarbindsAreListed
  <2>3. outcome = Done(<< [oid |-> Notification(op).oid, varbinds |-> s] >>)
    <3>1. ~StrlenOfNull(prefix, columns, message)
      BY <2>1, <2>2, NoStrlenOfNull
    <3>2. outcome = Trap(Notification(op).oid, prefix, columns, message)
      BY <2>1, TrapOfOperation
    <3> QED BY <3>1, <3>2 DEF Trap
  <2>4. Lists(s, <<"Uuid">> \o Notification(op).objects, prefix, message.alarm)
    BY <2>2, ColumnsOfOperation
  <2>5. \A i \in 1 .. Len(s) :
           \/ s[i].value = IF <<prefix, s[i].col>> \in message.null
                             THEN Zero ELSE <<prefix, s[i].col>>
           \/ prefix = "wrsEvent"
                /\ s[i].col \in {"ProbableCause", "ServiceAffecting"}
    BY <2>2 DEF Listed, Mistaken, Own
  <2> HIDE DEF s
  <2>6. /\ outcome.result = "done" /\ Len(outcome.traps) = 1
        /\ outcome.traps[1].oid = Notification(op).oid
        /\ outcome.traps[1].varbinds = s
    BY <2>3 DEF Done
  <2> QED BY <2>4, <2>5, <2>6 DEF AlarmTrapFaithful
<1> QED BY <1>1, OutcomeIsTheMessages, PTL
=============================================================================
