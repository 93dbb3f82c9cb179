------------------------------ MODULE AuditProofs ------------------------------
(***************************************************************************)
(* What the audit log shows, for every number of requests and however      *)
(* their managers number them, checked by TLAPS.                           *)
(***************************************************************************)
EXTENDS Audit, TLAPS

Record == [kind : Kind, reqid : Nat, of : Request]

HeadersOf(l) == {i \in DOMAIN l : l[i].kind = "header"}

(* The parts of the inductive invariant, of a log l and a recorded         *)
(* transaction q.                                                          *)

Typed(l) == l \in Seq(Record) /\ \A i \in DOMAIN l : l[i].reqid = Reqid[l[i].of]

\* What is recorded is the request of the last header.
LastHeader(l, q) ==
  \/ q = [transid |-> 0, reqid |-> 0] /\ HeadersOf(l) = {}
  \/ \E h \in HeadersOf(l) :
       /\ \A k \in HeadersOf(l) : k <= h
       /\ q = Recorded(l[h].of)

Attributed(l) ==
  \A i \in DOMAIN l :
    l[i].kind = "results" /\ l[i].reqid # 0 =>
      \E h \in HeadersOf(l) : h < i /\ l[h].reqid = l[i].reqid

RepeatsApart(l) ==
  \A i, j \in HeadersOf(l) :
    i < j /\ l[i].of = l[j].of =>
      \E k \in HeadersOf(l) : i < k /\ k < j /\ l[k].of # l[i].of

LogGood(l, q) ==
  Typed(l) /\ LastHeader(l, q) /\ Attributed(l) /\ RepeatsApart(l)

IInv == TypeOK /\ LogGood(log, req)
-----------------------------------------------------------------------------
LEMMA EntryTyped ==
  ASSUME NEW kind \in Kind, NEW r \in Request
  PROVE  /\ Entry(kind, r) \in Record
         /\ Entry(kind, r).kind = kind
         /\ Entry(kind, r).of = r
         /\ Entry(kind, r).reqid = Reqid[r]
  BY AuditAssumption DEF Entry, Record

LEMMA Appended ==
  ASSUME NEW l \in Seq(Record), NEW e \in Record
  PROVE  /\ Append(l, e) \in Seq(Record)
         /\ Len(l) \in Nat
         /\ DOMAIN l = 1 .. Len(l)
         /\ DOMAIN Append(l, e) = 1 .. Len(l) + 1
         /\ \A i \in 1 .. Len(l) : Append(l, e)[i] = l[i]
         /\ Append(l, e)[Len(l) + 1] = e
  OBVIOUS

\* A record that is no header may follow, results only under a reqid that a
\* header has, or under 0.
LEMMA OtherRecord ==
  ASSUME NEW l, NEW q, LogGood(l, q),
         NEW kind \in Kind \ {"header"}, NEW r \in Request,
         kind = "results" /\ Reqid[r] # 0 =>
           \E h \in HeadersOf(l) : l[h].reqid = Reqid[r]
  PROVE  LogGood(Append(l, Entry(kind, r)), q)
<1> DEFINE e == Entry(kind, r)
           m == Append(l, e)
<1>1. /\ e \in Record /\ e.kind = kind /\ e.of = r /\ e.reqid = Reqid[r]
  BY EntryTyped
<1>2. l \in Seq(Record)
  BY DEF LogGood, Typed
<1> HIDE DEF e
<1>3. /\ m \in Seq(Record) /\ Len(l) \in Nat
      /\ DOMAIN l = 1 .. Len(l) /\ DOMAIN m = 1 .. Len(l) + 1
      /\ \A i \in 1 .. Len(l) : m[i] = l[i]
      /\ m[Len(l) + 1] = e
  BY <1>1, <1>2, Appended
<1> HIDE DEF m
<1>4. HeadersOf(m) = HeadersOf(l) /\ \A h \in HeadersOf(l) : h \in 1 .. Len(l)
  BY <1>1, <1>3 DEF HeadersOf
<1>5. Typed(m)
  BY <1>1, <1>3 DEF LogGood, Typed
<1>6. LastHeader(m, q)
  BY <1>3, <1>4 DEF LogGood, LastHeader
<1>7. Attributed(m)
  <2> SUFFICES ASSUME NEW i \in DOMAIN m, m[i].kind = "results", m[i].reqid # 0
               PROVE  \E h \in HeadersOf(m) : h < i /\ m[h].reqid = m[i].reqid
    BY DEF Attributed
  <2>1. CASE i = Len(l) + 1
    BY <2>1, <1>1, <1>3, <1>4
  <2>2. CASE i \in 1 .. Len(l)
    BY <2>2, <1>3, <1>4 DEF LogGood, Attributed
  <2> QED BY <2>1, <2>2, <1>3
<1>8. RepeatsApart(m)
  BY <1>3, <1>4 DEF LogGood, RepeatsApart
<1> QED BY <1>5, <1>6, <1>7, <1>8 DEF LogGood, m, e

\* The header of a request that is not recorded may follow, when it is
\* recorded with it.
LEMMA HeaderRecord ==
  ASSUME NEW l, NEW q, LogGood(l, q), NEW r \in Request, q # Recorded(r)
  PROVE  LogGood(Append(l, Entry("header", r)), Recorded(r))
<1> DEFINE e == Entry("header", r)
           m == Append(l, e)
<1>1. e \in Record /\ e.kind = "header" /\ e.of = r /\ e.reqid = Reqid[r]
  BY EntryTyped DEF Kind
<1>2. l \in Seq(Record)
  BY DEF LogGood, Typed
<1> HIDE DEF e
<1>3. /\ m \in Seq(Record) /\ Len(l) \in Nat
      /\ DOMAIN l = 1 .. Len(l) /\ DOMAIN m = 1 .. Len(l) + 1
      /\ \A i \in 1 .. Len(l) : m[i] = l[i]
      /\ m[Len(l) + 1] = e
  BY <1>1, <1>2, Appended
<1> HIDE DEF m
<1>4. /\ HeadersOf(m) = HeadersOf(l) \cup {Len(l) + 1}
      /\ \A h \in HeadersOf(l) : h \in 1 .. Len(l) /\ m[h] = l[h]
  BY <1>1, <1>3 DEF HeadersOf
<1>5. Typed(m)
  BY <1>1, <1>3 DEF LogGood, Typed
<1>6. LastHeader(m, Recorded(r))
  BY <1>1, <1>3, <1>4 DEF LastHeader
<1>7. Attributed(m)
  <2> SUFFICES ASSUME NEW i \in DOMAIN m, m[i].kind = "results", m[i].reqid # 0
               PROVE  \E h \in HeadersOf(m) : h < i /\ m[h].reqid = m[i].reqid
    BY DEF Attributed
  <2>1. i \in 1 .. Len(l) /\ m[i] = l[i]
    BY <1>1, <1>3
  <2> QED BY <2>1, <1>3, <1>4 DEF LogGood, Attributed
<1>8. RepeatsApart(m)
  <2> SUFFICES ASSUME NEW i \in HeadersOf(m), NEW j \in HeadersOf(m),
                      i < j, m[i].of = m[j].of
               PROVE  \E k \in HeadersOf(m) :
                        i < k /\ k < j /\ m[k].of # m[i].of
    BY DEF RepeatsApart
  <2>1. i \in HeadersOf(l)
    BY <1>3, <1>4
  <2>2. CASE j \in HeadersOf(l)
    BY <2>1, <2>2, <1>4 DEF LogGood, RepeatsApart
  <2>3. CASE j = Len(l) + 1
    <3>1. PICK h \in HeadersOf(l) :
            (\A k \in HeadersOf(l) : k <= h) /\ q = Recorded(l[h].of)
      BY <2>1 DEF LogGood, LastHeader
    <3>2. l[h].of # r /\ m[i].of = r
      BY <3>1, <2>3, <1>1, <1>3
    <3>3. h # i
      BY <3>2, <2>1, <1>4
    <3>4. i < h /\ h < j
      BY <3>1, <3>3, <2>1, <2>3, <1>3, <1>4
    <3> QED BY <3>2, <3>4, <1>4
  <2> QED BY <2>2, <2>3, <1>4
<1> QED BY <1>5, <1>6, <1>7, <1>8 DEF LogGood, m, e
-----------------------------------------------------------------------------
LEMMA Concatenated ==
  ASSUME NEW l \in Seq(Record), NEW e \in Record
  PROVE  l \o << >> = l /\ l \o <<e>> = Append(l, e)
  OBVIOUS

LEMMA InitGood == Init => IInv
<1> SUFFICES ASSUME Init PROVE IInv
  OBVIOUS
<1>1. TypeOK
  BY AuditAssumption DEF Init, TypeOK, Phase
<1>2. Typed(<< >>) /\ HeadersOf(<< >>) = {}
  BY DEF Typed, HeadersOf
<1>3. LogGood(log, req)
  BY <1>2 DEF Init, LogGood, LastHeader, Attributed, RepeatsApart
<1> QED BY <1>1, <1>3 DEF IInv

LEMMA BatchStep ==
  ASSUME IInv, NEW r \in Request, HandleBatch(r)
  PROVE  LogGood(log, req)'
<1> DEFINE q == IF NewTransaction(r) THEN Recorded(r) ELSE req
           l == log \o HeaderRecords(r)
<1>1. log \in Seq(Record) /\ LogGood(log, req)
  BY DEF IInv, LogGood, Typed
<1>2. LogGood(l, q)
  <2>1. CASE NewTransaction(r)
    <3>1. req # Recorded(r)
      BY <2>1 DEF NewTransaction, Recorded
    <3>2. l = Append(log, Entry("header", r))
      BY <2>1, <1>1, EntryTyped, Concatenated DEF HeaderRecords, Kind
    <3> QED BY <2>1, <3>1, <3>2, <1>1, HeaderRecord
  <2>2. CASE ~NewTransaction(r)
    BY <2>2, <1>1, Concatenated DEF HeaderRecords
  <2> QED BY <2>1, <2>2
<1>3. (q.transid = Transid[r] \/ q.reqid = Reqid[r]) /\ req' = q
  BY DEF NewTransaction, Recorded, HandleBatch, ResultRecords
<1>4. PICK results \in {<< >>, <<Entry("results", r)>>} : log' = l \o results
  BY DEF HandleBatch, ResultRecords
<1> HIDE DEF l, q
<1>5. /\ l \in Seq(Record)
      /\ \A h \in HeadersOf(l) : l[h] \in Record /\ l[h].reqid = Reqid[l[h].of]
  BY <1>2 DEF LogGood, Typed, HeadersOf
\* The batch's results come under a header.
<1>6. Reqid[r] # 0 => \E h \in HeadersOf(l) : l[h].reqid = Reqid[r]
  <2> SUFFICES ASSUME Reqid[r] # 0
               PROVE  \E h \in HeadersOf(l) : l[h].reqid = Reqid[r]
    OBVIOUS
  <2>1. Transid[r] # 0
    BY AuditAssumption
  <2>2. q # [transid |-> 0, reqid |-> 0]
    BY <1>3, <2>1
  <2>3. PICK h \in HeadersOf(l) : q = Recorded(l[h].of)
    BY <1>2, <2>2 DEF LogGood, LastHeader
  <2>4. l[h].of \in Request
    BY <1>5 DEF Record
  <2>5. Transid[l[h].of] = Transid[r] \/ Reqid[l[h].of] = Reqid[r]
    BY <1>3, <2>3 DEF Recorded
  <2>6. Reqid[l[h].of] = Reqid[r]
    BY <2>4, <2>5, AuditAssumption
  <2> QED BY <1>5, <2>6
<1>7. LogGood(log', q)
  <2>1. CASE results = << >>
    BY <2>1, <1>2, <1>4, <1>5, Concatenated
  <2>2. CASE results = <<Entry("results", r)>>
    <3>1. log' = Append(l, Entry("results", r))
      BY <2>2, <1>4, <1>5, EntryTyped, Concatenated DEF Kind
    <3> QED BY <3>1, <1>2, <1>6, OtherRecord DEF Kind
  <2> QED BY <2>1, <2>2
<1> QED BY <1>3, <1>7

LEMMA TypeStep ==
  ASSUME IInv, NEW r \in Request,
         AcmCheckInitial(r) \/ AcmCheck(r) \/ HandleBatch(r) \/ Respond(r),
         LogGood(log, req)'
  PROVE  TypeOK'
<1> USE AuditAssumption DEF IInv, TypeOK, Phase
<1>1. log' \in Seq([kind : Kind, reqid : Nat, of : Request])
  BY DEF LogGood, Typed, Record
<1>2. CASE AcmCheckInitial(r)
  BY <1>1, <1>2 DEF AcmCheckInitial, Becomes
<1>3. CASE AcmCheck(r)
  <2>1. batch[r] + 1 \in 0 .. MaxBatch /\ 0 \in 0 .. MaxBatch
    BY <1>3 DEF AcmCheck
  <2>2. \E n \in 0 .. MaxBatch : batch' = [batch EXCEPT ![r] = n]
    BY <1>3, <2>1 DEF AcmCheck
  <2>3. phase' \in [Request -> Phase] /\ req' = req
    <3>1. phase \in [Request -> Phase]
      OBVIOUS
    <3> HIDE DEF IInv, TypeOK, Phase
    <3>2. phase' = phase \/ \E p \in {"handle", "done"} : phase' = [phase EXCEPT ![r] = p]
      BY <1>3 DEF AcmCheck, Becomes
    <3>3. {"handle", "done"} \subseteq Phase
      BY DEF Phase
    <3>4. req' = req
      BY <1>3 DEF AcmCheck
    <3> QED BY <3>1, <3>2, <3>3, <3>4
  <2> QED BY <1>1, <2>3, <2>2
<1>4. CASE HandleBatch(r)
  BY <1>1, <1>4 DEF HandleBatch, ResultRecords, Recorded
<1>5. CASE Respond(r)
  BY <1>1, <1>5 DEF Respond, Becomes
<1> QED BY <1>2, <1>3, <1>4, <1>5

LEMMA Step == IInv /\ [Next]_vars => IInv'
<1> SUFFICES ASSUME IInv, [Next]_vars PROVE IInv'
  OBVIOUS
<1>1. log \in Seq(Record) /\ LogGood(log, req)
  BY DEF IInv, LogGood, Typed
<1>2. CASE UNCHANGED vars
  BY <1>2 DEF vars, IInv, TypeOK
<1>3. ASSUME NEW r \in Request,
             AcmCheckInitial(r) \/ AcmCheck(r) \/ HandleBatch(r) \/ Respond(r)
      PROVE  IInv'
  <2>1. CASE AcmCheckInitial(r)
    <3>1. \/ log' = log \o << >>
          \/ \E kind \in {"refused", "outside"} : log' = log \o <<Entry(kind, r)>>
      BY <2>1 DEF AcmCheckInitial, InitialRecords
    <3>2. \/ log' = log
          \/ \E kind \in {"refused", "outside"} : log' = Append(log, Entry(kind, r))
      BY <3>1, <1>1, EntryTyped, Concatenated DEF Kind
    <3>3. LogGood(log', req)
      BY <3>2, <1>1, OtherRecord DEF Kind
    <3> QED BY <2>1, <3>3, <1>3, TypeStep DEF AcmCheckInitial, IInv
  <2>2. CASE AcmCheck(r)
    <3>1. LogGood(log', req)
      BY <2>2, <1>1, OtherRecord DEF AcmCheck, Kind
    <3> QED BY <2>2, <3>1, <1>3, TypeStep DEF AcmCheck, IInv
  <2>3. CASE HandleBatch(r)
    BY <2>3, <1>3, BatchStep, TypeStep DEF IInv
  <2>4. CASE Respond(r)
    <3>1. LogGood(log, req)'
      BY <2>4, <1>1 DEF Respond
    <3> QED BY <3>1, <1>3, TypeStep DEF IInv
  <2> QED BY <1>3, <2>1, <2>2, <2>3, <2>4
<1> QED BY <1>2, <1>3 DEF Next

LEMMA Invariance == Spec => []IInv
  BY InitGood, Step, PTL DEF Spec

\* Results are never logged before a header with their reqid, whatever numbers
\* the managers choose and however the requests interleave.
THEOREM ResultsAreAttributed == Spec => []ResultsAttributed
<1>1. IInv => ResultsAttributed
  BY DEF IInv, LogGood, Attributed, ResultsAttributed, HeadersOf, Headers
<1> QED BY <1>1, Invariance, PTL

\* A header is repeated only behind the header of another request.
THEOREM HeadersRepeatApart == Spec => []HeaderRepeatsOnlyAfterAnother
<1>1. IInv => HeaderRepeatsOnlyAfterAnother
  BY DEF IInv, LogGood, RepeatsApart, HeaderRepeatsOnlyAfterAnother,
         HeadersOf, Headers
<1> QED BY <1>1, Invariance, PTL
-----------------------------------------------------------------------------
(* Every request leaves a trace.                                           *)

Traced(l, r) == \E i \in DOMAIN l : l[i].of = r

OwnReqid(r) ==
  Reqid[r] # 0 /\ \A s \in Request : Reqid[s] = Reqid[r] => s = r

\* A request that has met the handler is in the log from then on.
TraceInv ==
  \A r \in Request :
    OwnReqid(r) =>
      /\ phase[r] = "sent" => batch[r] = 0
      /\ phase[r] = "handle" /\ batch[r] > 0 => Traced(log, r)
      /\ phase[r] = "done" /\ (IsNext(r) \/ Outside[r] # "all")
           => Traced(log, r)

LEMMA TraceKept ==
  ASSUME NEW l \in Seq(Record), NEW kind \in Kind, NEW r \in Request,
         NEW m, m = Append(l, Entry(kind, r))
  PROVE  /\ m \in Seq(Record)
         /\ Traced(m, r)
         /\ \A s \in Request : Traced(l, s) => Traced(m, s)
<1>1. Entry(kind, r) \in Record /\ Entry(kind, r).of = r
  BY EntryTyped
<1>2. /\ m \in Seq(Record) /\ Len(l) \in Nat
      /\ DOMAIN l = 1 .. Len(l) /\ DOMAIN m = 1 .. Len(l) + 1
      /\ \A i \in 1 .. Len(l) : m[i] = l[i]
      /\ m[Len(l) + 1] = Entry(kind, r)
  BY <1>1, Appended
<1>3. Traced(m, r)
  BY <1>1, <1>2 DEF Traced
<1>4. \A s \in Request : Traced(l, s) => Traced(m, s)
  BY <1>2 DEF Traced
<1> QED BY <1>2, <1>3, <1>4

\* A request with a reqid of its own that is taken for no new transaction has
\* written the last header itself.
LEMMA KnownIsTraced ==
  ASSUME IInv, NEW r \in Request, OwnReqid(r), ~NewTransaction(r)
  PROVE  Traced(log, r)
<1>1. req.transid = Transid[r] \/ req.reqid = Reqid[r]
  BY DEF NewTransaction
<1>2. Transid[r] # 0 /\ Reqid[r] # 0
  BY AuditAssumption DEF OwnReqid
<1>3. req # [transid |-> 0, reqid |-> 0]
  BY <1>1, <1>2
<1>4. PICK h \in HeadersOf(log) : req = Recorded(log[h].of)
  BY <1>3 DEF IInv, LogGood, LastHeader
<1>5. log[h].of \in Request
  <2>1. log[h] \in Record
    BY <1>4 DEF IInv, LogGood, Typed, HeadersOf
  <2> QED BY <2>1 DEF Record
<1>6. Transid[log[h].of] = Transid[r] \/ Reqid[log[h].of] = Reqid[r]
  BY <1>1, <1>4 DEF Recorded
<1>7. log[h].of = r
  BY <1>5, <1>6, AuditAssumption DEF OwnReqid
<1> QED BY <1>4, <1>7 DEF Traced, HeadersOf

\* What a batch writes keeps all traces, and leaves one of its own request.
LEMMA BatchTraced ==
  ASSUME IInv, NEW r \in Request, HandleBatch(r)
  PROVE  /\ \A s \in Request : Traced(log, s) => Traced(log', s)
         /\ OwnReqid(r) => Traced(log', r)
<1> DEFINE l == log \o HeaderRecords(r)
<1>1. log \in Seq(Record)
  BY DEF IInv, LogGood, Typed
<1>2. /\ l \in Seq(Record)
      /\ \A s \in Request : Traced(log, s) => Traced(l, s)
      /\ OwnReqid(r) => Traced(l, r)
  <2>1. CASE NewTransaction(r)
    <3>1. l = Append(log, Entry("header", r))
      BY <2>1, <1>1, EntryTyped, Concatenated DEF HeaderRecords, Kind
    <3> QED BY <3>1, <1>1, TraceKept DEF Kind
  <2>2. CASE ~NewTransaction(r)
    <3>1. l = log
      BY <2>2, <1>1, EntryTyped, Concatenated DEF HeaderRecords, Kind
    <3> QED BY <3>1, <2>2, <1>1, KnownIsTraced
  <2> QED BY <2>1, <2>2
<1>3. PICK results \in {<< >>, <<Entry("results", r)>>} : log' = l \o results
  BY DEF HandleBatch, ResultRecords
<1> HIDE DEF l
<1>4. CASE results = << >>
  BY <1>2, <1>3, <1>4, EntryTyped, Concatenated DEF Kind
<1>5. CASE results = <<Entry("results", r)>>
  <2>1. l \in Seq(Record) /\ Entry("results", r) \in Record
    BY <1>2, EntryTyped DEF Kind
  <2>2. log' = l \o <<Entry("results", r)>>
    BY <1>3, <1>5
  <2>3. log' = Append(l, Entry("results", r))
    BY <2>1, <2>2, Concatenated
  <2>4. \E kind \in Kind : log' = Append(l, Entry(kind, r))
    BY <2>3 DEF Kind
  <2>5. /\ Traced(log', r)
        /\ \A s \in Request : Traced(l, s) => Traced(log', s)
    BY <2>1, <2>4, TraceKept
  <2> QED BY <2>5, <1>2
<1> QED BY <1>3, <1>4, <1>5

LEMMA TraceStep == IInv /\ TraceInv /\ [Next]_vars => TraceInv'
<1> SUFFICES ASSUME IInv, TraceInv, [Next]_vars PROVE TraceInv'
  OBVIOUS
<1>1. /\ log \in Seq(Record)
      /\ phase \in [Request -> Phase] /\ batch \in [Request -> 0 .. MaxBatch]
  BY DEF IInv, LogGood, Typed, TypeOK
<1>2. CASE UNCHANGED vars
  BY <1>2 DEF vars, TraceInv
\* A step of r keeps the other requests where they are, and every trace.
<1>3. ASSUME NEW r \in Request,
             \A s \in Request : Traced(log, s) => Traced(log', s),
             \A s \in Request \ {r} : phase'[s] = phase[s] /\ batch'[s] = batch[s],
             OwnReqid(r) =>
               /\ phase'[r] # "sent"
               /\ phase'[r] = "handle" /\ batch'[r] > 0 => Traced(log', r)
               /\ phase'[r] = "done" /\ (IsNext(r) \/ Outside[r] # "all")
                    => Traced(log', r)
      PROVE  TraceInv'
  BY <1>3 DEF TraceInv, IsNext, OwnReqid
<1>4. ASSUME NEW r \in Request, AcmCheckInitial(r) PROVE TraceInv'
  <2>1. \/ log' = log \o << >> /\ r \notin Refused /\ ~LogsTrees(r)
        \/ \E kind \in {"refused", "outside"} : log' = log \o <<Entry(kind, r)>>
    BY <1>4 DEF AcmCheckInitial, InitialRecords
  <2>2. \/ log' = log /\ r \notin Refused /\ ~LogsTrees(r)
        \/ \E kind \in {"refused", "outside"} : log' = Append(log, Entry(kind, r))
    BY <2>1, <1>1, EntryTyped, Concatenated DEF Kind
  <2>3. \A s \in Request : Traced(log, s) => Traced(log', s)
    BY <2>2, <1>1, TraceKept DEF Kind
  <2>4. log' = log \/ Traced(log', r)
    BY <2>2, <1>1, TraceKept DEF Kind
  <2>5. /\ batch' = batch /\ phase[r] = "sent"
        /\ \A s \in Request \ {r} : phase'[s] = phase[s]
        /\ phase'[r] # "sent"
        /\ phase'[r] = "done" => r \in Refused \/ Outside[r] = "all"
    BY <1>4, <1>1 DEF AcmCheckInitial, Becomes
  <2>6. phase'[r] = "done" /\ (IsNext(r) \/ Outside[r] # "all") => Traced(log', r)
    BY <2>2, <2>4, <2>5, <1>1, TraceKept DEF LogsTrees, Kind
  <2>7. OwnReqid(r) => batch'[r] = 0
    BY <2>5 DEF TraceInv
  <2> QED BY <1>3, <2>3, <2>5, <2>6, <2>7
<1>5. ASSUME NEW r \in Request, AcmCheck(r) PROVE TraceInv'
  <2>1. \E kind \in Kind : log' = Append(log, Entry(kind, r))
    BY <1>5 DEF AcmCheck, Kind
  <2>2. /\ Traced(log', r)
        /\ \A s \in Request : Traced(log, s) => Traced(log', s)
    BY <2>1, <1>1, TraceKept
  <2>3. /\ \A s \in Request \ {r} : phase'[s] = phase[s] /\ batch'[s] = batch[s]
        /\ phase'[r] # "sent"
    BY <1>5, <1>1 DEF AcmCheck, Becomes
  <2> QED BY <1>3, <2>2, <2>3
<1>6. ASSUME NEW r \in Request, HandleBatch(r) PROVE TraceInv'
  <2>1. /\ \A s \in Request \ {r} : phase'[s] = phase[s] /\ batch'[s] = batch[s]
        /\ phase'[r] = "handle"
    BY <1>6, <1>1 DEF HandleBatch
  <2> QED BY <1>3, <1>6, <2>1, BatchTraced
<1>7. ASSUME NEW r \in Request, Respond(r) PROVE TraceInv'
  <2>1. /\ phase[r] = "handle" /\ batch[r] > 0 /\ batch' = batch /\ log' = log
        /\ \A s \in Request \ {r} : phase'[s] = phase[s]
        /\ phase'[r] = "done"
    BY <1>7, <1>1 DEF Respond, Becomes
  <2>2. OwnReqid(r) => Traced(log', r)
    BY <2>1 DEF TraceInv
  <2> QED BY <1>3, <2>1, <2>2
<1> QED BY <1>2, <1>4, <1>5, <1>6, <1>7 DEF Next

\* A request with a reqid of its own leaves a trace, refused or not, handled
\* or not, except a GET or SET of unregistered variables only.
THEOREM RequestsAreAudited == Spec => []EveryRequestAudited
<1>1. Init => TraceInv
  BY DEF Init, TraceInv
<1>2. TraceInv => EveryRequestAudited
  BY DEF TraceInv, EveryRequestAudited, OwnReqid, Traced
<1> QED BY <1>1, <1>2, Invariance, TraceStep, PTL DEF Spec
=============================================================================
