------------------------------- MODULE PodProofs -------------------------------
(***************************************************************************)
(* The bootstrap of the subagents, for every number of retries, checked by *)
(* TLAPS.                                                                  *)
(***************************************************************************)
EXTENDS Pod, TLAPS

\* The counter lags one behind the refused connections while the script sleeps.
CounterInv ==
  \A c \in Container :
    /\ pc[c] = "probe" => failed[c] = counter[c]
    /\ pc[c] = "sleep" => failed[c] = counter[c] + 1

\* A container has a session only while it serves; a session is open only
\* while the master is up, and a container that is about to serve finds the
\* master up unless it has ended since it answered.
SessionInv ==
  \A c \in Container :
    /\ session[c] # "none" => pc[c] = "serve"
    /\ session[c] = "open" => master = "up"
    /\ pc[c] = "main" /\ master # "up" => masterEnded[c]

Inv == TypeOK /\ CounterInv /\ SessionInv /\ SessionUnlessMasterEnded

LEMMA Initial == Init => Inv
<1> SUFFICES ASSUME Init PROVE Inv
  OBVIOUS
<1>1. dbUp \in BOOLEAN /\ masterEnded \in [Container -> BOOLEAN]
  BY Zenon DEF Init
<1>2. TypeOK
  BY <1>1, PodAssumption DEF Init, TypeOK, Point
<1>3. CounterInv /\ SessionInv /\ SessionUnlessMasterEnded
  BY DEF Init, CounterInv, SessionInv, SessionUnlessMasterEnded
<1> QED BY <1>2, <1>3 DEF Inv

\* Type correctness goes by itself: the counter stays below the limit because
\* the test for equality comes before each increment.
LEMMA TypeStep == Inv /\ [Next]_vars => TypeOK'
<1> SUFFICES ASSUME Inv, [Next]_vars PROVE TypeOK'
  OBVIOUS
<1> USE PodAssumption DEF Inv, TypeOK, Point
<1>1. CASE MasterStarts
  BY <1>1 DEF MasterStarts
<1>2. CASE MasterEnds
  BY <1>2 DEF MasterEnds
<1>3. CASE DbChanges
  <2>1. dbUp' \in BOOLEAN
    BY <1>3, Zenon DEF DbChanges
  <2> QED BY <1>3, <2>1 DEF DbChanges
<1>4. ASSUME NEW c \in Container,
             ContainerStep(c) \/ AgentEnds(c) \/ Killed(c)
      PROVE  TypeOK'
  <2>1. CASE ContainerStarts(c)
    BY <2>1 DEF ContainerStarts
  <2>2. CASE Probe(c)
    BY <2>2 DEF Probe
  <2>3. CASE ProbeRefused(c)
    BY <2>3 DEF ProbeRefused, CounterInv
  <2>4. CASE TryAgain(c)
    BY <2>4 DEF TryAgain, OutOfRetries
  <2>5. CASE StartAgent(c)
    BY <2>5 DEF StartAgent
  <2>6. CASE Reconnect(c)
    BY <2>6 DEF Reconnect
  <2>7. CASE Ends(c)
    BY <2>7 DEF Ends
  <2> QED BY <1>4, <2>1, <2>2, <2>3, <2>4, <2>5, <2>6, <2>7
       DEF ContainerStep, Bootstrap, GiveUp, InitFails, AgentEnds, Killed
<1>5. CASE UNCHANGED vars
  BY <1>5 DEF vars
<1> QED BY <1>1, <1>2, <1>3, <1>4, <1>5 DEF Next

LEMMA InvStep == Inv /\ [Next]_vars => Inv'
<1> SUFFICES ASSUME Inv, [Next]_vars PROVE Inv'
  OBVIOUS
<1>1. TypeOK'
  BY TypeStep
<1> DEFINE Rest == CounterInv /\ SessionInv /\ SessionUnlessMasterEnded
<1> SUFFICES Rest'
  BY <1>1 DEF Inv
<1> USE PodAssumption
    DEF Inv, TypeOK, CounterInv, SessionInv, SessionUnlessMasterEnded
<1>2. CASE MasterStarts
  BY <1>2 DEF MasterStarts
<1>3. CASE MasterEnds
  BY <1>3 DEF MasterEnds
<1>4. CASE DbChanges
  BY <1>4 DEF DbChanges
<1>5. ASSUME NEW c \in Container,
             ContainerStep(c) \/ AgentEnds(c) \/ Killed(c)
      PROVE  Rest'
  <2>1. CASE ContainerStarts(c)
    BY <2>1 DEF ContainerStarts
  <2>2. CASE Probe(c)
    BY <2>2 DEF Probe, ProbeAnswered
  <2>3. CASE ProbeRefused(c)
    BY <2>3 DEF ProbeRefused
  <2>4. CASE TryAgain(c)
    BY <2>4 DEF TryAgain
  <2>5. CASE StartAgent(c)
    BY <2>5 DEF StartAgent, MasterAccepts
  <2>6. CASE Reconnect(c)
    BY <2>6 DEF Reconnect, MasterAccepts
  <2>7. CASE Ends(c)
    BY <2>7 DEF Ends
  <2> QED BY <1>5, <2>1, <2>2, <2>3, <2>4, <2>5, <2>6, <2>7
       DEF ContainerStep, Bootstrap, GiveUp, InitFails, AgentEnds, Killed
<1>6. CASE UNCHANGED vars
  BY <1>6 DEF vars
<1> QED BY <1>2, <1>3, <1>4, <1>5, <1>6 DEF Next

LEMMA Invariance == Spec => []Inv
  BY Initial, InvStep, PTL DEF Spec

\* bootstrap.sh gives up after exactly RETRIES + 1 refused connections.
THEOREM RetriesCounted == Spec => RetriesAreSpent
<1>1. Inv /\ [Next]_vars =>
        [\A c \in Container :
           /\ GiveUp(c) => failed[c] = RETRIES + 1
           /\ TryAgain(c) => failed[c] <= RETRIES]_vars
  BY PodAssumption DEF Inv, TypeOK, CounterInv, GiveUp, TryAgain, OutOfRetries
<1> QED BY <1>1, Invariance, PTL DEF Spec, RetriesAreSpent

\* Only the end of the master agent leaves a subagent without its session.
THEOREM SessionsOnlyLost == Spec => []SessionUnlessMasterEnded
<1>1. Inv => SessionUnlessMasterEnded
  BY DEF Inv
<1> QED BY <1>1, Invariance, PTL
=============================================================================
