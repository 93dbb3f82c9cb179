---------------------------------- MODULE Pod ----------------------------------
(***************************************************************************)
(* How the two subagent containers come up beside the master agent, and    *)
(* what becomes of their AgentX sessions when containers end and are       *)
(* started again.  Both begin with the same bootstrap.sh, which waits for  *)
(* the master agent's port.  The fm-subagent then runs a main loop, in     *)
(* which the agent library renews a lost session; the trap subagent serves *)
(* its clients and never gets to its main loop.                            *)
(***************************************************************************)
EXTENDS Integers

CONSTANTS
  SubAgent, TrapAgent,  \* the two containers
  RETRIES               \* MASTER_AGENT_CONNECTION_RETRIES

ASSUME PodAssumption == SubAgent # TrapAgent /\ RETRIES \in Nat

Container == {SubAgent, TrapAgent}

VARIABLES
  master,       \* the master agent's container: "down" or "up"
  dbUp,         \* whether the fault manager's database answers
  pc,           \* pc[c]: "down", or the point c's process has reached
  counter,      \* the variable of bootstrap.sh
  session,      \* session[c]: "none", "open" or "lost"
  \* history
  failed,       \* failed[c]: c's connections refused since it was started
  masterEnded   \* masterEnded[c]: the master has ended since it answered c

vars == <<master, dbUp, pc, counter, session, failed, masterEnded>>

Point == {"down", "probe", "sleep", "main", "serve"}

Init ==
  /\ master = "down"
  /\ dbUp = FALSE
  /\ pc = [c \in Container |-> "down"]
  /\ counter = [c \in Container |-> 0]
  /\ session = [c \in Container |-> "none"]
  /\ failed = [c \in Container |-> 0]
  /\ masterEnded = [c \in Container |-> FALSE]
-----------------------------------------------------------------------------
(* The world around the containers.                                        *)

MasterStarts ==
  /\ master = "down"
  /\ master' = "up"
  /\ UNCHANGED <<dbUp, pc, counter, session, failed, masterEnded>>

MasterEnds ==
  /\ master = "up"
  /\ master' = "down"
  /\ session' = [c \in Container |->
                   IF session[c] = "open" THEN "lost" ELSE session[c]]
  /\ masterEnded' = [c \in Container |-> TRUE]
  /\ UNCHANGED <<dbUp, pc, counter, failed>>

DbChanges ==
  /\ dbUp' = ~dbUp
  /\ UNCHANGED <<master, pc, counter, session, failed, masterEnded>>

\* Kubernetes starts a container that has ended again.
ContainerStarts(c) ==
  /\ pc[c] = "down"
  /\ pc' = [pc EXCEPT ![c] = "probe"]
  /\ counter' = [counter EXCEPT ![c] = 0]
  /\ failed' = [failed EXCEPT ![c] = 0]
  /\ UNCHANGED <<master, dbUp, session, masterEnded>>

Ends(c) ==
  /\ pc' = [pc EXCEPT ![c] = "down"]
  /\ session' = [session EXCEPT ![c] = "none"]
  /\ UNCHANGED <<master, dbUp, counter, failed, masterEnded>>

\* The container is killed before its agent serves.
Killed(c) == pc[c] \in {"probe", "sleep", "main"} /\ Ends(c)
-----------------------------------------------------------------------------
(* bootstrap.sh.                                                           *)

\* A slip: the script goes on whether or not the connection was made.
ProbeIgnored == TRUE

ProbeAnswered == master = "up"

Probe(c) ==
  /\ pc[c] = "probe"
  /\ ProbeAnswered
  /\ pc' = [pc EXCEPT ![c] = "main"]
  /\ masterEnded' = [masterEnded EXCEPT ![c] = FALSE]
  /\ UNCHANGED <<master, dbUp, counter, session, failed>>

ProbeRefused(c) ==
  /\ pc[c] = "probe"
  /\ ~ProbeAnswered
  /\ pc' = [pc EXCEPT ![c] = "sleep"]
  /\ failed' = [failed EXCEPT ![c] = @ + 1]
  /\ UNCHANGED <<master, dbUp, counter, session, masterEnded>>

\* A slip: the counter is compared after it was incremented.
OutOfRetriesEarly(c) == counter[c] + 1 = RETRIES

OutOfRetries(c) == counter[c] = RETRIES

GiveUp(c) ==
  /\ pc[c] = "sleep"
  /\ OutOfRetries(c)
  /\ Ends(c)

TryAgain(c) ==
  /\ pc[c] = "sleep"
  /\ ~OutOfRetries(c)
  /\ counter' = [counter EXCEPT ![c] = @ + 1]
  /\ pc' = [pc EXCEPT ![c] = "probe"]
  /\ UNCHANGED <<master, dbUp, session, failed, masterEnded>>
-----------------------------------------------------------------------------
(* The subagents' main programs.                                           *)

\* Slips: the socket named by -x is never used, and the fm-subagent waits for
\* requests in a loop of its own.
SocketForgotten == FALSE
LoopOfItsOwn(c) == FALSE

MasterAccepts == master = "up"

\* init_snmpAgentPlugin ends the fm-subagent when it gets no database session.
CanInit(c) == c = SubAgent => dbUp

\* main up to its loop or server.  init_snmp opens the AgentX session, and a
\* master that does not accept one is no error.
StartAgent(c) ==
  /\ pc[c] = "main"
  /\ CanInit(c)
  /\ session' = [session EXCEPT ![c] = IF MasterAccepts THEN "open" ELSE "none"]
  /\ pc' = [pc EXCEPT ![c] = "serve"]
  /\ UNCHANGED <<master, dbUp, counter, failed, masterEnded>>

InitFails(c) ==
  /\ pc[c] = "main"
  /\ ~CanInit(c)
  /\ Ends(c)

\* agent_check_and_process runs the library's timers, which open a session
\* that is missing.  The trap subagent is in start_alarm_server instead.
ReachesLoop(c) == c = SubAgent

Reconnect(c) ==
  /\ pc[c] = "serve"
  /\ ReachesLoop(c)
  /\ session[c] # "open"
  /\ MasterAccepts
  /\ session' = [session EXCEPT ![c] = "open"]
  /\ UNCHANGED <<master, dbUp, pc, counter, failed, masterEnded>>

\* An agent that serves ends: the server gave up, a request crashed it, or it
\* is killed.
AgentEnds(c) == pc[c] = "serve" /\ Ends(c)
-----------------------------------------------------------------------------
Bootstrap(c) == Probe(c) \/ ProbeRefused(c) \/ GiveUp(c) \/ TryAgain(c)

ContainerStep(c) ==
  ContainerStarts(c) \/ Bootstrap(c) \/ StartAgent(c) \/ InitFails(c)
    \/ Reconnect(c)

Next ==
  \/ MasterStarts \/ MasterEnds \/ DbChanges
  \/ \E c \in Container : ContainerStep(c) \/ AgentEnds(c) \/ Killed(c)

Spec == Init /\ [][Next]_vars

\* Kubernetes starts what has ended, and the processes are scheduled; nothing
\* is assumed of the master agent, the database, or of what ends a process.
FairSpec == Spec /\ \A c \in Container : WF_vars(ContainerStep(c))
-----------------------------------------------------------------------------
(* Properties.                                                             *)

TypeOK ==
  /\ master \in {"down", "up"} /\ dbUp \in BOOLEAN
  /\ pc \in [Container -> Point]
  /\ counter \in [Container -> 0 .. RETRIES]
  /\ session \in [Container -> {"none", "open", "lost"}]
  /\ failed \in [Container -> 0 .. RETRIES + 1]
  /\ masterEnded \in [Container -> BOOLEAN]

\* bootstrap.sh makes one connection and RETRIES retries, no more and no
\* fewer, before it gives up; a container that was started again has them all.
RetriesAreSpent ==
  [][\A c \in Container :
       /\ GiveUp(c) => failed[c] = RETRIES + 1
       /\ TryAgain(c) => failed[c] <= RETRIES]_vars

\* A subagent that serves without a session has had one to lose: the master
\* agent ended after it had answered bootstrap.sh.  The check of the port and
\* the opening of the session are two steps, and the master may end between.
SessionUnlessMasterEnded ==
  \A c \in Container :
    pc[c] = "serve" /\ session[c] # "open" => masterEnded[c]

\* Once the master agent and the database stay, and unless it is ended again
\* and again, the fm-subagent has a session for good, however often master,
\* database and container went away before, and in whatever order.
SubAgentRecovers ==
  /\ <>[](master = "up" /\ dbUp)
  /\ ~[]<><<Killed(SubAgent) \/ AgentEnds(SubAgent)>>_vars
  => <>[](session[SubAgent] = "open")

\* The trap subagent has a session again if one that serves without a session
\* ends sooner or later.
TrapAgentRecovers ==
  /\ <>[](master = "up")
  /\ ~[]<><<Killed(TrapAgent)>>_vars
  /\ (pc[TrapAgent] = "serve" /\ session[TrapAgent] # "open"
        ~> pc[TrapAgent] # "serve")
  => []<>(session[TrapAgent] = "open")
=============================================================================
