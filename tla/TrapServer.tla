----------------------------- MODULE TrapServer -----------------------------
(***************************************************************************)
(* The TCP server of the trap subagent (wrsAlarmMIBServer.c) and the main  *)
(* program that runs it (wrsAlarmMIBSubagent.c).                           *)
(*                                                                         *)
(* The server is one thread.  It accepts a connection, reads a length of   *)
(* MSG_SIZE bytes in as many recv calls as it takes, allocates the body,   *)
(* reads it in ONE recv call, hands it to process_json_alarm and closes    *)
(* the connection.  Whatever goes wrong, it closes the connection and      *)
(* calls handle_server_messages again, recursively; the variable frames    *)
(* is that call stack.  A client is one connection with one message: the   *)
(* kernel's side of it (the accept queue, the bytes that have arrived, how *)
(* the peer ended it) is modelled from how the server uses the sockets.    *)
(***************************************************************************)
EXTENDS Integers, Sequences, FiniteSets

CONSTANTS
  Client,                \* the connections that may be made
  NoClient,              \* connfd when no connection was accepted yet
  Size,                  \* Size[c]: the bytes of c's body, as its length says
  Payload,               \* Payload[c]: what process_json_alarm makes of it
  MSG_SIZE,              \* bytes of the length that precedes a body
  RETRIES,               \* calls of handle_server_messages in a lifetime
  RETRIES_MESSAGE_SIZE,  \* recv calls spent on one length
  BACKLOG                \* the second argument of listen

PayloadKind ==
  { "alarm",     \* one trap is sent (AlarmTrap says which)
    "unusable",  \* no "alarm" member where one is needed: no trap
    "fatal" }    \* it crashes: no JSON object with an operation_type, or a
                 \* text in the alarm that is null

ASSUME TrapServerAssumption ==
  /\ IsFiniteSet(Client) /\ NoClient \notin Client
  /\ Size \in [Client -> Nat \ {0}]
  /\ Payload \in [Client -> PayloadKind]
  /\ MSG_SIZE \in Nat \ {0} /\ RETRIES \in Nat \ {0}
  /\ RETRIES_MESSAGE_SIZE \in Nat /\ BACKLOG \in Nat
  /\ MSG_SIZE <= RETRIES_MESSAGE_SIZE + 1

DEFAULT_ERROR == -1
DEFAULT_SUCCESS == 0

VARIABLES
  \* the clients and the kernel
  sent,           \* sent[c]: bytes of c's message that have arrived
  peer,           \* peer[c]: "idle", "open", "closed" (FIN) or "reset" (RST)
  queue,          \* connections waiting to be accepted
  \* the process
  pc,             \* the point the thread has reached
  serverInfo,     \* what start_alarm_server works on: "null" or "allocated"
  listener,       \* server_info->fd: "none", "unset", "open" or "closed"
  retries,        \* server_info->retries
  frames,         \* the calls of handle_server_messages that are suspended
  connfd,         \* the connection being served
  fd,             \* fd[c]: "none", "open" or "closed", the server's end
  lengthBytes, partialRetries, bytesRead,
  keepRunning,    \* keep_running
  \* history
  traps,          \* traps[c]: how often a trap was sent for c
  dropped         \* the connections closed on an error

clientVars == <<sent, peer>>
localVars  == <<lengthBytes, partialRetries, bytesRead>>
mainVars   == <<serverInfo, listener, keepRunning>>
vars == <<sent, peer, queue, pc, serverInfo, listener, retries, frames,
          connfd, fd, lengthBytes, partialRetries, bytesRead, keepRunning,
          traps, dropped>>

Reading  == {"length", "alloc", "body", "check", "process"}
Handling == Reading \cup {"call", "accept", "return"}
Stopped  == {"exit", "crash"}
Point    == {"start", "init", "main", "loop"} \cup Handling \cup Stopped

Total(c) == MSG_SIZE + Size[c]

Init ==
  /\ sent = [c \in Client |-> 0]
  /\ peer = [c \in Client |-> "idle"]
  /\ queue = << >>
  /\ pc = "start"
  /\ serverInfo = "null"
  /\ listener = "none"
  /\ retries = RETRIES
  /\ frames = << >>
  /\ connfd = NoClient
  /\ fd = [c \in Client |-> "none"]
  /\ lengthBytes = 0 /\ partialRetries = 0 /\ bytesRead = 0
  /\ keepRunning = TRUE
  /\ traps = [c \in Client |-> 0]
  /\ dropped = {}
-----------------------------------------------------------------------------
(* The clients.  What a client does after the server has closed its        *)
(* connection has no effect on the server and is left out.                 *)

Connect(c) ==
  /\ listener = "open" /\ pc \notin Stopped
  /\ peer[c] = "idle"
  /\ Len(queue) <= BACKLOG
  /\ peer' = [peer EXCEPT ![c] = "open"]
  /\ queue' = Append(queue, c)
  /\ UNCHANGED <<sent, pc, retries, frames, connfd, fd, traps, dropped,
                 localVars, mainVars>>

\* One more byte arrives; several may arrive between two steps of the server.
Send(c) ==
  /\ peer[c] = "open" /\ fd[c] # "closed"
  /\ sent[c] < Total(c)
  /\ sent' = [sent EXCEPT ![c] = @ + 1]
  /\ UNCHANGED <<peer, queue, pc, retries, frames, connfd, fd, traps, dropped,
                 localVars, mainVars>>

\* The client closes its end, or dies: in the middle of a message or after it.
Hangup(c, how) ==
  /\ peer[c] = "open" /\ fd[c] # "closed"
  /\ peer' = [peer EXCEPT ![c] = how]
  /\ UNCHANGED <<sent, queue, pc, retries, frames, connfd, fd, traps, dropped,
                 localVars, mainVars>>

ClientStep(c) == Send(c) \/ Hangup(c, "closed") \/ Hangup(c, "reset")

\* SIGTERM or SIGINT.  signal() restarts accept and recv, so the handler's
\* assignment is all that happens.
Signal ==
  /\ pc \notin Stopped
  /\ keepRunning
  /\ keepRunning' = FALSE
  /\ UNCHANGED <<clientVars, queue, pc, serverInfo, listener, retries, frames,
                 connfd, fd, traps, dropped, localVars>>
-----------------------------------------------------------------------------
(* Starting.                                                               *)

GetServerInfo(found) ==
  /\ pc = "start"
  /\ serverInfo' = IF found THEN "allocated" ELSE "null"
  /\ listener' = IF found THEN "unset" ELSE "none"
  /\ pc' = IF found THEN "init" ELSE "main"
  /\ UNCHANGED <<clientVars, queue, retries, frames, connfd, fd, traps,
                 dropped, localVars, keepRunning>>

\* socket fails and leaves server_info->fd unset, or a later call fails and
\* the descriptor is closed, or the server listens.
InitServer(result) ==
  /\ pc = "init"
  /\ listener' = result
  /\ pc' = IF result = "open" THEN "call" ELSE "main"
  /\ UNCHANGED <<clientVars, queue, serverInfo, retries, frames, connfd, fd,
                 traps, dropped, localVars, keepRunning>>
-----------------------------------------------------------------------------
(* handle_server_messages.                                                 *)

\* Slips: counting a call twice, and refilling the budget at every call.
RetriesCountedTwice == retries - 2
RetriesRefilled == RETRIES - 1

RetriesOfACall == retries - 1

Call ==
  /\ pc = "call"
  /\ retries' = RetriesOfACall
  /\ pc' = IF RetriesOfACall < 0 THEN "return" ELSE "accept"
  /\ UNCHANGED <<clientVars, queue, frames, connfd, fd, traps, dropped,
                 localVars, mainVars>>

\* accept blocks while the queue is empty; an error of accept is logged and
\* changes nothing.
Accept ==
  /\ pc = "accept"
  /\ queue # << >>
  /\ connfd' = Head(queue)
  /\ queue' = Tail(queue)
  /\ fd' = [fd EXCEPT ![Head(queue)] = "open"]
  /\ lengthBytes' = 0
  /\ partialRetries' = 0
  /\ pc' = "length"
  /\ UNCHANGED <<clientVars, retries, frames, bytesRead, traps, dropped,
                 mainVars>>

\* What recv(connfd, ..., wanted, 0) may return when `taken' bytes of the
\* message were read before.  It blocks when no disjunct holds.
Recv(n, wanted, taken) ==
  LET arrived == sent[connfd] - taken
  IN  \/ n > 0 /\ n = (IF arrived < wanted THEN arrived ELSE wanted)
      \/ n = 0 /\ arrived = 0 /\ peer[connfd] = "closed"
      \/ n = DEFAULT_ERROR /\ peer[connfd] = "reset"

\* A slip: the error path forgets close(connfd).
CloseConnLeaks == fd

CloseConn == [fd EXCEPT ![connfd] = "closed"]

\* close(connfd); terminate = handle_server_messages(server_info).
\* `resume' is the point the caller is at when the call returns.
Recall(resume) ==
  /\ fd' = CloseConn
  /\ dropped' = dropped \cup {connfd}
  /\ frames' = Append(frames, [resume |-> resume, conn |-> connfd])
  /\ pc' = "call"

\* A slip: one recv call too few.
LengthFailsEarly(n) ==
  n < DEFAULT_SUCCESS \/ partialRetries >= RETRIES_MESSAGE_SIZE

\* A slip: the recv calls for one length are not limited.
LengthNeverGivenUp(n) == n < DEFAULT_SUCCESS

LengthFails(n) == n < DEFAULT_SUCCESS \/ partialRetries > RETRIES_MESSAGE_SIZE

RecvLength ==
  /\ pc = "length"
  /\ \E n \in 0 .. MSG_SIZE :
       /\ Recv(n, MSG_SIZE - lengthBytes, lengthBytes)
       /\ ~LengthFails(n)
       /\ lengthBytes' = lengthBytes + n
       /\ pc' = IF lengthBytes + n < MSG_SIZE THEN "length" ELSE "alloc"
  /\ partialRetries' = partialRetries + 1
  /\ UNCHANGED <<clientVars, queue, retries, frames, connfd, fd, bytesRead,
                 traps, dropped, mainVars>>

RecvLengthFails ==
  /\ pc = "length"
  /\ \E n \in DEFAULT_ERROR .. MSG_SIZE :
       /\ Recv(n, MSG_SIZE - lengthBytes, lengthBytes)
       /\ LengthFails(n)
  /\ Recall("alloc")
  /\ UNCHANGED <<clientVars, queue, retries, connfd, traps, localVars,
                 mainVars>>

Alloc ==
  /\ pc = "alloc"
  /\ pc' = "body"
  /\ UNCHANGED <<clientVars, queue, retries, frames, connfd, fd, traps,
                 dropped, localVars, mainVars>>

AllocFails ==
  /\ pc = "alloc"
  /\ Recall("body")
  /\ UNCHANGED <<clientVars, queue, retries, connfd, traps, localVars,
                 mainVars>>

RecvBody ==
  /\ pc = "body"
  /\ bytesRead' \in 0 .. Size[connfd]
  /\ Recv(bytesRead', Size[connfd], MSG_SIZE)
  /\ pc' = "check"
  /\ UNCHANGED <<clientVars, queue, retries, frames, connfd, fd, lengthBytes,
                 partialRetries, traps, dropped, mainVars>>

RecvBodyFails ==
  /\ pc = "body"
  /\ Recv(DEFAULT_ERROR, Size[connfd], MSG_SIZE)
  /\ bytesRead' = DEFAULT_ERROR
  /\ Recall("check")
  /\ UNCHANGED <<clientVars, queue, retries, connfd, lengthBytes,
                 partialRetries, traps, mainVars>>

\* A slip: a short read of the body passes.
BodyShort == bytesRead > 0

BodyComplete == bytesRead = Size[connfd]

CheckBody ==
  /\ pc = "check"
  /\ BodyComplete
  /\ pc' = "process"
  /\ UNCHANGED <<clientVars, queue, retries, frames, connfd, fd, traps,
                 dropped, localVars, mainVars>>

CheckBodyFails ==
  /\ pc = "check"
  /\ ~BodyComplete
  /\ Recall("process")
  /\ UNCHANGED <<clientVars, queue, retries, connfd, traps, localVars,
                 mainVars>>

\* process_json_alarm, whose result is only logged; then the connection is
\* closed and the loop goes round.
Process ==
  /\ pc = "process"
  /\ Payload[connfd] # "fatal"
  /\ traps' = [traps EXCEPT ![connfd] =
                 IF Payload[connfd] = "alarm" THEN @ + 1 ELSE @]
  /\ fd' = CloseConn
  /\ pc' = "accept"
  /\ UNCHANGED <<clientVars, queue, retries, frames, connfd, dropped,
                 localVars, mainVars>>

ProcessCrashes ==
  /\ pc = "process"
  /\ Payload[connfd] = "fatal"
  /\ pc' = "crash"
  /\ UNCHANGED <<clientVars, queue, retries, frames, connfd, fd, traps,
                 dropped, localVars, mainVars>>

\* A slip: the recursive call reports success.
HandleResultSuccess == DEFAULT_SUCCESS

\* Both return statements of handle_server_messages return this.
HandleResult == DEFAULT_ERROR

\* A recursive call returns: the caller breaks out of its loop on an error
\* and returns too; on any other result it would go on where it was.
Return ==
  /\ pc = "return"
  /\ frames # << >>
  /\ LET caller == frames[Len(frames)]
     IN  /\ connfd' = caller.conn
         /\ pc' = IF HandleResult = DEFAULT_ERROR THEN "return"
                                                  ELSE caller.resume
  /\ frames' = SubSeq(frames, 1, Len(frames) - 1)
  /\ UNCHANGED <<clientVars, queue, retries, fd, traps, dropped, localVars,
                 mainVars>>

ServerReturns ==
  /\ pc = "return"
  /\ frames = << >>
  /\ pc' = "main"
  /\ UNCHANGED <<clientVars, queue, retries, frames, connfd, fd, traps,
                 dropped, localVars, mainVars>>
-----------------------------------------------------------------------------
(* main, once start_alarm_server has returned.                             *)

\* A slip: main does not call stop_server.
StopServerForgotten == keepRunning

StopServer == FALSE  \* the value stop_server gives keep_running

MainStops ==
  /\ pc = "main"
  /\ listener' = IF serverInfo = "null" THEN listener ELSE "closed"
  /\ serverInfo' = "null"
  /\ keepRunning' = StopServer
  /\ pc' = "loop"
  /\ UNCHANGED <<clientVars, queue, retries, frames, connfd, fd, traps,
                 dropped, localVars>>

Exit ==
  /\ pc = "loop"
  /\ ~keepRunning
  /\ pc' = "exit"
  /\ UNCHANGED <<clientVars, queue, retries, frames, connfd, fd, traps,
                 dropped, localVars, mainVars>>
-----------------------------------------------------------------------------
ServerStep ==
  \/ \E found \in BOOLEAN : GetServerInfo(found)
  \/ \E result \in {"unset", "closed", "open"} : InitServer(result)
  \/ Call
  \/ Accept
  \/ RecvLength \/ RecvLengthFails
  \/ Alloc \/ AllocFails
  \/ RecvBody \/ RecvBodyFails
  \/ CheckBody \/ CheckBodyFails
  \/ Process \/ ProcessCrashes
  \/ Return \/ ServerReturns
  \/ MainStops \/ Exit

Next ==
  \/ ServerStep
  \/ \E c \in Client : Connect(c) \/ ClientStep(c)
  \/ Signal

Spec == Init /\ [][Next]_vars

\* The thread is always scheduled, and no client stalls for ever in the
\* middle of a message: it sends the rest or its connection ends.
FairSpec ==
  /\ Spec
  /\ WF_vars(ServerStep)
  /\ \A c \in Client : WF_vars(sent[c] < Total(c) /\ ClientStep(c))
-----------------------------------------------------------------------------
(* Properties.                                                             *)

TypeOK ==
  /\ sent \in [Client -> Nat] /\ \A c \in Client : sent[c] <= Total(c)
  /\ peer \in [Client -> {"idle", "open", "closed", "reset"}]
  /\ queue \in Seq(Client)
  /\ pc \in Point
  /\ serverInfo \in {"null", "allocated"}
  /\ listener \in {"none", "unset", "open", "closed"}
  /\ retries \in -1 .. RETRIES
  /\ frames \in Seq([resume : Reading, conn : Client])
  /\ connfd \in Client \cup {NoClient}
  /\ fd \in [Client -> {"none", "open", "closed"}]
  /\ lengthBytes \in 0 .. MSG_SIZE
  /\ partialRetries \in 0 .. RETRIES_MESSAGE_SIZE + 1
  /\ bytesRead \in Int
  /\ keepRunning \in BOOLEAN
  /\ traps \in [Client -> Nat]
  /\ dropped \in SUBSET Client

\* Across all the ways to abandon a connection and call again, the server
\* holds exactly the descriptor of the connection it is reading, and no
\* descriptor at all between two connections: nothing leaks when a call is
\* abandoned, and no suspended call goes on with a descriptor that was closed.
\* The listener is open exactly while messages are handled.
DescriptorInv ==
  /\ {c \in Client : fd[c] = "open"} =
       IF pc \in Reading \cup {"crash"} THEN {connfd} ELSE {}
  /\ pc \in Handling \cup {"crash"} => listener = "open"
  /\ pc \in {"loop", "exit"} => listener # "open"

\* A trap is sent at most once for a connection, only for a message that
\* arrived to its last byte and holds an alarm, and never for a connection
\* that was dropped.
RelayedComplete ==
  \A c \in Client :
    traps[c] # 0 => /\ traps[c] = 1
                    /\ Payload[c] = "alarm"
                    /\ sent[c] = Total(c)
                    /\ fd[c] = "closed"
                    /\ c \notin dropped

\* The cap on the recv calls for one length never costs a live client its
\* message, however the length is cut up: the length phase gives up only on
\* a peer that reset the connection or closed it before the length was sent.
LengthPatience ==
  [][pc = "length" /\ pc' = "call" =>
       \/ peer[connfd] = "reset"
       \/ peer[connfd] = "closed" /\ sent[connfd] < MSG_SIZE]_vars

\* How many steps the thread can still make for the connection it reads.
StepsLeft ==
  CASE pc = "length"  -> RETRIES_MESSAGE_SIZE + 6 - partialRetries
    [] pc = "alloc"   -> 4
    [] pc = "body"    -> 3
    [] pc = "check"   -> 2
    [] pc = "process" -> 1
    [] OTHER          -> 0

\* No client keeps the one thread busy: every step the thread makes for a
\* connection is one of RETRIES_MESSAGE_SIZE + 6, however the client cuts its
\* message up and wherever it ends it; only the next accept allows more.
ConnectionBounded ==
  [][/\ StepsLeft' \in 0 .. RETRIES_MESSAGE_SIZE + 6
     /\ StepsLeft' > StepsLeft => pc = "accept"
     /\ ServerStep /\ pc \in Reading => StepsLeft' < StepsLeft]_vars

\* The budget of TrapRelay: the calls of handle_server_messages still to come,
\* and the one in progress.
Budget == IF pc = "call" \/ retries = RETRIES THEN retries ELSE retries + 1

\* The other parts of the refinement mapping.
StatusOf(c) ==
  IF fd[c] = "none" THEN "new"
  ELSE IF fd[c] = "open" THEN "serving"
  ELSE IF c \in dropped THEN "dropped"
  ELSE IF traps[c] # 0 THEN "relayed"
  ELSE "ignored"

RelayStatus == [c \in Client |-> StatusOf(c)]
RelayUp == pc \notin {"main", "loop"} \cup Stopped
Crashing == {c \in Client : Payload[c] = "fatal"}

Relay == INSTANCE TrapRelay WITH
  Fatal <- Crashing, status <- RelayStatus, budget <- Budget, up <- RelayUp

\* The server, with its recursion and its byte counts, does what TrapRelay
\* promises: one client at a time, a drop costs one unit of a budget that is
\* never refilled, and only an empty budget, a failed start or a message that
\* process_json_alarm does not survive stops it.
ImplementsRelay == Relay!Spec

\* The server survives fewer than RETRIES dropped connections, and gives up
\* when, and only when, it has dropped exactly RETRIES in its lifetime; the
\* connections it served well in between do not count in its favour.
DropBudget ==
  /\ Cardinality(dropped) <= RETRIES
  /\ pc = "return" => Cardinality(dropped) = RETRIES
  /\ pc \in Reading \cup {"accept"} => Cardinality(dropped) < RETRIES

\* Whoever is accepted or waits to be is dealt with, as long as no client
\* stalls for ever, unless the process ends first.
Served ==
  \A c \in Client :
    peer[c] # "idle" ~> fd[c] = "closed" \/ pc \in Stopped

\* When the server has given up, the process ends, so that its container is
\* started again.
GivingUpEnds == pc = "return" ~> pc = "exit"

\* "In case we recevie a request to stop (kill -TERM or kill -INT)"
\* (wrsAlarmMIBSubagent.c:168): a requested stop is carried out.
StopHonoured == ~keepRunning ~> pc \in Stopped
=============================================================================
