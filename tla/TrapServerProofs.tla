-------------------------- MODULE TrapServerProofs --------------------------
(***************************************************************************)
(* What TrapServer guarantees for every number of clients, every message   *)
(* size and every setting of its limits: the inductive invariant, the      *)
(* safety properties, the budget of dropped connections, and the           *)
(* refinement of TrapRelay.  Checked by TLAPS.                             *)
(***************************************************************************)
EXTENDS TrapServer, FiniteSetTheorems, TLAPS

-----------------------------------------------------------------------------
(* The parts of the inductive invariant.                                   *)

\* A connection the server has not taken up yet has left no trace, and the
\* accept queue holds such connections, each once.
QueueInv ==
  /\ \A c \in Client :
       /\ fd[c] # "closed" => traps[c] = 0 /\ c \notin dropped
       /\ peer[c] = "idle" => fd[c] = "none"
  /\ \A i \in 1 .. Len(queue) : fd[queue[i]] = "none" /\ peer[queue[i]] # "idle"
  /\ \A i, j \in 1 .. Len(queue) : queue[i] = queue[j] => i = j

\* The one open descriptor is the one the thread works on.
ConnInv ==
  /\ pc \in Reading \cup {"crash"} => connfd \in Client /\ fd[connfd] = "open"
  /\ \A c \in Client :
       fd[c] = "open" => pc \in Reading \cup {"crash"} /\ c = connfd

ListenerInv ==
  /\ pc \in Handling \cup {"crash"} => listener = "open"
  /\ pc \in {"loop", "exit"} => listener # "open"
  /\ pc = "init" => serverInfo # "null"
  /\ serverInfo = "null" => listener # "open"

\* How many calls are left, at every point.
RetriesInv ==
  /\ pc \in Reading \cup {"accept", "crash"} => retries \in 0 .. RETRIES - 1
  /\ pc = "call" => retries \in 0 .. RETRIES
  /\ pc = "return" => retries = -1
  /\ pc \in {"start", "init"} => retries = RETRIES
  /\ pc \in {"main", "loop", "exit"} => retries \in {-1, RETRIES}
  /\ retries = RETRIES => \A c \in Client : fd[c] = "none"

\* What the thread knows of the message it reads.  While it reads the length,
\* either every recv call so far has brought a byte, or nothing will come.
ReadInv ==
  /\ pc = "length" =>
       /\ lengthBytes < MSG_SIZE /\ lengthBytes <= sent[connfd]
       /\ \/ partialRetries <= lengthBytes
          \/ peer[connfd] = "closed" /\ sent[connfd] = lengthBytes
  /\ pc \in {"alloc", "body"} => sent[connfd] >= MSG_SIZE
  /\ pc = "check" => bytesRead <= sent[connfd] - MSG_SIZE
  /\ pc = "process" => sent[connfd] = Total(connfd)

IInv == /\ TypeOK /\ QueueInv /\ ConnInv /\ ListenerInv /\ RetriesInv
        /\ ReadInv /\ RelayedComplete

-----------------------------------------------------------------------------
(* The types.                                                              *)

LEMMA TotalType == \A c \in Client : Total(c) \in Nat /\ Total(c) >= 0
  BY TrapServerAssumption DEF Total

\* What recv returns, for a message of which `taken' bytes were read.
LEMMA RecvResult ==
  ASSUME TypeOK, connfd \in Client, NEW n \in Int, NEW wanted \in Nat,
         NEW taken \in Nat, taken <= sent[connfd], Recv(n, wanted, taken)
  PROVE  /\ n <= wanted
         /\ n <= sent[connfd] - taken \/ n < 0
         /\ n = 0 => sent[connfd] = taken /\ peer[connfd] = "closed"
         /\ n < 0 => peer[connfd] = "reset"
  BY DEF TypeOK, Recv, DEFAULT_ERROR

LEMMA LastAndFront ==
  ASSUME NEW S, NEW s \in Seq(S), s # << >>
  PROVE  s[Len(s)] \in S /\ SubSeq(s, 1, Len(s) - 1) \in Seq(S)
  OBVIOUS

LEMMA TypeInit == Init => TypeOK
  BY TrapServerAssumption, TotalType DEF Init, TypeOK, Point, Handling, Reading

\* The points the thread is at are points.
LEMMA Points == Reading \subseteq Handling /\ Handling \subseteq Point
  BY DEF Reading, Handling, Point

LEMMA TypeStep == TypeOK /\ ConnInv /\ RetriesInv /\ [Next]_vars => TypeOK'
<1> SUFFICES ASSUME TypeOK, ConnInv, RetriesInv, [Next]_vars PROVE TypeOK'
  OBVIOUS
<1> USE TrapServerAssumption, TotalType DEF TypeOK, localVars, clientVars, mainVars
<1>1. ASSUME NEW c \in Client, Connect(c) PROVE TypeOK'
  BY <1>1 DEF Connect
<1>2. ASSUME NEW c \in Client, ClientStep(c) PROVE TypeOK'
  <2>1. CASE Send(c)
    <3>1. sent' \in [Client -> Nat] /\ \A d \in Client : sent'[d] <= Total(d)
      BY <2>1 DEF Send
    <3> QED BY <2>1, <3>1 DEF Send
  <2>2. ASSUME NEW how \in {"closed", "reset"}, Hangup(c, how) PROVE TypeOK'
    BY <2>2 DEF Hangup
  <2> QED BY <1>2, <2>1, <2>2 DEF ClientStep
<1>3. CASE Signal
  BY <1>3 DEF Signal
<1>4. ASSUME NEW found \in BOOLEAN, GetServerInfo(found) PROVE TypeOK'
  BY <1>4 DEF GetServerInfo, Point
<1>5. ASSUME NEW result \in {"unset", "closed", "open"}, InitServer(result)
      PROVE TypeOK'
  BY <1>5 DEF InitServer, Point, Handling
<1>6. CASE Call
  BY <1>6 DEF Call, RetriesOfACall, RetriesInv, Point, Handling
<1>7. CASE Accept
  <2>1. Head(queue) \in Client /\ Tail(queue) \in Seq(Client)
    BY <1>7 DEF Accept
  <2> QED BY <1>7, <2>1 DEF Accept, Point, Handling, Reading
<1>8. CASE RecvLength
  <2>1. connfd \in Client
    BY <1>8 DEF RecvLength, ConnInv, Reading
  <2>2. PICK n \in 0 .. MSG_SIZE :
          /\ Recv(n, MSG_SIZE - lengthBytes, lengthBytes)
          /\ ~LengthFails(n)
          /\ lengthBytes' = lengthBytes + n
          /\ pc' \in {"length", "alloc"}
    BY <1>8 DEF RecvLength
  <2>3. lengthBytes' \in 0 .. MSG_SIZE
    BY <2>1, <2>2 DEF Recv, DEFAULT_ERROR
  <2>4. partialRetries' \in 0 .. RETRIES_MESSAGE_SIZE + 1
    BY <1>8, <2>2 DEF RecvLength, LengthFails
  <2> QED BY <1>8, <2>2, <2>3, <2>4 DEF RecvLength, Point, Handling, Reading
<1>9. ASSUME NEW resume \in Reading, Recall(resume), pc \in Reading,
             UNCHANGED <<clientVars, queue, retries, connfd, traps, mainVars,
                         lengthBytes, partialRetries>>,
             bytesRead' \in Int
      PROVE TypeOK'
  <2>1. connfd \in Client
    BY <1>9 DEF ConnInv
  <2>2. [resume |-> resume, conn |-> connfd] \in [resume : Reading, conn : Client]
    BY <1>9, <2>1
  <2>3. frames' \in Seq([resume : Reading, conn : Client])
    BY <1>9, <2>2 DEF Recall
  <2>4. fd' \in [Client -> {"none", "open", "closed"}] /\ dropped' \in SUBSET Client
    BY <1>9, <2>1 DEF Recall, CloseConn
  <2>5. pc' \in Point
    BY <1>9 DEF Recall, Point, Handling
  <2> QED BY <1>9, <2>3, <2>4, <2>5
<1>10. CASE RecvLengthFails
  <2>1. Recall("alloc") /\ pc \in Reading /\ "alloc" \in Reading
    BY <1>10 DEF RecvLengthFails, Reading
  <2>2. /\ UNCHANGED <<clientVars, queue, retries, connfd, traps, mainVars>>
        /\ UNCHANGED <<lengthBytes, partialRetries>>
        /\ bytesRead' \in Int
    BY <1>10 DEF RecvLengthFails
  <2> QED BY <1>9, <2>1, <2>2
<1>11. CASE Alloc
  BY <1>11 DEF Alloc, Point, Handling, Reading
<1>12. CASE AllocFails
  <2>1. Recall("body") /\ pc \in Reading /\ "body" \in Reading
    BY <1>12 DEF AllocFails, Reading
  <2>2. /\ UNCHANGED <<clientVars, queue, retries, connfd, traps, mainVars>>
        /\ UNCHANGED <<lengthBytes, partialRetries>>
        /\ bytesRead' \in Int
    BY <1>12 DEF AllocFails
  <2> QED BY <1>9, <2>1, <2>2
<1>13. CASE RecvBody
  BY <1>13 DEF RecvBody, Point, Handling, Reading
<1>14. CASE RecvBodyFails
  <2>1. Recall("check") /\ pc \in Reading /\ "check" \in Reading
    BY <1>14 DEF RecvBodyFails, Reading
  <2>2. /\ UNCHANGED <<clientVars, queue, retries, connfd, traps, mainVars>>
        /\ UNCHANGED <<lengthBytes, partialRetries>>
        /\ bytesRead' \in Int
    BY <1>14 DEF RecvBodyFails, DEFAULT_ERROR
  <2> QED BY <1>9, <2>1, <2>2
<1>15. CASE CheckBody
  BY <1>15 DEF CheckBody, Point, Handling, Reading
<1>16. CASE CheckBodyFails
  <2>1. Recall("process") /\ pc \in Reading /\ "process" \in Reading
    BY <1>16 DEF CheckBodyFails, Reading
  <2>2. /\ UNCHANGED <<clientVars, queue, retries, connfd, traps, mainVars>>
        /\ UNCHANGED <<lengthBytes, partialRetries>>
        /\ bytesRead' \in Int
    BY <1>16 DEF CheckBodyFails
  <2> QED BY <1>9, <2>1, <2>2
<1>17. CASE Process
  <2>1. connfd \in Client
    BY <1>17 DEF Process, ConnInv, Reading
  <2> QED BY <1>17, <2>1 DEF Process, CloseConn, Point, Handling
<1>18. CASE ProcessCrashes
  BY <1>18 DEF ProcessCrashes, Point, Stopped
<1>19. CASE Return
  <2>1. frames \in Seq([resume : Reading, conn : Client]) /\ frames # << >>
    BY <1>19 DEF Return
  <2>2. frames[Len(frames)] \in [resume : Reading, conn : Client]
    BY <2>1, LastAndFront
  <2>3. frames' \in Seq([resume : Reading, conn : Client])
    BY <1>19, <2>1, LastAndFront DEF Return
  <2> QED BY <1>19, <2>2, <2>3, Points DEF Return, Point, Handling
<1>20. CASE ServerReturns
  BY <1>20 DEF ServerReturns, Point
<1>21. CASE MainStops
  BY <1>21 DEF MainStops, Point, StopServer
<1>22. CASE Exit
  BY <1>22 DEF Exit, Point, Stopped
<1>23. CASE UNCHANGED vars
  BY <1>23 DEF vars
<1> QED
  BY <1>1, <1>2, <1>3, <1>4, <1>5, <1>6, <1>7, <1>8, <1>10, <1>11, <1>12,
     <1>13, <1>14, <1>15, <1>16, <1>17, <1>18, <1>19, <1>20, <1>21, <1>22,
     <1>23 DEF Next, ServerStep
-----------------------------------------------------------------------------
(* The other parts of the invariant.                                       *)

\* Closing the connection that is served.
LEMMA Closing ==
  ASSUME TypeOK, QueueInv, ConnInv, pc \in Reading, fd' = CloseConn
  PROVE  /\ connfd \in Client /\ fd[connfd] = "open" /\ fd'[connfd] = "closed"
         /\ fd' \in [Client -> {"none", "open", "closed"}]
         /\ \A c \in Client : c # connfd => fd'[c] = fd[c]
         /\ \A c \in Client : fd'[c] # "open"
  BY DEF TypeOK, ConnInv, CloseConn

LEMMA ConnStep == TypeOK /\ QueueInv /\ ConnInv /\ [Next]_vars => ConnInv'
<1> SUFFICES ASSUME TypeOK, QueueInv, ConnInv, [Next]_vars PROVE ConnInv'
  OBVIOUS
<1> USE DEF localVars, clientVars, mainVars
<1>1. ASSUME UNCHANGED <<pc, connfd, fd>> PROVE ConnInv'
  BY <1>1 DEF ConnInv
<1>2. ASSUME UNCHANGED <<connfd, fd>>, pc \notin Reading \cup {"crash"},
             pc' \notin Reading \cup {"crash"}
      PROVE ConnInv'
  BY <1>2 DEF ConnInv
<1>3. ASSUME UNCHANGED <<connfd, fd>>, pc \in Reading,
             pc' \in Reading \cup {"crash"}
      PROVE ConnInv'
  BY <1>3 DEF ConnInv
<1>4. ASSUME fd' = CloseConn, pc \in Reading, pc' \in {"call", "accept"}
      PROVE ConnInv'
  BY <1>4, Closing DEF ConnInv, Reading
<1>5. CASE Accept
  <2>1. Head(queue) \in Client
    BY <1>5 DEF Accept, TypeOK
  <2>2. \A c \in Client : fd[c] # "open"
    BY <1>5 DEF Accept, ConnInv, Reading
  <2> QED BY <1>5, <2>1, <2>2 DEF Accept, ConnInv, Reading, TypeOK
<1>6. CASE Return
  <2>1. \A c \in Client : fd'[c] # "open"
    BY <1>6 DEF Return, ConnInv, Reading
  <2>2. pc' = "return"
    BY <1>6 DEF Return, HandleResult
  <2> QED BY <2>1, <2>2 DEF ConnInv, Reading
<1>7. ASSUME NEW c \in Client, Connect(c) \/ ClientStep(c) PROVE ConnInv'
  BY <1>1, <1>7 DEF Connect, ClientStep, Send, Hangup
<1>8. CASE Signal
  BY <1>1, <1>8 DEF Signal
<1>9. CASE \E found \in BOOLEAN : GetServerInfo(found)
  BY <1>2, <1>9 DEF GetServerInfo, Reading
<1>10. CASE \E result \in {"unset", "closed", "open"} : InitServer(result)
  BY <1>2, <1>10 DEF InitServer, Reading
<1>11. CASE Call \/ ServerReturns \/ MainStops \/ Exit
  BY <1>2, <1>11 DEF Call, ServerReturns, MainStops, Exit, Reading
<1>12. CASE RecvLength \/ Alloc \/ RecvBody \/ CheckBody \/ ProcessCrashes
  BY <1>3, <1>12 DEF RecvLength, Alloc, RecvBody, CheckBody, ProcessCrashes,
                     Reading
<1>13. CASE RecvLengthFails \/ AllocFails \/ RecvBodyFails \/ CheckBodyFails
  BY <1>4, <1>13 DEF RecvLengthFails, AllocFails, RecvBodyFails,
                     CheckBodyFails, Recall, Reading
<1>14. CASE Process
  BY <1>4, <1>14 DEF Process, Reading
<1>15. CASE UNCHANGED vars
  BY <1>1, <1>15 DEF vars
<1> QED
  BY <1>5, <1>6, <1>7, <1>8, <1>9, <1>10, <1>11, <1>12, <1>13, <1>14, <1>15
     DEF Next, ServerStep

LEMMA QueueStep == TypeOK /\ QueueInv /\ ConnInv /\ [Next]_vars => QueueInv'
<1> SUFFICES ASSUME TypeOK, QueueInv, ConnInv, [Next]_vars PROVE QueueInv'
  OBVIOUS
<1> USE DEF localVars, clientVars, mainVars
<1>1. ASSUME UNCHANGED <<queue, fd, peer, traps, dropped>> PROVE QueueInv'
  BY <1>1 DEF QueueInv
<1>2. ASSUME NEW c \in Client, Connect(c) PROVE QueueInv'
  <2>1. peer[c] = "idle" /\ fd[c] = "none"
    BY <1>2 DEF Connect, QueueInv
  <2>2. \A i \in 1 .. Len(queue) : queue[i] # c
    BY <2>1 DEF QueueInv
  <2>3. /\ Len(queue') = Len(queue) + 1
        /\ \A i \in 1 .. Len(queue) : queue'[i] = queue[i]
        /\ queue'[Len(queue) + 1] = c
    BY <1>2 DEF Connect, TypeOK
  <2>4. Len(queue) \in Nat
    BY DEF TypeOK
  <2>5. /\ \A d \in Client : peer'[d] = (IF d = c THEN "open" ELSE peer[d])
        /\ UNCHANGED <<fd, traps, dropped>>
    BY <1>2 DEF Connect, TypeOK
  <2>6. \A i \in 1 .. Len(queue) : queue[i] \in Client
    BY DEF TypeOK
  <2> QED BY <2>1, <2>2, <2>3, <2>4, <2>5, <2>6 DEF QueueInv
<1>3. ASSUME NEW c \in Client, Send(c) PROVE QueueInv'
  BY <1>1, <1>3 DEF Send
<1>4. ASSUME NEW c \in Client, NEW how \in {"closed", "reset"}, Hangup(c, how)
      PROVE QueueInv'
  <2>1. /\ \A d \in Client : peer'[d] = (IF d = c THEN how ELSE peer[d])
        /\ UNCHANGED <<queue, fd, traps, dropped>>
    BY <1>4 DEF Hangup, TypeOK
  <2>2. \A i \in 1 .. Len(queue) : queue[i] \in Client
    BY DEF TypeOK
  <2> QED BY <2>1, <2>2 DEF QueueInv
<1>5. CASE Accept
  <2>1. /\ Len(queue) \in Nat /\ Len(queue) >= 1
        /\ \A i \in 1 .. Len(queue) : queue[i] \in Client
        /\ Head(queue) = queue[1]
        /\ Len(queue') = Len(queue) - 1
        /\ \A i \in 1 .. Len(queue) - 1 : queue'[i] = queue[i + 1]
    BY <1>5 DEF Accept, TypeOK
  <2>2. /\ \A d \in Client :
             fd'[d] = (IF d = queue[1] THEN "open" ELSE fd[d])
        /\ UNCHANGED <<peer, traps, dropped>>
    BY <1>5, <2>1 DEF Accept, TypeOK
  <2>3. \A i \in 1 .. Len(queue') :
          /\ queue'[i] \in Client /\ queue'[i] # queue[1]
          /\ fd[queue'[i]] = "none" /\ peer[queue'[i]] # "idle"
    BY <2>1 DEF QueueInv
  <2>4. \A i, j \in 1 .. Len(queue') : queue'[i] = queue'[j] => i = j
    BY <2>1 DEF QueueInv
  <2>5. fd[queue[1]] = "none" /\ peer[queue[1]] # "idle"
    BY <2>1 DEF QueueInv
  <2> QED BY <2>1, <2>2, <2>3, <2>4, <2>5 DEF QueueInv
<1>6. ASSUME fd' = CloseConn, pc \in Reading, UNCHANGED <<queue, peer>>,
             \A c \in Client : c # connfd =>
               traps'[c] = traps[c] /\ (c \in dropped' <=> c \in dropped)
      PROVE QueueInv'
  <2>1. /\ connfd \in Client /\ fd[connfd] = "open" /\ fd'[connfd] = "closed"
        /\ \A c \in Client : c # connfd => fd'[c] = fd[c]
    BY <1>6, Closing
  <2>2. \A i \in 1 .. Len(queue) : queue[i] \in Client /\ queue[i] # connfd
    BY <2>1 DEF TypeOK, QueueInv
  <2>3. peer[connfd] # "idle"
    BY <2>1 DEF QueueInv
  <2> QED BY <1>6, <2>1, <2>2, <2>3 DEF QueueInv
<1>7. CASE RecvLengthFails \/ AllocFails \/ RecvBodyFails \/ CheckBodyFails
  BY <1>6, <1>7 DEF RecvLengthFails, AllocFails, RecvBodyFails,
                    CheckBodyFails, Recall, Reading
<1>8. CASE Process
  <2>1. pc \in Reading
    BY <1>8 DEF Process, Reading
  <2>2. \A c \in Client : c # connfd => traps'[c] = traps[c]
    BY <1>8 DEF Process, TypeOK
  <2> QED BY <1>6, <1>8, <2>1, <2>2 DEF Process
<1>9. CASE \/ \E found \in BOOLEAN : GetServerInfo(found)
           \/ \E result \in {"unset", "closed", "open"} : InitServer(result)
           \/ Signal \/ Call \/ RecvLength \/ Alloc \/ RecvBody \/ CheckBody
           \/ ProcessCrashes \/ Return \/ ServerReturns \/ MainStops \/ Exit
  BY <1>1, <1>9 DEF GetServerInfo, InitServer, Signal, Call, RecvLength,
       Alloc, RecvBody, CheckBody, ProcessCrashes, Return, ServerReturns,
       MainStops, Exit
<1>10. CASE UNCHANGED vars
  BY <1>1, <1>10 DEF vars
<1> QED
  BY <1>2, <1>3, <1>4, <1>5, <1>7, <1>8, <1>9, <1>10
     DEF Next, ServerStep, ClientStep

LEMMA ListenerStep == ListenerInv /\ [Next]_vars => ListenerInv'
<1> SUFFICES ASSUME ListenerInv, [Next]_vars PROVE ListenerInv'
  OBVIOUS
<1> USE DEF ListenerInv, localVars, clientVars, mainVars, Handling, Reading
<1>1. CASE \E c \in Client : Connect(c) \/ ClientStep(c)
  BY <1>1 DEF Connect, ClientStep, Send, Hangup
<1>2. CASE Signal \/ UNCHANGED vars
  BY <1>2 DEF Signal, vars
<1>3. CASE \E found \in BOOLEAN : GetServerInfo(found)
  BY <1>3 DEF GetServerInfo
<1>4. CASE \E result \in {"unset", "closed", "open"} : InitServer(result)
  BY <1>4 DEF InitServer
<1>5. CASE Call \/ Accept \/ Alloc \/ RecvBody \/ CheckBody \/ RecvLength
  BY <1>5 DEF Call, Accept, Alloc, RecvBody, CheckBody, RecvLength
<1>6. CASE RecvLengthFails \/ AllocFails \/ RecvBodyFails \/ CheckBodyFails
  BY <1>6 DEF RecvLengthFails, AllocFails, RecvBodyFails, CheckBodyFails, Recall
<1>7. CASE Process \/ ProcessCrashes \/ Return \/ ServerReturns \/ Exit
  BY <1>7 DEF Process, ProcessCrashes, Return, ServerReturns, Exit, HandleResult
<1>8. CASE MainStops
  BY <1>8 DEF MainStops
<1> QED
  BY <1>1, <1>2, <1>3, <1>4, <1>5, <1>6, <1>7, <1>8 DEF Next, ServerStep

LEMMA RetriesStep ==
  TypeOK /\ QueueInv /\ ConnInv /\ RetriesInv /\ [Next]_vars => RetriesInv'
<1> SUFFICES ASSUME TypeOK, QueueInv, ConnInv, RetriesInv, [Next]_vars
             PROVE  RetriesInv'
  OBVIOUS
<1> USE TrapServerAssumption
      DEF RetriesInv, localVars, clientVars, mainVars, Reading
<1>1. CASE \E c \in Client : Connect(c) \/ ClientStep(c)
  BY <1>1 DEF Connect, ClientStep, Send, Hangup
<1>2. CASE Signal \/ UNCHANGED vars
  BY <1>2 DEF Signal, vars
<1>3. CASE \E found \in BOOLEAN : GetServerInfo(found)
  BY <1>3 DEF GetServerInfo
<1>4. CASE \E result \in {"unset", "closed", "open"} : InitServer(result)
  BY <1>4 DEF InitServer
<1>5. CASE Call
  BY <1>5 DEF Call, RetriesOfACall
<1>6. CASE Accept \/ Alloc \/ RecvBody \/ CheckBody \/ RecvLength
  BY <1>6 DEF Accept, Alloc, RecvBody, CheckBody, RecvLength
<1>7. CASE RecvLengthFails \/ AllocFails \/ RecvBodyFails \/ CheckBodyFails
  BY <1>7 DEF RecvLengthFails, AllocFails, RecvBodyFails, CheckBodyFails, Recall
<1>8. CASE Process \/ ProcessCrashes \/ ServerReturns \/ MainStops \/ Exit
  BY <1>8 DEF Process, ProcessCrashes, ServerReturns, MainStops, Exit
<1>9. CASE Return
  BY <1>9 DEF Return, HandleResult
<1> QED
  BY <1>1, <1>2, <1>3, <1>4, <1>5, <1>6, <1>7, <1>8, <1>9 DEF Next, ServerStep

LEMMA ReadStep == TypeOK /\ ConnInv /\ ReadInv /\ [Next]_vars => ReadInv'
<1> SUFFICES ASSUME TypeOK, ConnInv, ReadInv, [Next]_vars PROVE ReadInv'
  OBVIOUS
<1> USE TrapServerAssumption, TotalType
      DEF localVars, clientVars, mainVars
<1>1. ASSUME pc' \notin Reading PROVE ReadInv'
  BY <1>1 DEF ReadInv, Reading
<1>2. ASSUME UNCHANGED <<pc, connfd, localVars>>,
             pc \in Reading =>
               /\ sent'[connfd] >= sent[connfd]
               /\ sent'[connfd] <= Total(connfd)
               /\ sent'[connfd] \in Nat
               /\ peer[connfd] = "closed" =>
                    sent'[connfd] = sent[connfd] /\ peer'[connfd] = "closed"
      PROVE ReadInv'
  <2>1. CASE pc \in Reading
    <3>1. connfd \in Client /\ sent[connfd] \in Nat
      BY <2>1 DEF ConnInv, TypeOK
    <3> QED BY <1>2, <2>1, <3>1 DEF ReadInv, Reading, TypeOK
  <2>2. CASE pc \notin Reading
    BY <1>1, <1>2, <2>2
  <2> QED BY <2>1, <2>2
<1>3. ASSUME NEW c \in Client, Connect(c) PROVE ReadInv'
  <2>1. pc \in Reading => connfd \in Client
    BY DEF ConnInv
  <2> QED BY <1>2, <1>3, <2>1 DEF Connect, TypeOK
<1>4. ASSUME NEW c \in Client, Send(c) PROVE ReadInv'
  <2>1. pc \in Reading => connfd \in Client
    BY DEF ConnInv
  <2>2. \A d \in Client : sent[d] \in Nat /\ sent[d] <= Total(d)
    BY DEF TypeOK
  <2>3. /\ sent[c] < Total(c) /\ peer[c] = "open" /\ peer' = peer
        /\ \A d \in Client : sent'[d] = (IF d = c THEN sent[d] + 1 ELSE sent[d])
    BY <1>4 DEF Send, TypeOK
  <2> QED BY <1>2, <1>4, <2>1, <2>2, <2>3 DEF Send
<1>5. ASSUME NEW c \in Client, NEW how \in {"closed", "reset"}, Hangup(c, how)
      PROVE ReadInv'
  <2>1. pc \in Reading => connfd \in Client
    BY DEF ConnInv
  <2> QED BY <1>2, <1>5, <2>1 DEF Hangup, TypeOK
<1>6. CASE Signal \/ UNCHANGED vars
  <2>1. pc \in Reading => connfd \in Client
    BY DEF ConnInv
  <2> QED BY <1>2, <1>6, <2>1 DEF Signal, vars, TypeOK
<1>7. CASE \/ \E found \in BOOLEAN : GetServerInfo(found)
           \/ \E result \in {"unset", "closed", "open"} : InitServer(result)
           \/ Call \/ Process \/ ProcessCrashes \/ ServerReturns \/ MainStops \/ Exit
  BY <1>1, <1>7 DEF GetServerInfo, InitServer, Call, Process, ProcessCrashes,
       ServerReturns, MainStops, Exit, Reading
<1>8. CASE RecvLengthFails \/ AllocFails \/ RecvBodyFails \/ CheckBodyFails
  BY <1>1, <1>8 DEF RecvLengthFails, AllocFails, RecvBodyFails,
       CheckBodyFails, Recall, Reading
<1>9. CASE Return
  BY <1>1, <1>9 DEF Return, HandleResult, Reading
<1>10. CASE Accept
  <2>1. connfd' \in Client
    BY <1>10 DEF Accept, TypeOK
  <2> QED BY <1>10, <2>1 DEF Accept, ReadInv, TypeOK
<1>11. CASE RecvLength
  <2>1. connfd \in Client /\ pc = "length" /\ sent[connfd] \in Nat
    BY <1>11 DEF RecvLength, ConnInv, Reading, TypeOK
  <2>2. PICK n \in 0 .. MSG_SIZE :
          /\ Recv(n, MSG_SIZE - lengthBytes, lengthBytes)
          /\ lengthBytes' = lengthBytes + n
          /\ pc' = IF lengthBytes + n < MSG_SIZE THEN "length" ELSE "alloc"
    BY <1>11 DEF RecvLength
  <2>3. /\ UNCHANGED <<sent, peer, connfd>>
        /\ partialRetries' = partialRetries + 1
    BY <1>11 DEF RecvLength
  <2>4. /\ n <= sent[connfd] - lengthBytes
        /\ n = 0 => sent[connfd] = lengthBytes /\ peer[connfd] = "closed"
    BY <2>1, <2>2 DEF Recv, DEFAULT_ERROR, ReadInv, TypeOK
  <2>5. pc' \in {"length", "alloc"} /\ lengthBytes + n <= sent[connfd]
    BY <2>1, <2>2, <2>4 DEF TypeOK
  <2>6. ASSUME pc' = "length"
        PROVE  /\ lengthBytes' < MSG_SIZE /\ lengthBytes' <= sent[connfd]
               /\ \/ partialRetries' <= lengthBytes'
                  \/ peer[connfd] = "closed" /\ sent[connfd] = lengthBytes'
    BY <2>1, <2>2, <2>3, <2>4, <2>5, <2>6 DEF ReadInv, TypeOK
  <2>7. ASSUME pc' = "alloc" PROVE sent[connfd] >= MSG_SIZE
    BY <2>1, <2>2, <2>5, <2>7 DEF TypeOK
  <2> QED BY <2>3, <2>5, <2>6, <2>7 DEF ReadInv
<1>12. CASE Alloc
  BY <1>12 DEF Alloc, ReadInv
<1>13. CASE RecvBody
  <2>1. /\ connfd \in Client /\ sent[connfd] \in Nat /\ sent[connfd] >= MSG_SIZE
        /\ Size[connfd] \in Nat
    BY <1>13 DEF RecvBody, ConnInv, Reading, TypeOK, ReadInv
  <2>2. /\ bytesRead' \in 0 .. Size[connfd] /\ pc' = "check"
        /\ Recv(bytesRead', Size[connfd], MSG_SIZE) /\ UNCHANGED <<sent, connfd>>
    BY <1>13 DEF RecvBody
  <2>3. bytesRead' <= sent[connfd] - MSG_SIZE
    BY <2>1, <2>2 DEF Recv, DEFAULT_ERROR
  <2> QED BY <2>2, <2>3 DEF ReadInv
<1>14. CASE CheckBody
  <2>1. /\ connfd \in Client /\ sent[connfd] \in Nat /\ Size[connfd] \in Nat
        /\ bytesRead = Size[connfd] /\ bytesRead <= sent[connfd] - MSG_SIZE
        /\ sent[connfd] <= MSG_SIZE + Size[connfd]
    BY <1>14 DEF CheckBody, BodyComplete, ConnInv, Reading, TypeOK, ReadInv, Total
  <2>2. sent[connfd] = Total(connfd)
    BY <2>1 DEF Total
  <2> QED BY <1>14, <2>2 DEF CheckBody, ReadInv
<1> QED
  BY <1>3, <1>4, <1>5, <1>6, <1>7, <1>8, <1>9, <1>10, <1>11, <1>12, <1>13,
     <1>14 DEF Next, ServerStep, ClientStep

LEMMA RelayedStep ==
  TypeOK /\ QueueInv /\ ConnInv /\ ReadInv /\ RelayedComplete /\ [Next]_vars
    => RelayedComplete'
<1> SUFFICES ASSUME TypeOK, QueueInv, ConnInv, ReadInv, RelayedComplete,
                    [Next]_vars,
                    NEW c \in Client, traps'[c] # 0
             PROVE  /\ traps'[c] = 1
                    /\ Payload[c] = "alarm"
                    /\ sent'[c] = Total(c)
                    /\ fd'[c] = "closed"
                    /\ c \notin dropped'
  BY DEF RelayedComplete
<1> USE DEF localVars, clientVars, mainVars
<1>1. ASSUME traps'[c] = traps[c], sent'[c] = sent[c], fd'[c] = fd[c],
             c \in dropped' <=> c \in dropped
      PROVE  /\ traps'[c] = 1 /\ Payload[c] = "alarm" /\ sent'[c] = Total(c)
             /\ fd'[c] = "closed" /\ c \notin dropped'
  BY <1>1 DEF RelayedComplete
<1>2. ASSUME NEW d \in Client, Send(d) PROVE sent'[c] = sent[c] \/ traps[c] = 0
  BY <1>2 DEF Send, RelayedComplete, TypeOK
<1>3. ASSUME NEW d \in Client, Connect(d) \/ ClientStep(d)
      PROVE  /\ traps'[c] = 1 /\ Payload[c] = "alarm" /\ sent'[c] = Total(c)
             /\ fd'[c] = "closed" /\ c \notin dropped'
  BY <1>1, <1>2, <1>3 DEF Connect, ClientStep, Send, Hangup
<1>4. CASE Accept
  <2>1. /\ Head(queue) \in Client /\ fd[Head(queue)] = "none"
    BY <1>4 DEF Accept, TypeOK, QueueInv
  <2>2. traps[c] # 0
    BY <1>4 DEF Accept
  <2>3. Head(queue) # c
    BY <2>1, <2>2 DEF QueueInv
  <2> QED BY <1>1, <1>4, <2>1, <2>3 DEF Accept, TypeOK
<1>5. ASSUME fd' = CloseConn, pc \in Reading, dropped' = dropped \cup {connfd},
             UNCHANGED <<traps, sent>>
      PROVE  /\ traps'[c] = 1 /\ Payload[c] = "alarm" /\ sent'[c] = Total(c)
             /\ fd'[c] = "closed" /\ c \notin dropped'
  <2>1. connfd \in Client /\ fd[connfd] = "open" /\ (c # connfd => fd'[c] = fd[c])
    BY <1>5, Closing
  <2>2. c # connfd
    BY <1>5, <2>1 DEF QueueInv
  <2> QED BY <1>1, <1>5, <2>1, <2>2
<1>6. CASE RecvLengthFails \/ AllocFails \/ RecvBodyFails \/ CheckBodyFails
  BY <1>5, <1>6 DEF RecvLengthFails, AllocFails, RecvBodyFails,
                    CheckBodyFails, Recall, Reading
<1>7. CASE Process
  <2>1. /\ connfd \in Client /\ fd[connfd] = "open" /\ fd'[connfd] = "closed"
        /\ c # connfd => fd'[c] = fd[c]
    BY <1>7, Closing DEF Process, Reading
  <2>2. CASE c = connfd
    <3>1. traps[c] = 0 /\ c \notin dropped
      BY <2>1, <2>2 DEF QueueInv
    <3>2. Payload[c] = "alarm" /\ traps'[c] = 1
      BY <1>7, <2>2, <3>1 DEF Process, TypeOK
    <3>3. sent'[c] = Total(c)
      BY <1>7, <2>2 DEF Process, ReadInv
    <3> QED BY <1>7, <2>1, <2>2, <3>1, <3>2, <3>3 DEF Process
  <2>3. CASE c # connfd
    <3>1. traps'[c] = traps[c]
      BY <1>7, <2>3 DEF Process, TypeOK
    <3> QED BY <1>1, <1>7, <2>1, <2>3, <3>1 DEF Process
  <2> QED BY <2>2, <2>3
<1>8. CASE \/ \E found \in BOOLEAN : GetServerInfo(found)
           \/ \E result \in {"unset", "closed", "open"} : InitServer(result)
           \/ Signal \/ Call \/ RecvLength \/ Alloc \/ RecvBody \/ CheckBody
           \/ ProcessCrashes \/ Return \/ ServerReturns \/ MainStops \/ Exit
  BY <1>1, <1>8 DEF GetServerInfo, InitServer, Signal, Call, RecvLength,
       Alloc, RecvBody, CheckBody, ProcessCrashes, Return, ServerReturns,
       MainStops, Exit
<1>9. CASE UNCHANGED vars
  BY <1>1, <1>9 DEF vars
<1> QED
  BY <1>3, <1>4, <1>6, <1>7, <1>8, <1>9 DEF Next, ServerStep

-----------------------------------------------------------------------------
(* The theorems.                                                           *)

LEMMA InitInv == Init => IInv
<1> SUFFICES ASSUME Init PROVE IInv
  OBVIOUS
<1>1. TypeOK
  BY TypeInit
<1> QED
  BY <1>1, TrapServerAssumption
     DEF Init, IInv, QueueInv, ConnInv, ListenerInv, RetriesInv, ReadInv,
         RelayedComplete, Reading, Handling

\* The invariant is inductive.
THEOREM Invariance == Spec => []IInv
<1>1. IInv /\ [Next]_vars => IInv'
  BY TypeStep, QueueStep, ConnStep, ListenerStep, RetriesStep, ReadStep,
     RelayedStep DEF IInv
<1> QED BY InitInv, <1>1, PTL DEF Spec

\* Every variable of the server keeps to its type: the retries never fall
\* below -1 and no counter passes its limit.
THEOREM TypeCorrect == Spec => []TypeOK
<1>1. IInv => TypeOK
  BY DEF IInv
<1> QED BY Invariance, <1>1, PTL

\* However many connections fail, in whatever phase, no descriptor is leaked
\* and none is used after it was closed.
THEOREM NoDescriptorLeaks == Spec => []DescriptorInv
<1>1. IInv => DescriptorInv
  <2> SUFFICES ASSUME IInv PROVE DescriptorInv
    OBVIOUS
  <2>1. CASE pc \in Reading \cup {"crash"}
    BY <2>1 DEF IInv, ConnInv, ListenerInv, DescriptorInv
  <2>2. CASE pc \notin Reading \cup {"crash"}
    BY <2>2 DEF IInv, ConnInv, ListenerInv, DescriptorInv
  <2> QED BY <2>1, <2>2
<1> QED BY Invariance, <1>1, PTL

\* Only whole messages are relayed, each once, and no dropped one.
THEOREM OnlyWholeMessages == Spec => []RelayedComplete
<1>1. IInv => RelayedComplete
  BY DEF IInv
<1> QED BY Invariance, <1>1, PTL

\* The length phase never gives up on a client that is still there, as long as
\* one recv call per byte is allowed: MSG_SIZE <= RETRIES_MESSAGE_SIZE + 1.
THEOREM LengthIsPatient == Spec => LengthPatience
<1> DEFINE GaveUpRightly ==
      pc = "length" /\ pc' = "call" =>
        \/ peer[connfd] = "reset"
        \/ peer[connfd] = "closed" /\ sent[connfd] < MSG_SIZE
<1>1. IInv /\ [Next]_vars => [GaveUpRightly]_vars
  <2> SUFFICES ASSUME IInv, Next, pc = "length", pc' = "call"
               PROVE  \/ peer[connfd] = "reset"
                      \/ peer[connfd] = "closed" /\ sent[connfd] < MSG_SIZE
    OBVIOUS
  <2>1. CASE RecvLengthFails
    <3>1. PICK n \in DEFAULT_ERROR .. MSG_SIZE :
            Recv(n, MSG_SIZE - lengthBytes, lengthBytes) /\ LengthFails(n)
      BY <2>1 DEF RecvLengthFails
    <3>2. CASE n < 0
      BY <3>1, <3>2 DEF Recv, DEFAULT_ERROR
    <3>3. CASE ~(n < 0)
      <4>1. partialRetries > RETRIES_MESSAGE_SIZE
        BY <3>1, <3>3 DEF LengthFails, DEFAULT_SUCCESS
      <4>2. /\ lengthBytes \in Nat /\ partialRetries \in Nat
            /\ lengthBytes < MSG_SIZE
            /\ \/ partialRetries <= lengthBytes
               \/ peer[connfd] = "closed" /\ sent[connfd] = lengthBytes
        BY DEF IInv, ReadInv, TypeOK
      <4> QED BY <4>1, <4>2, TrapServerAssumption
    <3> QED BY <3>2, <3>3
  <2>2. CASE RecvLength
    BY <2>2 DEF RecvLength
  <2>3. CASE (\E c \in Client : Connect(c) \/ ClientStep(c)) \/ Signal
    BY <2>3 DEF Connect, ClientStep, Send, Hangup, Signal
  <2> QED
    BY <2>1, <2>2, <2>3
       DEF Next, ServerStep, GetServerInfo, InitServer, Call, Accept, Alloc,
           AllocFails, RecvBody, RecvBodyFails, CheckBody, CheckBodyFails,
           Process, ProcessCrashes, Return, ServerReturns, MainStops, Exit
<1> QED BY Invariance, <1>1, PTL DEF Spec, LengthPatience
\* What a step that is not the server's leaves alone.
LEMMA WorldStep ==
  ASSUME (\E c \in Client : Connect(c) \/ ClientStep(c)) \/ Signal
  PROVE  UNCHANGED <<pc, partialRetries>>
  BY DEF Connect, ClientStep, Send, Hangup, Signal, localVars

\* The recv calls of one length are counted, and there is a limit to them;
\* after the length each phase is entered once.
LEMMA StepsAreCounted ==
  ASSUME IInv, ServerStep
  PROVE  /\ pc \in Reading => StepsLeft' < StepsLeft
         /\ StepsLeft' > StepsLeft => pc = "accept"
<1> USE TrapServerAssumption DEF StepsLeft, Reading, localVars
<1>1. partialRetries \in 0 .. RETRIES_MESSAGE_SIZE + 1
  BY DEF IInv, TypeOK
<1>2. CASE RecvLength
  <2>1. PICK n \in 0 .. MSG_SIZE : ~LengthFails(n)
    BY <1>2 DEF RecvLength
  <2>2. partialRetries <= RETRIES_MESSAGE_SIZE
    BY <1>1, <2>1 DEF LengthFails
  <2> QED BY <1>1, <1>2, <2>2 DEF RecvLength
<1>3. CASE RecvLengthFails \/ AllocFails \/ RecvBodyFails \/ CheckBodyFails
  BY <1>1, <1>3 DEF RecvLengthFails, AllocFails, RecvBodyFails, CheckBodyFails,
                    Recall
<1>4. CASE Alloc \/ RecvBody \/ CheckBody \/ Process \/ ProcessCrashes
  BY <1>4 DEF Alloc, RecvBody, CheckBody, Process, ProcessCrashes
<1>5. CASE Accept
  BY <1>5 DEF Accept
<1>6. CASE \/ \E found \in BOOLEAN : GetServerInfo(found)
           \/ \E result \in {"unset", "closed", "open"} : InitServer(result)
           \/ Call \/ Return \/ ServerReturns \/ MainStops \/ Exit
  <2>1. pc \notin Reading /\ pc' \notin Reading
    BY <1>6 DEF GetServerInfo, InitServer, Call, Return, HandleResult,
                ServerReturns, MainStops, Exit
  <2> QED BY <2>1
<1> QED BY <1>2, <1>3, <1>4, <1>5, <1>6 DEF ServerStep

\* For every setting of the limits and every behaviour of the clients, the
\* server makes at most RETRIES_MESSAGE_SIZE + 6 steps between two accepts.
THEOREM ConnectionsAreBounded == Spec => ConnectionBounded
<1>1. IInv => StepsLeft \in 0 .. RETRIES_MESSAGE_SIZE + 6
  <2> SUFFICES ASSUME IInv PROVE StepsLeft \in 0 .. RETRIES_MESSAGE_SIZE + 6
    OBVIOUS
  <2>1. partialRetries \in 0 .. RETRIES_MESSAGE_SIZE + 1
    BY DEF IInv, TypeOK
  <2> QED BY <2>1, TrapServerAssumption DEF StepsLeft, Reading
<1>2. IInv /\ Next =>
        /\ StepsLeft' > StepsLeft => pc = "accept"
        /\ ServerStep /\ pc \in Reading => StepsLeft' < StepsLeft
  <2> SUFFICES ASSUME IInv, Next
               PROVE  /\ StepsLeft' > StepsLeft => pc = "accept"
                      /\ ServerStep /\ pc \in Reading => StepsLeft' < StepsLeft
    OBVIOUS
  <2>1. CASE ServerStep
    BY <2>1, StepsAreCounted
  <2>2. CASE ~ServerStep
    <3>1. StepsLeft' = StepsLeft
      BY <2>2, WorldStep DEF Next, StepsLeft
    <3>2. ~(StepsLeft > StepsLeft)
      BY <1>1, TrapServerAssumption
    <3> QED BY <2>2, <3>1, <3>2
  <2> QED BY <2>1, <2>2
<1>3. IInv /\ IInv' /\ [Next]_vars =>
        [/\ StepsLeft' \in 0 .. RETRIES_MESSAGE_SIZE + 6
         /\ StepsLeft' > StepsLeft => pc = "accept"
         /\ ServerStep /\ pc \in Reading => StepsLeft' < StepsLeft]_vars
  <2>1. IInv' => StepsLeft' \in 0 .. RETRIES_MESSAGE_SIZE + 6
    <3> SUFFICES ASSUME IInv' PROVE StepsLeft' \in 0 .. RETRIES_MESSAGE_SIZE + 6
      OBVIOUS
    <3>1. partialRetries' \in 0 .. RETRIES_MESSAGE_SIZE + 1
      BY DEF IInv, TypeOK
    <3> QED BY <3>1, TrapServerAssumption DEF StepsLeft, Reading
  <2> QED BY <1>2, <2>1
<1> QED BY Invariance, <1>3, PTL DEF Spec, ConnectionBounded
-----------------------------------------------------------------------------
(* The budget: the count of dropped connections.                           *)

\* The dropped connections are those the budget has paid for.
DropCount == IsFiniteSet(dropped) /\ Cardinality(dropped) = RETRIES - Budget

LEMMA DropInit == Init => DropCount
  BY FS_EmptySet, TrapServerAssumption DEF Init, DropCount, Budget

\* A step that drops nobody leaves the budget as it is.
LEMMA BudgetKept ==
  ASSUME IInv, Next, dropped' = dropped, ~\E r \in Reading : Recall(r)
  PROVE  Budget' = Budget
<1> USE TrapServerAssumption
      DEF IInv, RetriesInv, Budget, Reading, localVars, clientVars, mainVars
<1>1. CASE (\E c \in Client : Connect(c) \/ ClientStep(c)) \/ Signal
  BY <1>1 DEF Connect, ClientStep, Send, Hangup, Signal
<1>2. CASE \/ \E found \in BOOLEAN : GetServerInfo(found)
           \/ \E result \in {"unset", "closed", "open"} : InitServer(result)
  BY <1>2 DEF GetServerInfo, InitServer
<1>3. CASE Call
  BY <1>3 DEF Call, RetriesOfACall
<1>4. CASE Accept \/ RecvLength \/ Alloc \/ RecvBody \/ CheckBody \/ Process
  BY <1>4 DEF Accept, RecvLength, Alloc, RecvBody, CheckBody, Process
<1>5. CASE ProcessCrashes \/ Return \/ ServerReturns \/ MainStops \/ Exit
  BY <1>5 DEF ProcessCrashes, Return, HandleResult, ServerReturns, MainStops,
              Exit
<1>6. CASE RecvLengthFails \/ AllocFails \/ RecvBodyFails \/ CheckBodyFails
  BY <1>6 DEF RecvLengthFails, AllocFails, RecvBodyFails, CheckBodyFails
<1> QED BY <1>1, <1>2, <1>3, <1>4, <1>5, <1>6 DEF Next, ServerStep

\* A step that is not a recall drops nobody; a recall is one of four actions.
LEMMA OnlyRecallsDrop ==
  ASSUME IInv, Next
  PROVE  \/ dropped' = dropped /\ ~\E r \in Reading : Recall(r)
         \/ /\ pc \in Reading /\ \E r \in Reading : Recall(r)
            /\ UNCHANGED <<retries, traps>>
<1> USE DEF localVars, clientVars, mainVars
<1>1. CASE RecvLengthFails \/ AllocFails \/ RecvBodyFails \/ CheckBodyFails
  BY <1>1 DEF RecvLengthFails, AllocFails, RecvBodyFails, CheckBodyFails,
              Reading
<1>2. ASSUME dropped' = dropped, frames' = frames
      PROVE  dropped' = dropped /\ ~\E r \in Reading : Recall(r)
  <2>1. Len(Append(frames, 0)) = Len(frames) + 1 /\ Len(frames) \in Nat
    BY DEF IInv, TypeOK
  <2> SUFFICES ASSUME NEW r \in Reading, Recall(r) PROVE FALSE
    BY <1>2
  <2>2. Len(frames') = Len(frames) + 1
    BY DEF Recall, IInv, TypeOK
  <2> QED BY <1>2, <2>1, <2>2
<1>3. CASE Return
  <2>1. pc' # "call"
    BY <1>3 DEF Return, HandleResult
  <2> QED BY <1>3, <2>1 DEF Return, Recall
<1>4. CASE \/ \E c \in Client : Connect(c) \/ ClientStep(c)
           \/ \E found \in BOOLEAN : GetServerInfo(found)
           \/ \E result \in {"unset", "closed", "open"} : InitServer(result)
           \/ Signal \/ Call \/ Accept \/ RecvLength \/ Alloc \/ RecvBody \/ CheckBody
           \/ Process \/ ProcessCrashes \/ ServerReturns \/ MainStops \/ Exit
  BY <1>2, <1>4 DEF Connect, ClientStep, Send, Hangup, GetServerInfo,
       InitServer, Signal, Call, Accept, RecvLength, Alloc, RecvBody,
       CheckBody, Process, ProcessCrashes, ServerReturns, MainStops, Exit
<1> QED BY <1>1, <1>3, <1>4 DEF Next, ServerStep

LEMMA DropStep == IInv /\ DropCount /\ [Next]_vars => DropCount'
<1> SUFFICES ASSUME IInv, DropCount, [Next]_vars PROVE DropCount'
  OBVIOUS
<1>1. CASE UNCHANGED vars
  BY <1>1 DEF vars, DropCount, Budget
<1>2. CASE Next /\ dropped' = dropped /\ ~\E r \in Reading : Recall(r)
  BY <1>2, BudgetKept DEF DropCount
<1>3. CASE pc \in Reading /\ (\E r \in Reading : Recall(r)) /\ retries' = retries
  <2>1. connfd \in Client /\ connfd \notin dropped
    BY <1>3 DEF IInv, ConnInv, QueueInv
  <2>2. dropped' = dropped \cup {connfd} /\ pc' = "call"
    BY <1>3 DEF Recall
  <2>3. IsFiniteSet(dropped') /\ Cardinality(dropped') = Cardinality(dropped) + 1
    BY <2>1, <2>2, FS_AddElement DEF DropCount
  <2>4. Budget' = Budget - 1 /\ Budget \in Int
    BY <1>3, <2>2, TrapServerAssumption
       DEF Budget, IInv, RetriesInv, Reading
  <2> QED BY <2>3, <2>4, TrapServerAssumption DEF DropCount
<1> QED BY <1>1, <1>2, <1>3, OnlyRecallsDrop

LEMMA BudgetBounds ==
  ASSUME IInv PROVE /\ Budget \in 0 .. RETRIES
                    /\ pc = "return" => Budget = 0
                    /\ pc \in Reading \cup {"accept"} => Budget > 0
<1> USE TrapServerAssumption DEF IInv, RetriesInv, Budget
<1>1. pc \in Reading \cup {"accept", "call", "return", "start", "init", "main",
                           "loop", "exit", "crash"}
  BY DEF TypeOK, Point, Handling, Stopped
<1>2. pc \in Reading => pc \notin {"call", "return"}
  BY DEF Reading
<1> QED BY <1>1, <1>2

\* For every number of clients: the server gives up when, and only when, it
\* has dropped RETRIES connections in its lifetime.
THEOREM DropsAreBudgeted == Spec => []DropBudget
<1>1. IInv /\ DropCount => DropBudget
  <2> SUFFICES ASSUME IInv, DropCount PROVE DropBudget
    OBVIOUS
  <2> QED BY BudgetBounds, TrapServerAssumption DEF DropCount, DropBudget
<1> QED BY Invariance, DropInit, DropStep, <1>1, PTL DEF Spec
-----------------------------------------------------------------------------
(* The refinement.                                                         *)

\* Where a step leaves the mapped state alone, the promise stutters.
LEMMA StatusKept ==
  ASSUME UNCHANGED <<fd, traps, dropped>> PROVE RelayStatus' = RelayStatus
  BY DEF RelayStatus, StatusOf

\* A step that turns one client's status from what it was to `now'.
LEMMA StatusChange ==
  ASSUME NEW c \in Client, NEW now,
         StatusOf(c)' = now,
         \A d \in Client : d # c => StatusOf(d)' = StatusOf(d)
  PROVE  RelayStatus' = [RelayStatus EXCEPT ![c] = now]
  BY DEF RelayStatus

LEMMA RelayInit == Init => Relay!Init
  BY TrapServerAssumption
     DEF Init, Relay!Init, RelayStatus, StatusOf, Budget, RelayUp, Stopped

\* The client that is served, in the promise.
LEMMA ServedClient ==
  ASSUME IInv, pc \in Reading
  PROVE  /\ connfd \in Client /\ fd[connfd] = "open"
         /\ RelayStatus[connfd] = "serving" /\ RelayUp
  BY DEF IInv, ConnInv, RelayStatus, StatusOf, RelayUp, Stopped, Reading

LEMMA RelayTake == IInv /\ Next /\ Accept => Relay!Next
<1> SUFFICES ASSUME IInv, Next, Accept PROVE Relay!Next
  OBVIOUS
<1>a. Head(queue) \in Client /\ fd[Head(queue)] = "none"
  BY DEF IInv, TypeOK, QueueInv, Accept
<1>b. PICK c \in Client : c = Head(queue)
  BY <1>a
<1>1. fd[c] = "none" /\ traps[c] = 0 /\ c \notin dropped
  BY <1>a, <1>b DEF IInv, QueueInv
<1>2. fd' = [fd EXCEPT ![c] = "open"] /\ UNCHANGED <<traps, dropped>>
  BY <1>b DEF Accept
<1>3. fd \in [Client -> {"none", "open", "closed"}]
  BY DEF IInv, TypeOK
<1>4. StatusOf(c)' = "serving" /\ \A d \in Client : d # c => StatusOf(d)' = StatusOf(d)
  BY <1>1, <1>2, <1>3 DEF StatusOf
<1>5. RelayStatus' = [RelayStatus EXCEPT ![c] = "serving"]
  BY <1>1, <1>4, StatusChange
<1>6. RelayStatus[c] = "new"
  BY <1>1 DEF RelayStatus, StatusOf
<1>7. \A d \in Client : RelayStatus[d] # "serving"
  BY DEF IInv, ConnInv, Accept, Reading, RelayStatus, StatusOf
<1>8. RelayUp /\ RelayUp' /\ Budget > 0
  BY BudgetBounds DEF Accept, RelayUp, Stopped
<1>9. Budget' = Budget
  BY DEF Accept, Budget, IInv, RetriesInv
<1>10. Relay!Take(c)
  BY <1>5, <1>6, <1>7, <1>8, <1>9 DEF Relay!Take, Relay!Serving
<1> QED BY <1>1, <1>10 DEF Relay!Next

LEMMA RelayDrop ==
  ASSUME IInv, pc \in Reading, NEW r \in Reading, Recall(r),
         UNCHANGED <<retries, traps>>
  PROVE  Relay!Next
<1>1. PICK c \in Client : c = connfd
  BY ServedClient
<1>2. RelayStatus[c] = "serving" /\ RelayUp
  BY <1>1, ServedClient
<1>3. /\ fd'[c] = "closed" /\ \A d \in Client : d # c => fd'[d] = fd[d]
  BY <1>1, Closing DEF IInv, Recall
<1>4. /\ StatusOf(c)' = "dropped"
      /\ \A d \in Client : d # c => StatusOf(d)' = StatusOf(d)
  BY <1>1, <1>3 DEF StatusOf, Recall
<1>5. RelayStatus' = [RelayStatus EXCEPT ![c] = "dropped"]
  BY <1>4, StatusChange
<1>6. Budget' = Budget - 1
  BY TrapServerAssumption DEF Budget, Recall, IInv, RetriesInv, Reading
<1>7. RelayUp' = RelayUp
  BY <1>2 DEF Recall, RelayUp, Stopped
<1>8. Relay!Drop(c)
  BY <1>2, <1>5, <1>6, <1>7 DEF Relay!Drop
<1> QED BY <1>8 DEF Relay!Next

LEMMA RelayFinish == IInv /\ Process => Relay!Next
<1> SUFFICES ASSUME IInv, Process PROVE Relay!Next
  OBVIOUS
<1>1. PICK c \in Client : c = connfd
  BY ServedClient DEF Process, Reading
<1>2. RelayStatus[c] = "serving" /\ RelayUp /\ fd[c] = "open"
  BY <1>1, ServedClient DEF Process, Reading
<1>3. /\ fd'[c] = "closed" /\ \A d \in Client : d # c => fd'[d] = fd[d]
  BY <1>1, Closing DEF IInv, Process, Reading
<1>4. traps[c] = 0 /\ c \notin dropped
  BY <1>2 DEF IInv, QueueInv
<1>5. /\ traps'[c] = (IF Payload[c] = "alarm" THEN 1 ELSE 0)
      /\ \A d \in Client : d # c => traps'[d] = traps[d]
      /\ dropped' = dropped
  BY <1>1, <1>4 DEF Process, IInv, TypeOK
<1> DEFINE now == IF Payload[c] = "alarm" THEN "relayed" ELSE "ignored"
<1>6. /\ StatusOf(c)' = now
      /\ \A d \in Client : d # c => StatusOf(d)' = StatusOf(d)
  BY <1>2, <1>3, <1>4, <1>5 DEF StatusOf
<1>7. RelayStatus' = [RelayStatus EXCEPT ![c] = now]
  BY <1>6, StatusChange
<1>8. Budget' = Budget /\ RelayUp' = RelayUp
  BY <1>2 DEF Process, Budget, RelayUp, Stopped
<1>9. c \notin Crashing
  BY <1>1 DEF Process, Crashing
<1>10. Relay!Finish(c, now)
  BY <1>2, <1>7, <1>8, <1>9 DEF Relay!Finish
<1>11. now = "relayed" \/ now = "ignored"
  OBVIOUS
<1> QED BY <1>10, <1>11 DEF Relay!Next

LEMMA RelayStop ==
  ASSUME IInv, UNCHANGED <<fd, traps, dropped, retries>>,
         RelayUp, ~RelayUp', pc # "call", pc' # "call",
         \/ Budget = 0
         \/ \A c \in Client : fd[c] = "none"
         \/ connfd \in Client /\ fd[connfd] = "open" /\ connfd \in Crashing
  PROVE  Relay!Next
<1>1. RelayStatus' = RelayStatus
  BY StatusKept
<1>2. Budget' = Budget
  BY DEF Budget
<1>3. \/ Budget = 0
      \/ \A c \in Client : RelayStatus[c] = "new"
      \/ Relay!Serving \cap Crashing # {}
  BY DEF RelayStatus, StatusOf, Relay!Serving
<1> QED BY <1>1, <1>2, <1>3 DEF Relay!Next, Relay!Stop, Relay!Serving

LEMMA RelayStep == IInv /\ [Next]_vars => [Relay!Next]_(Relay!vars)
<1> SUFFICES ASSUME IInv, [Next]_vars PROVE Relay!Next \/ UNCHANGED Relay!vars
  OBVIOUS
<1> USE DEF localVars, clientVars, mainVars
<1>1. ASSUME UNCHANGED <<fd, traps, dropped>>, Budget' = Budget,
             RelayUp' = RelayUp
      PROVE  UNCHANGED Relay!vars
  BY <1>1, StatusKept DEF Relay!vars
<1>2. CASE \/ \E c \in Client : Connect(c) \/ ClientStep(c)
           \/ Signal \/ UNCHANGED vars
  <2>1. UNCHANGED <<fd, traps, dropped, pc, retries>>
    BY <1>2 DEF Connect, ClientStep, Send, Hangup, Signal, vars
  <2> QED BY <1>1, <2>1 DEF Budget, RelayUp
<1>3. CASE RecvLength \/ Alloc \/ RecvBody \/ CheckBody
  <2>1. UNCHANGED <<fd, traps, dropped, retries>> /\ {pc, pc'} \subseteq Reading
    BY <1>3 DEF RecvLength, Alloc, RecvBody, CheckBody, Reading
  <2> QED BY <1>1, <2>1 DEF Budget, RelayUp, Reading, Stopped
<1>4. CASE Call
  <2>1. /\ UNCHANGED <<fd, traps, dropped>> /\ RelayUp' = RelayUp
        /\ retries' = retries - 1 /\ pc = "call" /\ pc' # "call"
    BY <1>4 DEF Call, RelayUp, Stopped, RetriesOfACall
  <2>2. Budget' = Budget
    BY <2>1, TrapServerAssumption DEF Budget, IInv, RetriesInv
  <2> QED BY <1>1, <2>1, <2>2
<1>5. CASE Return \/ MainStops \/ Exit
  <2>1. /\ UNCHANGED <<fd, traps, dropped, retries>> /\ RelayUp' = RelayUp
        /\ pc # "call" /\ pc' # "call"
    BY <1>5 DEF Return, HandleResult, MainStops, Exit, RelayUp, Stopped
  <2> QED BY <1>1, <2>1 DEF Budget
<1>6. CASE \/ \E found \in BOOLEAN : GetServerInfo(found)
           \/ \E result \in {"unset", "closed", "open"} : InitServer(result)
  <2>1. /\ UNCHANGED <<fd, traps, dropped, retries>> /\ pc \in {"start", "init"}
        /\ pc' \in {"init", "call", "main"} /\ retries = RETRIES
        /\ \A c \in Client : fd[c] = "none"
    BY <1>6 DEF GetServerInfo, InitServer, IInv, RetriesInv
  <2>2. CASE pc' = "main"
    BY <2>1, <2>2, RelayStop DEF RelayUp, Stopped
  <2>3. CASE pc' # "main"
    BY <1>1, <2>1, <2>3 DEF RelayUp, Stopped, Budget
  <2> QED BY <2>2, <2>3
<1>7. CASE ServerReturns
  BY <1>7, RelayStop, BudgetBounds DEF ServerReturns, RelayUp, Stopped
<1>8. CASE ProcessCrashes
  <2>1. /\ connfd \in Client /\ fd[connfd] = "open" /\ connfd \in Crashing
    BY <1>8, ServedClient DEF ProcessCrashes, Reading, Crashing
  <2> QED BY <1>8, <2>1, RelayStop DEF ProcessCrashes, RelayUp, Stopped
<1>9. CASE RecvLengthFails \/ AllocFails \/ RecvBodyFails \/ CheckBodyFails
  <2>1. /\ pc \in Reading /\ UNCHANGED <<retries, traps>>
        /\ \E r \in Reading : Recall(r)
    BY <1>9 DEF RecvLengthFails, AllocFails, RecvBodyFails, CheckBodyFails,
                Reading
  <2> QED BY <2>1, RelayDrop
<1>10. CASE Process
  BY <1>10, RelayFinish
<1>11. CASE Accept /\ Next
  BY <1>11, RelayTake
<1> QED
  BY <1>2, <1>3, <1>4, <1>5, <1>6, <1>7, <1>8, <1>9, <1>10, <1>11
     DEF Next, ServerStep

\* The server, whatever its clients do, is the server TrapRelay promises.
THEOREM Refinement == Spec => ImplementsRelay
<1> QED BY Invariance, RelayInit, RelayStep, PTL DEF Spec, ImplementsRelay, Relay!Spec
=============================================================================
