----------------------------- MODULE TrapRelay -----------------------------
(***************************************************************************)
(* What the trap subagent's TCP server promises to the clients that hand   *)
(* it alarms, with no sockets, no byte counts and no call stack.           *)
(*                                                                         *)
(* Clients are served one at a time.  A client that is taken up is relayed *)
(* as a trap, ignored (its message holds no alarm) or dropped.  Every drop *)
(* uses up one unit of a budget that is never refilled, and the server     *)
(* stops when the budget is gone.  It also stops when it cannot start, and *)
(* when it does not survive the message it is serving.                     *)
(***************************************************************************)
EXTENDS Integers, FiniteSets

CONSTANTS
  Client,    \* the clients, each with one connection and one message
  Fatal,     \* those whose message makes the server crash
  RETRIES    \* the dropped connections one server lifetime allows

VARIABLES
  status,    \* status[c]: how far client c has come
  budget,    \* the drops that are left
  up         \* whether the server serves

vars == <<status, budget, up>>

Status == {"new", "serving", "relayed", "ignored", "dropped"}

Serving == {c \in Client : status[c] = "serving"}
Dropped == {c \in Client : status[c] = "dropped"}

Init ==
  /\ status = [c \in Client |-> "new"]
  /\ budget = RETRIES
  /\ up = TRUE

Take(c) ==
  /\ up
  /\ budget > 0
  /\ Serving = {}
  /\ status[c] = "new"
  /\ status' = [status EXCEPT ![c] = "serving"]
  /\ UNCHANGED <<budget, up>>

Finish(c, result) ==
  /\ up
  /\ status[c] = "serving"
  /\ c \notin Fatal
  /\ status' = [status EXCEPT ![c] = result]
  /\ UNCHANGED <<budget, up>>

Drop(c) ==
  /\ up
  /\ status[c] = "serving"
  /\ status' = [status EXCEPT ![c] = "dropped"]
  /\ budget' = budget - 1
  /\ UNCHANGED up

\* The three reasons to stop: the budget is gone, the server never started,
\* or it crashes on the message of the client it serves.
Stop ==
  /\ up
  /\ \/ budget = 0
     \/ \A c \in Client : status[c] = "new"
     \/ Serving \cap Fatal # {}
  /\ up' = FALSE
  /\ UNCHANGED <<status, budget>>

Next ==
  \/ \E c \in Client : Take(c)
  \/ \E c \in Client : Finish(c, "relayed")
  \/ \E c \in Client : Finish(c, "ignored")
  \/ \E c \in Client : Drop(c)
  \/ Stop

Spec == Init /\ [][Next]_vars
=============================================================================
