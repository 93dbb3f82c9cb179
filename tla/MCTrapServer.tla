---------------------------- MODULE MCTrapServer ----------------------------
(* Instances of TrapServer for TLC.                                        *)
EXTENDS TrapServer

CONSTANTS c1, c2, c3

\* Bodies of one and of two bytes: a body of two can be cut by a recv.
MCSize == [c \in Client |-> IF c = c2 THEN 1 ELSE 2]

\* Two clients with an alarm and one that names no operation or has a null text.
MCPayload == [c \in Client |-> IF c = c3 THEN "fatal" ELSE "alarm"]

\* No client brings the server down, one is without an alarm.
MCPayloadSafe == [c \in Client |-> IF c = c2 THEN "unusable" ELSE "alarm"]
=============================================================================
