-------------------------------- MODULE MCMib --------------------------------
(***************************************************************************)
(* What a manager is sent and what it may ask for, against the MIB: one    *)
(* run takes either a message through AlarmTrap or a request through       *)
(* MibTables.  The two share no state; the one that is not looked at is    *)
(* left at a state that has no step to take.                               *)
(***************************************************************************)
EXTENDS MCAlarmTrap, MCMibTables

vars == <<trapVars, tableVars>>

AMessage == CHOOSE m \in Message : m.op = "warmStart"
ARequest == CHOOSE req \in Request : req.exact

OneMessage ==
  TrapInit /\ request = ARequest /\ answer = Answer(ARequest)

OneRequest ==
  TablesInit /\ message = AMessage /\ outcome = ProcessJsonAlarm(AMessage)

Next == \/ Process /\ UNCHANGED tableVars
        \/ Reply /\ UNCHANGED trapVars

Spec == (OneMessage \/ OneRequest) /\ [][Next]_vars
=============================================================================
