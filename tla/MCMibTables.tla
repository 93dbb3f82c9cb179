----------------------------- MODULE MCMibTables -----------------------------
(* Instances of MibTables for TLC.                                         *)
EXTENDS MibTables

\* Names that begin with one of the tables' OIDs, or with a part of it: shorter
\* than any instance, as long, longer, below and above.
Beginnings ==
  {SubSeq(CgtsAlarmTableOid, 1, n) : n \in {0, 7, 11}}
  \cup {CgtsAlarmTableOid, CgtsEventLogTableOid}

Endings ==
  {<< >>} \cup {<<e>> : e \in 0 .. 2}
  \cup {<<e, c>> : e \in 1 .. 2, c \in {0, 1, 12, 13, 14}}
  \cup {<<1, c, i>> : c \in 0 .. 14, i \in 0 .. 3}
  \cup {<<1, c, i, 0>> : c \in {1, 12}, i \in 0 .. 2}

MCName == {b \o e : b \in Beginnings, e \in Endings}
=============================================================================
