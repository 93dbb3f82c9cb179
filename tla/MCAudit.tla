-------------------------------- MODULE MCAudit --------------------------------
(* Audit with five requests: 1 is refused, 2 has nothing to be handled, 3 to  *)
(* 5 are handled in batches that interleave, two of them with the same reqid. *)
EXTENDS Audit

MCReqid == <<8, 9, 5, 4, 4>>
MCTransid == <<1, 2, 3, 4, 5>>
MCCommand == <<"GET", "GETBULK", "GETNEXT", "GET", "SET">>
MCOutside == <<"none", "all", "some", "none", "none">>
=============================================================================
