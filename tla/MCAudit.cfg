SPECIFICATION Spec
CONSTANTS
  Request = {1, 2, 3, 4, 5}
  Reqid <- MCReqid
  Transid <- MCTransid
  Command <- MCCommand
  Refused = {1}
  Outside <- MCOutside
  MaxBatch = 2
CHECK_DEADLOCK FALSE
INVARIANTS
  ResultsAttributed
  HeaderRepeatsOnlyAfterAnother
  EveryRequestAudited
