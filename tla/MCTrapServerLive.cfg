SPECIFICATION FairSpec
CONSTANTS
  c1 = c1
  c2 = c2
  c3 = c3
  NoClient = NoClient
  Client = {c1, c2}
  Size <- MCSize
  Payload <- MCPayloadSafe
  MSG_SIZE = 2
  RETRIES = 2
  RETRIES_MESSAGE_SIZE = 2
  BACKLOG = 0
PROPERTIES Served GivingUpEnds
CHECK_DEADLOCK FALSE
