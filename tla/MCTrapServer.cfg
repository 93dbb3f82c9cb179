SPECIFICATION Spec
CONSTANTS
  c1 = c1
  c2 = c2
  c3 = c3
  NoClient = NoClient
  Client = {c1, c2, c3}
  Size <- MCSize
  Payload <- MCPayload
  MSG_SIZE = 2
  RETRIES = 2
  RETRIES_MESSAGE_SIZE = 1
  BACKLOG = 1
INVARIANTS TypeOK DescriptorInv RelayedComplete DropBudget
PROPERTIES LengthPatience ConnectionBounded ImplementsRelay
CHECK_DEADLOCK FALSE
