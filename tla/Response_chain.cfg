SPECIFICATION Spec
CONSTANTS
  Chains <- MCChains
  Errors <- MCErrors
  Codes = {103, 200, 204, 404}
  Reads = {"small", "large"}
  Flushes = {"ok", "unsupported"}
  Details = {409}
  MaxOps = 2
INVARIANTS
  TypeOK
  RecorderMatchesWire
  LogMatchesClient
  PanicAnswered
  ErrorAnswered
  InternalTextStaysInside
PROPERTIES
  ImplementsReply
CHECK_DEADLOCK FALSE
