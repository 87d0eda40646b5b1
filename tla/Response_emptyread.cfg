SPECIFICATION Spec
CONSTANTS
  Chains <- MCChains
  Errors <- MCErrors
  Codes = {103, 200, 204, 404}
  Reads = {"nothing", "small"}
  Flushes = {"ok", "unsupported"}
  Details = {409}
  MaxOps = 2
INVARIANTS
  ErrorAnswered
CHECK_DEADLOCK FALSE
