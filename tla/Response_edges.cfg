SPECIFICATION Spec
CONSTANTS
  Chains <- MCChains
  Errors <- MCErrorsOrNil
  Codes = {42, 103, 200, 404}
  Reads = {"nothing","small","large"}
  Flushes = {"ok", "unsupported", "broken", "stuck"}
  Details = {409}
  MaxOps = 3
INVARIANTS
  PanicNeverLooksComplete
  PanicLoggedOnce
  ErrorNotLost
CHECK_DEADLOCK FALSE
