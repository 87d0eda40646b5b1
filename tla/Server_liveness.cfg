SPECIFICATION FairSpec
CONSTANTS
  Starts = {s1}
  Shutdowns = {d1, d2}
  Conns = {k1}
  NoCall = NoCall
CHECK_DEADLOCK FALSE
PROPERTIES
  ShutdownReturns
  ServingEnds
