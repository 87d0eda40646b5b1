SPECIFICATION LifecycleSpec
CONSTANTS
  Starts = {s1}
  Shutdowns = {d1, d2}
  Conns = {k1, k2}
  NoCall = NoCall
PROPERTY RequestsUseWhatRuns
CHECK_DEADLOCK FALSE
