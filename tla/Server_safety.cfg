SPECIFICATION Spec
CONSTANTS
  Starts = {s1, s2}
  Shutdowns = {d1, d2}
  Conns = {k1, k2}
  NoCall = NoCall
SYMMETRY Symmetry
INVARIANTS
  TypeOK
  DrainIsComplete
  CutClosesConnections
  ShutdownLeavesNoListener
PROPERTIES
  ImplementsSubsystem
CHECK_DEADLOCK FALSE
