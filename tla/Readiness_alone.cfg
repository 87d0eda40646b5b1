SPECIFICATION Spec
CONSTANTS
  Order <- MCOrder
  Probes = {p1}

INVARIANTS
  AloneIsUnready
