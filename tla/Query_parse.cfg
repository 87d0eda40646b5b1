SPECIFICATION Spec
CONSTANTS
  Names <- MCNames
  Queries <- MCQueries
  Policies <- MCPolicies
  MaxInt = 8
INVARIANTS
  TypeOK
  OffsetFits
  ReadsWhereAsked
  FiltersDetermined
  RejectsOnlyFaults
CHECK_DEADLOCK FALSE
