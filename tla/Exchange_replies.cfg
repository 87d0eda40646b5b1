SPECIFICATION Spec
CONSTANTS
  Bodies <- MCBodies
  Limits = {2, 3}
  Callers <- MCCallers
  Lengths = {0, 2}
  Described <- MCDescribed
  MaxVersions = 2
  MaxRequests = 2
INVARIANTS
  TypeOK
  BodyDetermined
  ProblemIsNotTheObject
  TruncationShows
  FreshMeansCurrent
CHECK_DEADLOCK FALSE
