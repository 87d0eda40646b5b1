SPECIFICATION DocumentsSpec
CONSTANTS
  Order <- MCOrder
  Probes = {p1, p2}
  Handlers = {h1}
  Members <- MCMembers
  Folded <- MCFolded
  Before <- MCBefore
  Texts <- MCTexts
  Statuses <- MCStatuses
  StatusText <- MCStatusText
  Declared <- MCDeclared
  PathOf <- MCPathOf
  Ids = {"a"}
SYMMETRY MCSymmetry
INVARIANTS
  DocumentsTypeOK
  VerdictsWereTrue
  DocumentsAreOwn
  ReadsAsWritten
