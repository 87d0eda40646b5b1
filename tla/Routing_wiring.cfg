SPECIFICATION Spec
CONSTANTS
  api = api
  v1 = v1
  a = a
  b = b
  c = c
  None = None
  Every = Every
  Segments = {"api", "apiary", "v1"}
  Groups = {api, v1}
  Prefix <- MCPrefix
  Depth <- MCDepth
  Middlewares = {a, b}
  Writers = {ew, fw}
  Methods = {get}
  Asked = {get, put}
  RouteMw <- MCRouteMw
  NativePaths <- MCNativePaths
  Patterns <- MCPatterns
  RawPrefixes <- MCRawPrefixes
  Paths <- MCPaths
  Begins <- MCBegins
  Bytes <- MCBytes
  MaxCalls = 4
  MaxModules = 2
SYMMETRY MCSymmetry
INVARIANTS
  TypeOK
  LongestPrefixServes
  ServedAsDeclared
CHECK_DEADLOCK FALSE
