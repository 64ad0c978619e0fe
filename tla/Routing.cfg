\* The buffer sizes of the code, and texts at and around them.
SPECIFICATION Spec
CONSTANTS
  a = a
  b = b
  h1 = h1
  h2 = h2
  Stems = {a, b}
  None = none
  Methods <- MCMethods
  Paths <- MCPaths
  Handlers = {h1, h2}
  MethodCap = 7
  RouteCap = 255
  PathCap = 255
  MaxRoutes = 2
\* No more routes can be registered than the bound.
CHECK_DEADLOCK FALSE
INVARIANTS
  ServedAsRegistered
PROPERTIES
  OthersKeepTheirRoutes
