SPECIFICATION SearchSpec
CONSTANTS
  s = s  v = v  u = u  l = l  o = o
  NoHandle = NoHandle
  NoRoute = NoRoute
  MaxLoopIterations = 50
  MaxNodes = 5
  MaxEdges = 8
  Drafts <- MCGraphs
INVARIANT
  AcceptedIsGoverned
CHECK_DEADLOCK FALSE
