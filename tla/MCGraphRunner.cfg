SPECIFICATION Spec
CONSTANTS
  s = s  v = v  u = u  l = l  o = o
  NoHandle = NoHandle
  NoRoute = NoRoute
  MaxLoopIterations = 50
  MaxNodes = 5
  MaxEdges = 8
  StepCap = 12
  Graphs <- MCGraphs
INVARIANTS
  TypeOK
  PauseIsKept
PROPERTIES
  LoopAlwaysRoutes
  ImplementsGovernedWalk
  RunEnds
