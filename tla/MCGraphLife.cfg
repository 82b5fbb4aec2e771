SPECIFICATION LifeSpec
CONSTANTS
  s = s  v = v  u = u  l = l  o = o  x = x  y = y  nowhere = nowhere
  NoHandle = NoHandle
  NoRoute = NoRoute
  NoValue = NoValue
  MaxLoopIterations = 50
  MaxNodes = 5
  MaxEdges = 8
  MaxSteps = 8
  Drafts <- LifeDrafts
  Candidates <- MCCandidates
INVARIANTS
  SearchTypeOK
  ReportsAreRight
  GeneratedIsSound
  ExportedRunsAlike
PROPERTY
  SearchCoversGraph
CHECK_DEADLOCK FALSE
