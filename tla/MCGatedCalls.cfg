SPECIFICATION Spec
CONSTANTS
  s1 = s1  s2 = s2  t1 = t1  c1 = c1  c2 = c2  r1 = r1  r2 = r2  v1 = v1  v2 = v2
  a1 = a1  g1 = g1  g2 = g2  g3 = g3  g4 = g4
  Server = {s1, s2}
  Tool = {t1}
  ServerOf <- MCServerOf
  MaxServers = 2
  Caller = {c1, c2}
  Run = {r1, r2}
  Text = {v1, v2}
  Agent = {a1}
  Gate = {g1, g2, g3, g4}
  For <- MCFor
  NoGate = NoGate
  MaxCalls = 1
  MaxKeys = 1
  MaxChildren = 2
CONSTRAINT Scenes
SYMMETRY Symmetry
INVARIANTS
  EveryActIsAuthorized
  CallsWithinBudget
  ChildrenHaveTheirSpawn
  RevocationHolds
