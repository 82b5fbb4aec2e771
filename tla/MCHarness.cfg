SPECIFICATION Spec
CONSTANTS
  p1 = p1  p2 = p2  g1 = g1  g2 = g2  c1 = c1  c2 = c2
  Plan = {p1, p2}
  Caller = {c1, c2}
  Gate = {g1, g2}
  NoGate = NoGate
  Versions <- MCVersions
  For <- MCFor
SYMMETRY Symmetry
INVARIANTS
  GateLetsOneStepPass
  RepairsAreBounded
PROPERTY
  PlansGoForward
