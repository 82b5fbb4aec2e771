SPECIFICATION Spec
CONSTANTS
  g1 = g1  g2 = g2  r1 = r1  r2 = r2  s1 = s1  s2 = s2  a1 = a1
  Gate = {g1, g2}
  Run = {r1, r2}
  Session = {s1, s2}
  Action = {a1}
  Binding <- MCBinding
  Caller = {c1, c2}
  NoOne = NoOne
  MaxTtl = 1
  MaxTime = 1
SYMMETRY Symmetry
INVARIANTS
  LateApprovalNeverUsed
PROPERTY
  ImplementsGateContract
