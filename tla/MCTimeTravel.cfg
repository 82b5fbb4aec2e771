SPECIFICATION Spec
CONSTANTS
  r1 = r1  f1 = f1  f2 = f2  f3 = f3  k1 = k1  k2 = k2  k3 = k3  c1 = c1  c2 = c2
  x = x  y = y  z = z
  Root = {r1}
  Fork = {f1, f2, f3}
  Checkpoint = {k1, k2, k3}
  Caller = {c1, c2}
  Key = {x, y, z}
  SecretKey = {z}
  MaxIterations = 1
  MaxItems = 1
  MaxEntries = 1
  MaxText = 2
  MaxSize = 5
  MarkerSize = 2
  States <- MCStates
  Requested <- MCRequested
  MaxForks = 1
  MaxDepth = 2
SYMMETRY Symmetry
INVARIANTS
  ForksAreNearlyBounded
  LineageIsSound
  ForkStatesAreLegal
