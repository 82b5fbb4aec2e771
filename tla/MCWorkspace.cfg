SPECIFICATION WorkspaceSpec
CONSTANTS
  w1 = w1  w2 = w2  p1 = p1  a1 = a1  a2 = a2  f1 = f1  f2 = f2
  k1 = k1  k2 = k2  url = url  x = x  q = q  xxx = xxx  r1 = r1  r2 = r2
  Writer = {w1, w2}
  Place = {p1}
  Graph = {a1, a2}
  File = {f1, f2}
  Name = {k1, k2, url}
  Url = url
  Value = {x, q, xxx}
  Read <- MCRead
  Further <- MCFurther
  Bare <- MCBare
  Fit <- MCFit
  Asked <- MCAsked
  Listed <- MCListed
  Rebuild = {r1, r2}
  MaxEdition = 2
  MaxVersion = 3
CONSTRAINT OneAtATime
SYMMETRY Symmetry
INVARIANTS
  PublishedIsWhole
  LocksHaveHolders
  RunningIsTrue
  FileLagsOnlyThere
PROPERTIES
  IndexNeverGoesBack
