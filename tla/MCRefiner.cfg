SPECIFICATION Spec
CONSTANTS
  s1 = s1  s2 = s2  p1 = p1  A = A  B = B  C = C  g1 = g1  g2 = g2
  Suggestion = {s1, s2}
  Path = {p1}
  Text = {A, B, C}
  Gate = {g1, g2}
  NoText = NoText
  PathOf <- MCPathOf
  Old <- MCOld
  New <- MCNew
  First <- MCFirst
  For <- MCFor
INVARIANTS
  FilesAreRecoverable
  PatchedOnOwnApproval
PROPERTY
  DecisionsAreFinal
