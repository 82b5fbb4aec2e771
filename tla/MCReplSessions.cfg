SPECIFICATION FairSpec
CONSTANTS
  s1 = s1  s2 = s2  c1 = c1  c2 = c2
  Session = {s1, s2}
  Caller = {c1, c2}
  MaxSessions = 1
  MaxCells = 2
  Free = Free
  NoSession = NoSession
INVARIANTS
  SessionsMatchWorkers
  AnswersAreOwn
PROPERTY
  RequestsEnd
