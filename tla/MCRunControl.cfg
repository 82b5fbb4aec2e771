SPECIFICATION Spec
CONSTANTS
  Http = {h1}
  Ws = {w1, w2}
  Nobody = Nobody
  Endings = {"succeeded", "cancelled"}
  MaxTouched = 1
INVARIANTS
  OneRunAtATime
  RowsAreTrue
  CommandsReachTheirRun
PROPERTY
  RequestsEnd
