SPECIFICATION StreamSpec
CONSTANTS
  c1 = c1  c2 = c2
  Client = {c1, c2}
  MaxQueue = 2
  MaxEvents = 3
  MaxMessages = 2
INVARIANTS
  StreamTypeOK
PROPERTIES
  ImplementsLossyFifo
  LastEventArrives
