CONSTANTS
  x = x
  y = y
  x1 = x1
  x2 = x2
  x3 = x3
  y1 = y1
  y2 = y2
  Conns = {x, y}
  PairingIds = {"p", "q"}
  Calls = {x1, x2, x3, y1, y2}
  Caller <- MCCaller
  Code <- MCCode
  NoCall = NoCall
SPECIFICATION FairSpec
INVARIANTS
  TypeOK
  RequestsAreHeld
  ClosedLeavesNoEntry
  MeetingsArePaired
PROPERTIES
  ImplementsRendezvous
  WaitingEnds
CHECK_DEADLOCK FALSE
