CONSTANTS
  x = x
  y = y
  z = z
  x1 = x1
  y1 = y1
  z1 = z1
  s1 = s1
  s2 = s2
  Nodes = {s1, s2}
  Conns = {x, y, z}
  Node <- Apart
  PairingIds = {"p"}
  Calls = {x1, y1, z1}
  Caller <- MCCaller
  Code <- OneCode
  NoCall = NoCall
SPECIFICATION Spec
SYMMETRY Alike
INVARIANTS
  TypeOK
  HandedOutOnce
  InitiatorsHaveAMatch
  ClosedLeavesNoEntry
  LoneRequestsAreHeld
CHECK_DEADLOCK FALSE
