SPECIFICATION Spec
CONSTANTS
  a = a
  b = b
  b2 = b2
  ida = ida
  idb = idb
  n1 = n1
  n2 = n2
  Nodes = {n1, n2}
  Conns = {a, b, b2}
  NoConn = NoConn
  Ids = {ida, idb}
  NoId = NoId
  IdOf <- IdsDef
  Home <- HomeMoved
  MaxJoins <- Once
  Before <- Reconnect
  Unsteady = {b}
  MaxFaults = 0
  MaxRelays = 1
  MaxLate = 0
PROPERTY RejectionDeletes
CHECK_DEADLOCK FALSE
