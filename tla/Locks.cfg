SPECIFICATION FairSpec
CONSTANTS
  g = g
  h = h
  x = x
  y = y
  a = a
  b = b
  Tasks = {g, h}
  Chans = {x, y}
  Conns = {a, b}
  Bridge = Bridge
  Backend = Backend
  NoLock = NoLock
  MaxWrites = 2
INVARIANTS TypeOK NoCircularWait
PROPERTY OperationsEnd
