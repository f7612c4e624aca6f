CONSTANTS
  Keys = {"ip1", "ip2"}
  limit = 2
  window = 2
  MaxTime = 7
SPECIFICATION Spec
INVARIANTS
  TypeOK
  GrantsAreSpaced
  RefusalIsJustified
