CONSTANTS
  a1 = a1
  a2 = a2
  b1 = b1
  a = a
  b = b
  Conns = {a1, b1}
  Ids = {a, b}
  IdOf <- MCIdOf
  NoConn = NoConn
  NoId = NoId
  ChIds = {"x", "y"}
  MaxChannelsTotal = 2
  RandMayFail = TRUE
  MaxJoins <- TwiceA
  MaxChallengeTimers = 1
  MaxWaitTimers = 2
SPECIFICATION Spec
INVARIANTS
  MembersIndexed
  NoMissedVerification
CHECK_DEADLOCK FALSE
