CONSTANTS
  a1 = a1
  a2 = a2
  b1 = b1
  a = a
  b = b
  Conns = {a1, a2, b1}
  Ids = {a, b}
  IdOf <- MCIdOf
  NoConn = NoConn
  NoId = NoId
  ChIds = {"ch"}
  MaxChannelsTotal = 1
  RandMayFail = FALSE
  MaxJoins <- Once
  MaxChallengeTimers = 1
  MaxWaitTimers = 3
SPECIFICATION Spec
INVARIANTS
  DistinctMembers
  ChallengeIsCurrent
  ActiveMeansVerified
  RelayReachesVerified
  EvictedAreTold
CHECK_DEADLOCK FALSE
