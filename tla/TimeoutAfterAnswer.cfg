CONSTANTS
  a1 = a1
  a2 = a2
  b1 = b1
  a = a
  b = b
  Conns = {a1, b1}
  Ids = {a, b}
  IdOf <- MCIdOf
  NoConn = NoConn
  NoId = NoId
  ChIds = {"ch"}
  MaxChannelsTotal = 1
  RandMayFail = FALSE
  MaxJoins <- Twice
  MaxChallengeTimers = 2
  MaxWaitTimers = 2
SPECIFICATION Spec
PROPERTIES
  TimeoutSparesAnswered
CHECK_DEADLOCK FALSE
