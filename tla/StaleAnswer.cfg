SPECIFICATION SSpec
CONSTANTS
  a = a
  b1 = b1
  b2 = b2
  ida = ida
  idb = idb
  x = x
  Conns = {a, b1, b2}
  NoConn = NoConn
  ChIds = {x}
  Ch = x
  Ids = {ida, idb}
  NoId = NoId
  IdOf <- IdsDef
  MaxChannelsTotal = 1
  RandMayFail = FALSE
  MaxJoins <- Calls
  MaxChallengeTimers = 2
  MaxWaitTimers = 2
  Before <- Reconnect
  Breakable = {b1}
  Impatient = {a, b1}
  InboxSize = 6
INVARIANT HonestAnswersVerify
CONSTRAINT OneStory
CHECK_DEADLOCK FALSE
