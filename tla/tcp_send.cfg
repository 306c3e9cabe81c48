CONSTANTS
  Conns = {c1, c2}
  MaxPackets = 3
  Length <- MCLength
  Cap = 4
  MaxQueue = 1
  Broadcasts = TRUE
SPECIFICATION FairSpec
INVARIANTS InOrder WaitingIsWatched
PROPERTIES WaitingIsSent
CHECK_DEADLOCK FALSE
