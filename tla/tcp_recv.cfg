CONSTANTS
  c1 = c1
  c2 = c2
  Conns = {c1, c2}
  MaxPackets = 3
  Sends <- MCSends
  HeadSize = 2
  Wrap = 4
  Body <- MCBody
  Cap = 3
  Size = 2
  Items <- MCItems
  NoItem = NoItem
SPECIFICATION FairSpec
INVARIANTS TypeOK StreamIntact HeadIsWhole NoRace
PROPERTIES DeliveredInTurn RingIsFifo ArrivedIsHandled
CHECK_DEADLOCK FALSE
