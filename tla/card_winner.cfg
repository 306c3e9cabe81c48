SPECIFICATION Spec
CONSTANTS
  Clients = {a, b, c}
  None = None
  PlayerSize = 3
  Rounds = 2
  PlayType = "normal"
  Payor = "winner"
  HalfEnter = FALSE
  BankerMultiple = 0
  Points <- MCPoints
  Price = 1
  InitMoney = 4
  Diamond = 3
SYMMETRY ClientSymmetry
INVARIANTS
  RoundOrder
  HereMeansSeated
  SeatedMeansHere
  BallotsStartClean
  NoMissedStep
  FullRoomIsSafe
  WinnersPay
PROPERTIES
  UnanimousEnd
  SeatsFrozen
CHECK_DEADLOCK FALSE
