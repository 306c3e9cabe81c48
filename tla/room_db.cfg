SPECIFICATION DbSpec
CONSTANTS
  Clients = {a, b}
  None = None
  PlayerSize = 2
  Rounds = 2
  PlayType = "normal"
  Payor = "aa"
  HalfEnter = FALSE
  BankerMultiple = 0
  Points <- MCPoints
  Price = 1
  InitMoney = 4
  Diamond = 9
  MaxStarts = 3
SYMMETRY ClientSymmetry
INVARIANTS
  OrderInv
  DealtIsPaid
  ChargedOncePerStart
  SeatsAreSaved
CHECK_DEADLOCK FALSE
