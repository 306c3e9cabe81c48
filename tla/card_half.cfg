SPECIFICATION Spec
CONSTANTS
  Clients = {a, b, c}
  None = None
  PlayerSize = 3
  Rounds = 1
  PlayType = "normal"
  Payor = "aa"
  HalfEnter = TRUE
  BankerMultiple = 0
  Points <- MCPoints
  Price = 1
  InitMoney = 2
  Diamond = 9
SYMMETRY ClientSymmetry
PROPERTIES
  Series
