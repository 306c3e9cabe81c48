SPECIFICATION FairSpec
CONSTANTS
  Clients = {a, b}
  None = None
  PlayerSize = 3
  Rounds = 2
  PlayType = "banker"
  Payor = "banker"
  HalfEnter = FALSE
  BankerMultiple = 2
  Points <- MCPoints
  Price = 1
  InitMoney = 4
  Diamond = 9
INVARIANTS
  TypeOK
  EnoughReserved
  PaidOnce
  NoMissedStep
PROPERTIES
  PhasesEnd
  PlayersFreed
