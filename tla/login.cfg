CONSTANTS
  Accounts = {a1, a2}
  Conns = {c1, c2, c3}
  MaxLogins = 3
  MaxCrashes = 1
  None = None
SPECIFICATION Spec
INVARIANTS IndexesAgree OnlineIsConnected PlayingIsKnown
SYMMETRY LoginSymmetry
CHECK_DEADLOCK FALSE
