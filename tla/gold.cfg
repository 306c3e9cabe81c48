CONSTANTS
  Clients = {a, b, c, d}
  Places = {p}
  PlayerSize = 3
  MaxRooms = 3
  None = None
SPECIFICATION Spec
INVARIANTS SeatsAgree NothingIsStuck RoomsAreReused
SYMMETRY ClientSymmetry
CHECK_DEADLOCK FALSE
