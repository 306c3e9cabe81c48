CONSTANTS
  Conns = {k1, k2, k3, k4}
  Fds = {f1, f2}
  None = None
SPECIFICATION Spec
INVARIANTS ManagersAgree NumbersAreTrue
SYMMETRY ConnsSymmetry
CHECK_DEADLOCK FALSE
