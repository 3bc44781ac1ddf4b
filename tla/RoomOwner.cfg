SPECIFICATION Spec
CONSTANTS
  User = {u1, u2, u3}
  Request = {q1, q2}
SYMMETRY Alike
CHECK_DEADLOCK FALSE
INVARIANTS
  AlwaysAnOwner
