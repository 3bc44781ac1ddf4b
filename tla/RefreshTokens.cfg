SPECIFICATION Spec
CONSTANTS
  Browser = {b1}
  None = None
  Request = {q1, q2}
  MaxTokens = 3
SYMMETRY Alike
INVARIANTS
  ExactlyOneSuccessor
  NoFalseAlarm
  
PROPERTIES
  GoneStaysGone
