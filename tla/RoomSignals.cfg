SPECIFICATION SignalsSpec
CONSTANTS
  Member = {p1, p2}
  Limits <- Scenes
SYMMETRY Members
CHECK_DEADLOCK FALSE
INVARIANTS
  TicksTrue
  TypingEnds
