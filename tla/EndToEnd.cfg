SPECIFICATION SpecBoth
CONSTANTS
  User = {alice, bob}
  Tab = {t1, t2}
  MaxSid = 2
  MaxSealed = 3
  MaxReads = 1
  MaxMoves = 1
  RotateAfter = 2
  None = None
  MaxInits = 2
  MaxRatcheted = 5
  MaxShreds = 1
  MaxSkip = 2
  MaxStored = 2
SYMMETRY Alike
CHECK_DEADLOCK FALSE
INVARIANTS
  Typed
  NonceOnceUnlessBack
  
  
  Readable
