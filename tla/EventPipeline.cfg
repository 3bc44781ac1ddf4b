SPECIFICATION FairSpec
CONSTANTS
  MaxEvents = 1
  Member = {m1, m2}
  MaxCopies = 2
  MaxQueued = 1
  MaxRetries = 1
INVARIANTS
  NothingLost
PROPERTIES
  ImplementsEffectOnce
  EverythingSettles
