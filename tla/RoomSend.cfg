SPECIFICATION Spec
CONSTANTS
  Room = {r1}
  User = {u1}
  ClientId = {c1}
  NoId = NoId
  Draft <- Mixed
  Worker = {w1, w2}
  MaxSeq = 2
  MaxRows = 2
SYMMETRY WorkersAlike
INVARIANTS
  SlotsUniqueUntilLoss
PROPERTIES
  ReadStateAdvances
  ImplementsIdempotentLog
