SPECIFICATION RoomViewSpec
CONSTANTS
  OwnCid = {c1}
  NoCid = NoCid
  MaxSeq = 3
  PageSize = 2
  SyncMax = 1
  PageLimits = {1, 2}
  MaxChanges = 1
CHECK_DEADLOCK FALSE
INVARIANTS
  ListSound
  RemovedStaysRemoved
  NoGapBelow
PROPERTIES
  ChangesStick
