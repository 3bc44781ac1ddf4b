SPECIFICATION DmSpec
CONSTANTS
  Conv = {A, B}
  Cid = {c1}
  None = None
  MaxMsgs = 2
  MaxOpens = 2
  MaxLoads = 2
SYMMETRY Conversations
CHECK_DEADLOCK FALSE
INVARIANTS
  DmListSound
  RightConversation
  
