SPECIFICATION FairSpec
CONSTANTS
  Msg = {m1}
  Account = {a1, a2}
  None = None
  MaxRetries = 1
  MaxFaults = 1
  MaxDrains = 1
INVARIANTS
  SendsAccounted
  SentByItsAuthor

  
