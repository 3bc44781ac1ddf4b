SPECIFICATION BrowserSpec
CONSTANTS
  Tab = {t1, t2}
  Browser = {b1, b2}
  MaxIds = 2
  MaxKeys = 2
  MaxFails = 2
  Conv = {A}
  MaxDocs = 1
  MaxEra = 2
  MaxSnapshotKeys = 2
  MaxRejected = 1
  MaxCloses = 2
SYMMETRY Alike
CHECK_DEADLOCK FALSE
INVARIANTS
  StoresSound
  
  VerifiedWasCompared
  
