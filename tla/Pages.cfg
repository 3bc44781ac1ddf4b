SPECIFICATION SceneSpec
CONSTANTS
  Person = {"ann", "anna", "rao"}
  PartsOf <- Parts
  Transcript <- Talks
  MaxLines = 2
  MaxPosts = 2
  Room = {"red", "blue"}
  MemberOf <- Home
  Within <- Beginnings
  MaxMentions = 1
  MaxSent = 2
  MaxMoves = 1
  MaxOut = 2
  MaxMics = 3
  BrowserTab = {t1, t2}
  MaxSessions = 2
  MaxAsks = 2
  MaxCalls = 2
  Query = {"find", "look"}
  Place = {"c1", "c2"}
  MaxOpen = 3
SYMMETRY TabSymmetry
INVARIANTS
  Typed
  MentionsNamed
  FileGoesWherePicked
  AnswersMatch
  
  
  KeepsItsSession
