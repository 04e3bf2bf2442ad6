\* A tray with no repository shared at first and a user who closes every menu,
\* box and dialog.
CONSTANTS
  A = A  n1 = n1  i1 = i1
  NoId = NoId  NoPath = NoPath  NoSession = NoSession
  Path = {A}
  Node = {n1}
  RepoId = {i1}
  Conn = {}
  MaxEvents = 1
  MaxPosted = 1
  MaxNested = 2
  Command <- RevokeAll
  InitialGrants <- NoneShared
SPECIFICATION FairSpec
PROPERTY StatusAvailable
CHECK_DEADLOCK FALSE
