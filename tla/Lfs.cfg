\* Two connections and one slot, two objects on one of them that have to share one
\* stream permit, two repositories: changes at one of them, under fairness.
CONSTANTS
  A = A  B = B  n1 = n1  i1 = i1  i2 = i2  c1 = c1  c2 = c2
  NoId = NoId  NoPath = NoPath  NoSession = NoSession  NoRequest = NoRequest
  Path = {A, B}
  Node = {n1}
  RepoId = {i1, i2}
  Conn = {c1, c2}
  MaxEvents = 1
  MaxConnections = 1
  MaxStreams = 1
  MaxObjects <- TwoOnOne
  IdleTimeout = 1
  Command <- LfsSwitch
  InitialGrants <- AllShared
  Sent <- TwoRequests
SPECIFICATION FairSpec
INVARIANTS TypeOK NoEscape RegistryCoversObjects PermitAccounting
PROPERTIES OnlyForbiddenClosed ImplementsAccessControl SlotReclaimed
CHECK_DEADLOCK FALSE
