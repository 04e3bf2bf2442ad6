\* Two connections compete for one permit while a repository is unshared and
\* it or another shared, loads fail and the daemon restarts.
CONSTANTS
  A = A  B = B  n1 = n1  i1 = i1  i2 = i2  c1 = c1  c2 = c2
  NoId = NoId  NoPath = NoPath  NoSession = NoSession
  Path = {A, B}
  Node = {n1}
  RepoId = {i1, i2}
  Conn = {c1, c2}
  MaxEvents = 1
  MaxConnections = 1
  Sent <- PushAndFetch
  Command <- Changes
  InitialGrants <- OneShare
SPECIFICATION FairSpec
INVARIANTS TypeOK NoEscape RegistryExact PermitAccounting UpToDate ServesTicketRepo
PROPERTIES OnlyForbiddenClosed ImplementsAccessControl RevokedSessionEnds
CHECK_DEADLOCK FALSE
