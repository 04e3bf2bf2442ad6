\* One permit and two connections: git outlives the permit.
CONSTANTS
  A = A  B = B  n1 = n1  i1 = i1  i2 = i2  c1 = c1  c2 = c2
  NoId = NoId  NoPath = NoPath  NoSession = NoSession
  Path = {A}
  Node = {n1}
  RepoId = {i1, i2}
  Conn = {c1, c2}
  MaxEvents = 1
  MaxConnections = 1
  Sent <- PushAndFetch
  Command <- MemberChange
  InitialGrants <- OneShare
SPECIFICATION Spec
INVARIANT GitWithinPermits
CHECK_DEADLOCK FALSE
