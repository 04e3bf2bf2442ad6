\* Two grants to one node at a time: the later save undoes the earlier one.
CONSTANTS
  A = A  B = B  n1 = n1   i1 = i1  i2 = i2  i3 = i3
  NoId = NoId  NoPath = NoPath  Partial = Partial  Absent = Absent
  p1 = p1  p2 = p2
  Path = {A, B}
  Node = {n1}
  RepoId = {i1, i2, i3}
  Proc = {p1, p2}
  Command <- TwoGrants
  InitialGrants <- NothingShared
SPECIFICATION Spec
PROPERTY GrantNeverLowers
CHECK_DEADLOCK FALSE
