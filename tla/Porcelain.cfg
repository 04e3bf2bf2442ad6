\* Two commands at a time, in every interleaving, with failures and crashes.
CONSTANTS
  A = A  B = B  n1 = n1   i1 = i1  i2 = i2  i3 = i3
  NoId = NoId  NoPath = NoPath  Partial = Partial  Absent = Absent
  p1 = p1  p2 = p2
  Path = {A, B}
  Node = {n1}
  RepoId = {i1, i2}
  Proc = {p1, p2}
  Command <- EveryKind
  InitialGrants <- NothingShared
SYMMETRY ProcSymmetry
SPECIFICATION Spec
INVARIANTS NoTornFile TicketsKeepTheirRepo
PROPERTIES OneAtATimeIsAtomic LoneGrantNeverLowers LoneCommandKeepsToItsSubject RevokeShutsOut
CHECK_DEADLOCK FALSE
