\* Three processes at once, dying anywhere.
CONSTANTS
  p1 = p1  p2 = p2  p3 = p3  k1 = k1  k2 = k2  k3 = k3
  NoFile = NoFile  Torn = Torn  NoKey = NoKey
  Proc = {p1, p2, p3}
  Key = {k1, k2, k3}
SYMMETRY Symmetry
SPECIFICATION Spec
INVARIANTS SettledKeyStays
CHECK_DEADLOCK FALSE
