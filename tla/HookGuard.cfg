\* Two commands guard the hook of one clone at the same time.
CONSTANTS
  g1 = g1  g2 = g2
  Original = Original  NoFile = NoFile
  Guard = {g1, g2}
SPECIFICATION Spec
INVARIANT HookLeftWhole
CHECK_DEADLOCK FALSE
