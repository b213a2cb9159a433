SPECIFICATION Spec
CONSTANTS
  s1 = s1
  s2 = s2
  c1 = c1
  c2 = c2
  Sessions = {s1, s2}
  Callers = {c1, c2}
  Settings <- OneProcess
SYMMETRY SessionSymmetry
INVARIANTS
  SingleActiveWriter
CHECK_DEADLOCK FALSE
