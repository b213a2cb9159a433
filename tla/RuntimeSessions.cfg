SPECIFICATION Spec
CONSTANTS
  s1 = s1
  s2 = s2
  c1 = c1
  c2 = c2
  Sessions = {s1, s2}
  Callers = {c1, c2}
  Settings <- AllSettings
SYMMETRY SessionSymmetry
INVARIANTS
  FreshWriterExclusive
  ReadyStageHasBaseline
  
PROPERTIES
  DestroyedNeverReady
CHECK_DEADLOCK FALSE
