SPECIFICATION Spec
CONSTANTS
  p1 = p1
  p2 = p2
  f1 = f1
  f2 = f2
  Paths = {p1, p2}
  Files = {f1, f2}
  Transports = {"archive", "file_api"}
  MaxHostEdits = 2
  MaxSandboxEdits = 2
  MaxCommits = 2
  MaxCrashes = 1
SYMMETRY StageSymmetry
INVARIANTS
  TypeOK
  
  
  OverwritesOnlyUncontested
CHECK_DEADLOCK FALSE
