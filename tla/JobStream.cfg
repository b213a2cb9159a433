SPECIFICATION Spec
CONSTANTS
  Clients = {c1, c2}
  MaxHistory = 2
  CompactionFloor = 3
  MaxPublished = 7
SYMMETRY ClientSymmetry
INVARIANTS
  HistoryIsWindow
  ClientsAreServed
  
CHECK_DEADLOCK FALSE
