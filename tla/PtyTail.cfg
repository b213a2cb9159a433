SPECIFICATION FairTailSpec
CONSTANTS
  p1 = p1
  p2 = p2
  r1 = r1
  r2 = r2
  Ptys = {p1, p2}
  Readers = {r1}
  Event <- MCEvent
  Retention = 2
  PageLimit = 2
  ClockStepsBack = FALSE
  Times = {0, 1}
  MaxEvents = 4
  MaxCrashes = 1
INVARIANTS
  HoldsLatest
  ReadersKeepOrder
  SkipsNothingRetained
PROPERTIES
  EveryReaderEnds
CHECK_DEADLOCK FALSE
