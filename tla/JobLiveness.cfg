SPECIFICATION FairSpec
CONSTANTS
  j1 = j1
  j2 = j2
  n1 = n1
  n2 = n2
  Jobs = {j1}
  Nodes = {n1, n2}
  NoNode = NoNode
  MaxConcurrentJobs <- OneSlotEach
  NodeKind <- SandboxAndRemote
  MaxAborts = 2
  MaxLapses = 1
  MaxCrashes = 1
PROPERTY EveryJobSettles
CHECK_DEADLOCK FALSE
