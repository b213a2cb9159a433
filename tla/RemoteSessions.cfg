SPECIFICATION Spec
CONSTANTS
  s1 = s1
  s2 = s2
  n1 = n1
  n2 = n2
  n3 = n3
  Unspecified = Unspecified
  None = None
  NoNode = NoNode
  Jobs = {s1, s2}
  Nodes = {n1, n2, n3}
  Ptys = {"p1"}
  MaxConcurrentJobs <- OneEach
  NodeKind <- Kinds
  NodeCaps <- Caps
  Needs <- Required
  UseOps <- Ops
  AdapterAsked <- AdapterChoice
  MaxOpens = 2
  MaxMishaps = 2
INVARIANTS
  AgentsFollowLeases
  OpenPtyIsMirrored

  
CHECK_DEADLOCK FALSE
