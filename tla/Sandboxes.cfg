SPECIFICATION SandboxSpec
CONSTANTS
  None = None
  Jobs = {j1}
  Nodes = {n1}
  Services = {v1}
  Sessions = {s1}
  Providers = {"docker", "opensandbox", "cloudflare"}
  Slots = {c1, c2}
  MaxMade = 2
  MaxFaults = 1
  MaxCrashes = 1
SYMMETRY SlotSymmetry
INVARIANTS
  RunningIsHeld
  CachesAreTrue

  
CHECK_DEADLOCK FALSE
