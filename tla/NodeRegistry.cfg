SPECIFICATION Spec
CONSTANTS
  n1 = n1
  n2 = n2
  m1 = m1
  m2 = m2
  m3 = m3
  m4 = m4
  None = None
  Nodes = {n1, n2}
  Manifests = {m1, m2, m3, m4}
  NodeOf <- TwoNodes
  KeyOf <- TwoKeys
  Tokens = {t1}
  Callers = {c1, c2}
  MaxCredentials = 2
  MaxCrashes = 1
SYMMETRY RegistrySymmetry
INVARIANTS
  AdmittedAsReviewed
  
PROPERTIES
  IdentityChangesOnlyInRace
CHECK_DEADLOCK FALSE
