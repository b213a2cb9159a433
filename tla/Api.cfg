SPECIFICATION Spec

CONSTANTS
  Groups = {"requests", "links"}
  MaxNow = 4
  RequestsHorizon = 2
  \* requests
  None = None
  Slots = {r1, r2}
  ApiWorkspaces = {"w"}
  SubmitKeys = {"i"}
  ExchangeKeys = {"i"}
  Bodies <- MCBodies
  Proofs <- MCProofs
  TokenScopes <- MCTokenScopes
  KeyScopes <- MCKeyScopes
  TokenLife = 1
  JobRecordLife = 2
  MaxExchanges = 2
  MaxKeys = 1
  MaxJobs = 2
  \* launch links
  Absent = Absent
  Workspaces = {w1, w2}
  Previews = {"p"}
  Services = {"s"}
  Descriptors <- MCDescriptors
  AskedPaths <- MCAskedPaths
  FileNames = {"my page.html", "index.html", "my%20page.html"}
  IndexFile = "index.html"
  Escaped <- MCEscaped
  DefaultLife = 1
  ServiceLife = 2
  MaxTimeout = 2
  MaxRevoked = 1
  MaxTokens = 2

SYMMETRY Symmetry

INVARIANTS
  OneStandingJobPerKey
  AnswersHold
  OneBindingPerClient
  RevokedNeverOpens
  LinkMapsAgree
  FileLinksStayInside

\* The clock stops at its bound, and a behaviour with nothing in flight may end there.
CHECK_DEADLOCK FALSE
