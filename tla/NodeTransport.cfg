SPECIFICATION FairSpec
CONSTANTS
  run = run
  pty = pty
  abort = abort
  Requests = {run, pty, abort}
  Kind <- KindOf
  Sockets = {1, 2}
  NoSocket = NoSocket
  MaxEvents <- EventsOf
INVARIANTS
  StreamsAreFaithful
  
PROPERTIES
  EveryRequestSettles
CHECK_DEADLOCK FALSE
