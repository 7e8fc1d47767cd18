SPECIFICATION Spec
CONSTANTS
  NumHosts = 2
INVARIANT
  ReadersUseLiveConnections
CHECK_DEADLOCK FALSE
