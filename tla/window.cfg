SPECIFICATION FairSpec
CONSTANTS
  NumHosts = 1
  NumTokens = 4
  WindowSize = 3
  TopK = 1
  ByteIndex = 255
  None = None
INVARIANTS
  PullInflightExact
  SlotsWithinWindow
  Truthful
PROPERTIES
  PullsAnswered
