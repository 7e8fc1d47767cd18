SPECIFICATION RingSpec
CONSTANTS
  NumHosts = 3
  NumTokens = 1
  WindowSize = 1
  TopK = 1
  ByteIndex = 127
  None = None
INVARIANTS
  FinishQuiescent
  Truthful
  Accounted
