SPECIFICATION FairLoopSpec
CONSTANTS
  NumHosts = 1
  NumTokens = 2
  WindowSize = 2
  TopK = 1
  ByteIndex = 127
  LoopModes = {"io"}
  DrainLimit = 64
  None = None
PROPERTY
  HostsExit
