SPECIFICATION FairUniformSpec
CONSTANTS
  NumHosts = 2
  NumTokens = 1
  WindowSize = 1
  TopK = 1
  ByteIndex = 127
  LoopModes = {"four", "io", "all"}
  DrainLimit = 1
  None = None
INVARIANTS
  NoWriteCycle
PROPERTIES
  ImplementsFairService
  HostsExit
