SPECIFICATION FairFailureSpec
CONSTANTS
  NumHosts = 2
  NumTokens = 1
  WindowSize = 1
  TopK = 1
  ByteIndex = 127
  MaxHostCrashes = 0
  MaxSwitchCrashes = 1
  None = None
PROPERTIES
  ImplementsDegradedService
  StopsOrAwaitsSwitch
