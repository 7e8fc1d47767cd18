SPECIFICATION FairFailureSpec
CONSTANTS
  NumHosts = 2
  NumTokens = 1
  WindowSize = 1
  TopK = 2
  ByteIndex = 127
  MaxHostCrashes = 1
  MaxSwitchCrashes = 0
  None = None
INVARIANTS
  FailureInvariant
  LivingWorkExact
  LivingQuiescent
PROPERTIES
  ImplementsDegradedService
  ServedOrBereft
