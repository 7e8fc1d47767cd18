SPECIFICATION Spec
CONSTANTS
  NumHosts = 2
  NumTokens = 1
  WindowSize = 1
  TopK = 2
  ByteIndex = 200
  None = None
INVARIANTS
  TypeOK
  CombineExact
  PendingExact
  NoSlotOverwritten
  PullFindsSlot
  NeverStuck
PROPERTY
  ImplementsService
