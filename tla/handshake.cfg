SPECIFICATION FairSpec
CONSTANTS
  NumHosts = 2
  Clients = {a, b, c}
  Backlog = 2
  MaxDeaths = 1
  None = None
INVARIANTS
  RegistryExact
  ReadersFindEveryHost
  OnlyRegisteredRun
  EarlyMessagesKept
PROPERTIES
  RunStarts
CHECK_DEADLOCK FALSE
