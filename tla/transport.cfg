SPECIFICATION FairSpec
CONSTANTS
  Writers = {w1, w2}
  Payloads <- MCPayloads
  BufSize = 16
  MaxMessages = 4
  None = None
INVARIANTS
  ReadInOrder
  OneBufferInUse
  WireIsBigEndian
PROPERTIES
  ImplementsLinks
  WritesReturn
CHECK_DEADLOCK FALSE
