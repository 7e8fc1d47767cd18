SPECIFICATION FairSpec
CONSTANTS
  Producers = {p1, p2}
  Consumers = {c1, c2}
  MaxPushes = 4
INVARIANTS
  NoLostWakeup
PROPERTIES
  ItemsTaken
  ConsumersReleased
CHECK_DEADLOCK FALSE
