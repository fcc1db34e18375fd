SPECIFICATION FairSpec
CONSTANTS
  Producers = {p1, p2}
  Consumers = {c1, c2, c3}
  NoOne = NoOne
  MaxItems = 2
INVARIANTS
  TypeOK
  Fifo
  NoLostWakeup
PROPERTIES
  QueuedItemTaken
