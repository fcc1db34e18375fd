\* The threads stop after MaxCalls operations, so the model may stop.
SPECIFICATION FairSpec
CONSTANTS
  Threads = {t1, t2}
  NoOne = NoOne
  cm_size = 2
  MaxCalls = 3
INVARIANTS
  TypeOK
  SizeExact
  Fifo
PROPERTIES
  EveryCallReturns
CHECK_DEADLOCK FALSE
