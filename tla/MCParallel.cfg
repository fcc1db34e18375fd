CONSTANTS
  kMaxVal  = 5
  Threads  = {"t1", "t2"}
  items   <- Items
  W        = 2
  Unsolved = Unsolved
  Optimum <- SerialOptimum
  Clients  = {"c1", "c2"}
  MaxSend  = 3
  max_length = 2
SPECIFICATION Spec
INVARIANTS ShortestDistances MemoOptimal RaceOutcome SessionsKept
PROPERTY WorkEnds
CHECK_DEADLOCK FALSE
