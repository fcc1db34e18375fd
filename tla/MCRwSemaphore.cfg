SPECIFICATION FairSpec
CONSTANTS
  Threads = {t1, t2, t3}
  kNumReadersMask = 3
INVARIANTS
  TypeOK
  MutualExclusion
  WordAgrees
  DChecksHold
PROPERTIES
  ImplementsRwLock
  PendingWriterEnters
