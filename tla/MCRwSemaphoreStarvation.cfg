SPECIFICATION FairSpec
CONSTANTS
  Threads = {t1, t2, t3}
  kNumReadersMask = 3
PROPERTIES
  WriterNotStarved
