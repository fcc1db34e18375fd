SPECIFICATION MCSpec
CONSTANTS
  Keys = {k1, k2, k3, k4}
  max_size_ = 3
  Leaves = {1, 2}
  MaxModels = 5
  MaxHistory = 2
  MaxDocument = 2
  Lists = {l1, l2}
  Temporary = tmp
  Elems = {1, 2}
  Addresses = {1, 2, 3, 4, 5}
  Null = 0
  Nths = {2, 3, 4}
INVARIANT MemoryOwned
PROPERTIES DocumentsAreValues ListsAreValues LruV1Ordered
CHECK_DEADLOCK FALSE
