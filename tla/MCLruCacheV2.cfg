SPECIFICATION Spec
CONSTANTS
  Keys = {k1, k2, k3, k4}
  Values = {v1, v2}
  Addresses = {1, 2, 3, 4}
  k_maxSize = 3
INVARIANTS
  Linked
PROPERTIES
  ImplementsLru
