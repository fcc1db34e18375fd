SPECIFICATION Spec
CONSTANTS
  Stacks = {s1, s2}
  Values = {x, y}
  Default = Default
  Addresses = {1, 2, 3}
  Null = Null
  InitialSize = 1
  MaxUsed = 3
INVARIANT
  TopIsLastPushed
