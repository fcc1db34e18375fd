SPECIFICATION FairSpec
CONSTANTS
  t1 = t1  t2 = t2  t3 = t3  t4 = t4  t5 = t5
  a = a  b = b  c = c
  Threads = {t1, t2, t3, t4, t5}
  Objects = {a, b, c}
  NoOne = NoOne
  Lhs <- MCLhs
  Rhs <- MCRhs
  Length = 2
INVARIANTS
  TypeOK
  NoDeadlock
  Whole
PROPERTIES
  ImplementsRegisters
  AloneReturns
