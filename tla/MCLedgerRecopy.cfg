SPECIFICATION Spec
CONSTANTS
  t1 = t1  t2 = t2  a = a  b = b
  Txn = {t1, t2}
  Id = {a, b}
  SessionOf <- OneSession
  Op <- SomeOps
  MaxGroup = 2
  MaxGen = 2
  MaxFaults = 3
  MayTearCopy = TRUE
SYMMETRY Symmetry
INVARIANT AckedDurable
CHECK_DEADLOCK FALSE
