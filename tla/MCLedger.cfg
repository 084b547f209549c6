SPECIFICATION Spec
CONSTANTS
  t1 = t1  t2 = t2  a = a  b = b
  Txn = {t1, t2}
  Id = {a, b}
  SessionOf <- OneSession
  Op <- SomeOps
  MaxGroup = 2
  MaxGen = 2
  MaxFaults = 3
  MayTearCopy = FALSE
SYMMETRY Symmetry
INVARIANTS AckedDurable RecoveryComplete ServesCommitted AnswersTruthful
PROPERTIES ImplementsLog
CHECK_DEADLOCK FALSE
