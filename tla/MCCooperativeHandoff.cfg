SPECIFICATION Spec
CONSTANTS
  m1 = m1
  m2 = m2
  Message <- MCMessage
  NoMessage = NoMessage
  MaxEpoch = 3
  MaxOwner = 3
  MaxIntent = 2
  MaxFaults = 2
SYMMETRY Symmetric
INVARIANTS TypeOK RotatedAfterExit CustodyKept
PROPERTY NothingStranded
CHECK_DEADLOCK FALSE
