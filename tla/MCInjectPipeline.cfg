SPECIFICATION Spec
CONSTANTS
  i1 = i1  i2 = i2  s1 = s1  s2 = s2  w1 = w1  w2 = w2  n1 = n1  n2 = n2
  Inject <- TwoInjects
  Session <- Sessions2
  Socket <- Sockets2
  Name <- OneName
  NoInject = NoInject
  NoSession = NoSession
  NoSocket = NoSocket
  MaxRetries = 2
  MaxFaults = 1
SYMMETRY Symmetry
INVARIANTS TypeOK NoBareSubmit NoGluedText RefusedNeverWritten
CHECK_DEADLOCK FALSE
