SPECIFICATION Spec
CONSTANTS
  p1 = p1  p2 = p2  p3 = p3
  Proc <- Processes2
  Ticket <- Tickets3
  NamesOf <- AnyName
  NoProc = NoProc
  NoTicket = 0
  MaxContenders = 2
  Sweepers <- OneSweeper
  MayTimeout = TRUE
  Mortal <- Processes2
  MayReusePid = TRUE
INVARIANTS TypeOK LiveTicketUntouched MutualExclusion FirstComeFirstServed
PROPERTY ImplementsMutex
CHECK_DEADLOCK FALSE
