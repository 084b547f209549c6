SPECIFICATION FairSpec
CONSTANTS
  p1 = p1  p2 = p2  p3 = p3
  Proc <- Processes3
  Ticket <- Tickets3
  NamesOf <- TwoContenders
  NoProc = NoProc
  NoTicket = 0
  MaxContenders = 3
  Sweepers <- ThirdSweeps
  MayTimeout = FALSE
  Mortal <- Processes3
  MayReusePid = FALSE
PROPERTY EventuallyAdmitted
CHECK_DEADLOCK FALSE
