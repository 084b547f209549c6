SPECIFICATION Spec
CONSTANTS
  Ops <- MCOps
  Nodes <- MCNodes
  Target <- MCTarget
  Broadcasts <- MCBroadcasts
  SshSubmits <- MCSshSubmits
  MaxPending = 2
  MaxFaults = 1
  MaxCrashes = 1
  MaxConnects = 2
INVARIANT ReceiptTruthful
PROPERTY PlacesComeBack
CHECK_DEADLOCK FALSE
