SPECIFICATION ObsFairSpec
CONSTANTS
  MaxInject = 2
  MaxScreen = 2
  MaxCalls = 2
  MaxRearms = 1
  PushScreen = TRUE
INVARIANTS ObsTypeOK OwnEvidence ToldOnce
PROPERTIES QuietAnswered
CHECK_DEADLOCK FALSE
