SPECIFICATION FairSpec
CONSTANTS
  m1 = m1  m2 = m2
  Id <- TwoMessages
  NoId = NoId
  MaxRetries = 2
  Ttl = 2
  InflightTimeout = 1
  RetryBackoff = 1
  CompactionThreshold = 2
  MayTearRewrite = FALSE
  MaxFaults = 1
  MayResend = FALSE
INVARIANTS TypeOK AtMostOnce
PROPERTIES DeadLetterHasRecord EventuallySettled
