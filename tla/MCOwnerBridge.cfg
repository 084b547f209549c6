SPECIFICATION Spec
CONSTANTS
  MaxInject = 2
  MaxProcess = 2
  MaxChild = 2
  Failure = {"enqueue", "withdraw", "dequeue", "ack", "exit", "recover"}
  MaxFailed = 1
INVARIANTS TypeOK Watched NotWrittenIsTrue CustodyKept
PROPERTIES WrittenInOrder SubmitNotAlone
CHECK_DEADLOCK FALSE
