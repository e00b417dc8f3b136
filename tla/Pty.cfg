SPECIFICATION Spec
CONSTANTS
  MaxFd = 5
  MaxCalls = 2
  None = None
INVARIANTS FailureLeavesTable SuccessAddsPair ChildOnSlave ChildLeftOutOnlyByOwner
CHECK_DEADLOCK FALSE
