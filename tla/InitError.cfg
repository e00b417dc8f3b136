SPECIFICATION Spec
CONSTANTS
  Pids = {p1, p2}
  InitPid = InitPid
  Ttys <- MCTtys
  ChildSlots = 3
  Configs <- MCErrors
PROPERTIES WaitEndsWithInit
CHECK_DEADLOCK FALSE
