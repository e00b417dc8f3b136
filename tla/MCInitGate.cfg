SPECIFICATION Spec
CONSTANTS
  Pids = {p1, p2, p3}
  InitPid = InitPid
  Ttys <- MCTtys
  ChildSlots = 2
  Configs <- MCConfigs
PROPERTIES EveryChildStarts ImplementsStartGate
CHECK_DEADLOCK FALSE
