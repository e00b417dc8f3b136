SPECIFICATION Spec
CONSTANTS
  Pids = {p1, p2, p3}
  InitPid = InitPid
  Ttys <- MCTtys
  ChildSlots = 3
  Configs <- MCConfigs
INVARIANTS TypeOK NoEarlyStart AllOrNothing NoChildKilled SnapshotExact RunsPrepared
CHECK_DEADLOCK FALSE
