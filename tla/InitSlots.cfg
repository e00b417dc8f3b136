SPECIFICATION Spec
CONSTANTS
  Pids = {p1, p2, p3, p4}
  InitPid = InitPid
  Ttys <- MCTtys
  ChildSlots = 3
  Configs <- MCOverrun
INVARIANTS ChildSlotsSuffice
CHECK_DEADLOCK FALSE
