SPECIFICATION Spec
CONSTANTS
  MaxFd = 2
  MaxOpens = 3
  MaxSteps = 2
  Paths = {utmp, wtmp}
  UTMPX_FILE = utmp
  MaxCalls = 3
  MaxOthers = 1
INVARIANTS NumberIsOwn KeepsOneOpen RecordsWhole FlagsAsAsked
CHECK_DEADLOCK FALSE
