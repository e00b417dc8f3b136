SPECIFICATION Spec
CONSTANTS
  Threads = {t1, t2}
  MaxCalls = 2
  MaxSignals = 1
INVARIANTS DispositionsRestored MaskRestored ShellStartsAsProgram
PROPERTY AbortEnds
CHECK_DEADLOCK FALSE
