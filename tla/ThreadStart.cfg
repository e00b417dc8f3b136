SPECIFICATION Spec
CONSTANTS
  Threads = {t1, t2}
  Joiners = {j1, j2}
  Values = {v1, v2}
  None = None
INVARIANTS BodyRunsReady JoinGetsResult
PROPERTIES NoLostWakeup ImplementsLifecycle
CHECK_DEADLOCK FALSE
