SPECIFICATION Spec
CONSTANTS
  MaxFile = 5
  MaxTail = 2
  Files <- MCFiles
  Tails <- MCTails
INVARIANTS ParseTypeOK ParsesAsAutomaton FailsForAReason NoLeak TailOnlyAppends
PROPERTIES Terminates
CHECK_DEADLOCK FALSE
