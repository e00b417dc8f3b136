SPECIFICATION KprofileSpec
CONSTANTS
  Rows <- MCRows
  Tables <- MCTables
  MaxOptions = 2
  quotient <- MCQuotient
INVARIANT PrintsWholeInOrder
CHECK_DEADLOCK FALSE
