SPECIFICATION Spec
CONSTANTS
  Elements <- MCElements
  Args <- MCArgs
  compare <- MCCompare
  MaxCount = 4
INVARIANTS SortedPermutation ElementInInterval FoundIffPresent
