SPECIFICATION Spec
CONSTANTS
  None = None
  NumKeys = 1
  Deletions = {FALSE}
  NumLevels = 4
  MaxMemCompactLevel = 2
  MaxOutputs = 2
  Manual = FALSE
  MaxWrites = 3
  MaxSnapshots = 1
INVARIANT LookupsAreRight
CHECK_DEADLOCK FALSE
