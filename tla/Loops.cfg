\* Bounds: three rows; the loop ends.
CONSTANTS
  Inf = Inf  NaN = NaN  Pending = Pending
  Ids = {1, 2, 3}
  Marks <- MCMarks
  Shares <- MCShares
SPECIFICATION Spec
INVARIANT LoopsComputeGrades
INVARIANT GradeIsMean
INVARIANT Undefined
CHECK_DEADLOCK FALSE
