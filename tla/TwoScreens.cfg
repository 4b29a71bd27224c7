\* One user in the categories of a course, the other in one of the categories.
\* Bound: two operations in all.
CONSTANTS
  c1 = c1  k1 = k1  k2 = k2  a1 = a1  a2 = a2  d1 = d1
  Inf = Inf  NaN = NaN  Keep = Keep  Missing = Missing  Root = Root
  NotLoaded = NotLoaded  Closed = Closed
  Devices = {d1, d2}
  Courses = {c1}
  Categories = {k1, k2}
  Assignments = {a1}
  Parent <- MCParent
  Seed <- OneMark
  Marks <- MCMarks
  Weights = {1, 2}
  MaxOpen = 1
  MaxEdits = 2
  MaxRestarts <- NoRestart
SPECIFICATION TwoScreensSpec
INVARIANT SettledGrades
PROPERTY BookKept
CHECK_DEADLOCK FALSE
