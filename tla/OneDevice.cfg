\* One device, from a fresh installation on an account with one empty course.
\* Bounds: three operations of the user, one end of the process.
CONSTANTS
  c1 = c1  k1 = k1  k2 = k2  a1 = a1  a2 = a2  d1 = d1
  Inf = Inf  NaN = NaN  Keep = Keep  Missing = Missing  Root = Root
  NotLoaded = NotLoaded  Closed = Closed
  Devices = {d1}
  Courses = {c1}
  Categories = {k1}
  Assignments = {a1, a2}
  Parent <- MCParent
  Seed <- CourseOnly
  Marks <- MCMarks
  Weights = {1}
  MaxOpen = 1
  MaxEdits = 3
  MaxRestarts <- OneRestart
SPECIFICATION Spec
INVARIANT TypeOK
INVARIANT IdleGrades
CHECK_DEADLOCK FALSE
