\* One device whose user leaves and re-enters the screens, so that up to two
\* listeners work on each collection.  Bound: two operations of the user.
CONSTANTS
  c1 = c1  k1 = k1  k2 = k2  a1 = a1  a2 = a2  d1 = d1
  Inf = Inf  NaN = NaN  Keep = Keep  Missing = Missing  Root = Root
  NotLoaded = NotLoaded  Closed = Closed
  Devices = {d1}
  Courses = {c1, c2}
  Categories = {k1}
  Assignments = {a1}
  Parent <- MCParent
  Seed <- OneMark
  Marks <- MCMarks
  Weights = {1}
  MaxOpen = 2
  MaxEdits = 2
  MaxRestarts <- NoRestart
SPECIFICATION LookingSpec
INVARIANT IdleGrades
INVARIANT SettledScreens
CHECK_DEADLOCK FALSE
