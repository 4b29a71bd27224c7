\* Two users in the same category; or one device is there and another, freshly
\* installed, joins, perhaps offline, and its process ends once.
\* Bound: two operations in all, and none when a device joins.
CONSTANTS
  c1 = c1  k1 = k1  k2 = k2  a1 = a1  a2 = a2  d1 = d1
  Inf = Inf  NaN = NaN  Keep = Keep  Missing = Missing  Root = Root
  NotLoaded = NotLoaded  Closed = Closed
  Devices = {d1, d2}
  Courses = {c1}
  Categories = {k1}
  Assignments = {a1, a2}
  Parent <- MCParent
  Seed <- OneMark
  Marks <- HalfOrNone
  Weights = {1}
  MaxOpen = 1
  MaxEdits = 2
  MaxRestarts <- OneRestart
SPECIFICATION SameScreenSpec
INVARIANT SettledGrades
INVARIANT SettledScreens
PROPERTY NoResurrection
CHECK_DEADLOCK FALSE
SYMMETRY Interchangeable
