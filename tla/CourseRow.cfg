\* The percentage shown for a course, after a category and a mark were added.
CONSTANTS
  c1 = c1  k1 = k1  k2 = k2  a1 = a1  a2 = a2  d1 = d1
  Inf = Inf  NaN = NaN  Keep = Keep  Missing = Missing  Root = Root
  NotLoaded = NotLoaded  Closed = Closed
  Devices = {d1}
  Courses = {c1}
  Categories = {k1}
  Assignments = {a1}
  Parent <- MCParent
  Seed <- CourseOnly
  Marks <- MCMarks
  Weights = {1}
  MaxOpen = 1
  MaxEdits = 2
  MaxRestarts <- NoRestart
SPECIFICATION Spec
INVARIANT CourseRowShowsGrade
CHECK_DEADLOCK FALSE
