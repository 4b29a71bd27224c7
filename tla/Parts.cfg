\* Bounds: 3 rows, 4 changes and 2 presses on the page; 3 forms with 3 texts
\* typed into each; none in the navigation.
\* Tables: 4 writes to 3 keys, or to 2 keys with deletions, 2 outputs; or 3
\* writes to 2 keys, 2 snapshots, 1 output.
CONSTANTS
  Unused = Unused  Inf = Inf  NaN = NaN  nil = nil  None = None
  Fixed = Fixed
  k1 = k1  a1 = a1
  Devices = {d1, d2}
  Categories = {k1}
  Assignments = {a1}
  Empty = ""
  Names = {"", "Exams", "Tests"}
  Amounts = {"", "5", "5.0", "0.0", "1.5.2"}
  Double <- MCDouble
  Text <- MCText
  MaxRows = 3
  MaxEdits = 4
  MaxClicks = 2
  MaxForms = 3
  MaxTyped = 3
SPECIFICATION PartsSpec
SYMMETRY Interchangeable
INVARIANT FieldNumbers
INVARIANT SentBeforeLeaving
INVARIANT NoMixture
INVARIANT NothingEmpty
INVARIANT GradeOfItsMark
INVARIANT RollUpAboveRows
INVARIANT FormOverItsList
INVARIANT LookupsAreRight
INVARIANT TablesAreDisjoint
