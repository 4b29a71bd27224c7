\* Bounds: here those of groups, in the module those of the other settings.
CONSTANTS
  Unused = Unused  None = None  Torn = Torn
  Threads = {t1, t2, t3}
  k1 = k1  k2 = k2
  Keys = {k1, k2}
  Batches = {{}, {k1}}
  SyncOptions = {TRUE, FALSE}
  MaxWrites = 3
  MaxGets = 0
SPECIFICATION WritersSpec
SYMMETRY Interchangeable
INVARIANT TypeOK
INVARIANT SyncedWhenAnswered
INVARIANT FutureWritesFail
INVARIANT ReadsAreStable
INVARIANT TablesStay
PROPERTY WritesAreAtomic
