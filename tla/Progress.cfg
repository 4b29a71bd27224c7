\* Bounds: 3 writes by 3 threads; 3 records, over blocks of 6 bytes with headers
\* of 2, and 2 failed writes.
CONSTANTS
  Unused = Unused  None = None  Eof = Eof
  Threads = {t1, t2, t3}
  Keys = {k1}
  Batches = {{}, {k1}}
  SyncOptions = {FALSE}
  MaxWrites = 3
  MaxGets = 0
  BlockSize = 6
  HeaderSize = 2
  Sizes = {0, 1, 3, 6}
  MaxRecords = 3
  MaxFailures = 2
SPECIFICATION ProgressSpec
INVARIANT CompleteRecordsAreRead
INVARIANT RecordsAreNotMixed
PROPERTY CallsReturn
PROPERTY ReaderEnds
CHECK_DEADLOCK FALSE
