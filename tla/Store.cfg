\* Bounds: here those of the setting with process crashes, in the module those
\* that differ in each of the others.
CONSTANTS
  None = None  Torn = Torn
  SyncOptions = {FALSE}
  Crashes = {"process"}
  Faults = {}
  MaxWrites = 3
  MaxStops = 2
  MaxFile = 8
SPECIFICATION StoreSpec
INVARIANT NothingLost
INVARIANT NothingHidden
INVARIANT HeldTablesStay
PROPERTY NeededFilesStay
