------------------------------ MODULE MCStore ------------------------------
(***************************************************************************)
(* Small instances of DBFiles: when the process crashes, with one file     *)
(* number more so that a memtable is flushed in the middle of a compaction *)
(* that has an output, when the machine crashes, and when syncs, tables and*)
(* manifests fail.  A behaviour is one of one setting; the constants of    *)
(* the first are those of the module.                                      *)
(***************************************************************************)
EXTENDS DBFiles

VARIABLE setting

Flushes == INSTANCE DBFiles WITH
  MaxWrites <- 2, MaxStops <- 1, MaxFile <- 9

MachineCrashes == INSTANCE DBFiles WITH
  SyncOptions <- BOOLEAN, Crashes <- {"machine"}, MaxWrites <- 2, MaxStops <- 3

FileErrors == INSTANCE DBFiles WITH
  SyncOptions <- {TRUE}, Crashes <- {"process", "machine"},
  Faults <- {"sync", "table", "manifest"}, MaxWrites <- 2

ASSUME SettingsAssumption ==
  /\ DBFilesAssumption /\ Flushes!DBFilesAssumption
  /\ MachineCrashes!DBFilesAssumption /\ FileErrors!DBFilesAssumption
-----------------------------------------------------------------------------
StoreInit ==
  /\ setting \in {"process crashes", "flushes", "machine crashes", "file errors"}
  /\ Init

(* A database whose first descriptor was lost, or for whose opening the    *)
(* bound on crashes leaves nothing, stays closed.                          *)
MayStop ==
  /\ setting \in {"machine crashes", "file errors"}
  /\ UNCHANGED vars

StoreNext ==
  /\ \/ setting = "process crashes" /\ Next
     \/ setting = "flushes" /\ Flushes!Next
     \/ setting = "machine crashes" /\ MachineCrashes!Next
     \/ setting = "file errors" /\ FileErrors!Next
     \/ MayStop
  /\ UNCHANGED setting

StoreSpec == StoreInit /\ [][StoreNext]_<<setting, vars>>
=============================================================================
