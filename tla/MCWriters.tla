----------------------------- MODULE MCWriters -----------------------------
(***************************************************************************)
(* Small instances of WriterQueue, with groups of writers and with reads   *)
(* beside them; and one of DBFiles, whose variables are of the same        *)
(* database, when appends of records and deletions of files fail.  A       *)
(* behaviour is one of one setting: variables of the queue are else as     *)
(* they are at first, and those of the files Unused.                       *)
(***************************************************************************)
EXTENDS WriterQueue, TLC

CONSTANTS Unused, Torn, k1, k2

VARIABLES
  setting,
  current, manifests, logs, tables, phase, version, logNumber, nextFile,
  manifestNumber, logfile, mem, pending, edit, toRecover, writing, flush,
  compaction, applying, reading, acked, durable, stops  \* DBFiles, with three
                                                        \* of WriterQueue

queueOnly == <<pc, op, writers, done, awake, group, log, synced, entries,
               lastSequence, gets, committed, returned, syncFailed>>
shared    == <<bgError, imm, started>>
filesOnly == <<current, manifests, logs, tables, phase, version, logNumber,
               nextFile, manifestNumber, logfile, mem, pending, edit, toRecover,
               writing, flush, compaction, applying, reading, acked, durable, stops>>
all       == <<setting, queueOnly, shared, filesOnly>>

Reads == INSTANCE WriterQueue WITH
  Batches <- {{k1}, {k1, k2}}, SyncOptions <- {FALSE},
  MaxWrites <- 2, MaxGets <- 2

TornRecords == INSTANCE DBFiles WITH
  SyncOptions <- {FALSE}, Crashes <- {}, Faults <- {"log", "edit", "delete"},
  MaxWrites <- 3, MaxStops <- 0, MaxFile <- 8

ASSUME SettingsAssumption ==
  BatchesAssumption /\ Reads!BatchesAssumption /\ TornRecords!DBFilesAssumption
-----------------------------------------------------------------------------
NoQueue ==
  /\ pc = [t \in Threads |-> "idle"] /\ op = [t \in Threads |-> None]
  /\ writers = <<>> /\ done = [t \in Threads |-> None] /\ awake = {}
  /\ group = None /\ log = {} /\ synced = {} /\ entries = {}
  /\ lastSequence = 0 /\ gets = 0 /\ committed = <<>> /\ returned = {}
  /\ syncFailed = FALSE

NoFiles ==
  /\ current = Unused /\ manifests = Unused /\ logs = Unused /\ tables = Unused
  /\ phase = Unused /\ version = Unused /\ logNumber = Unused /\ nextFile = Unused
  /\ manifestNumber = Unused /\ logfile = Unused /\ mem = Unused /\ pending = Unused
  /\ edit = Unused /\ toRecover = Unused /\ writing = Unused /\ flush = Unused
  /\ compaction = Unused /\ applying = Unused /\ reading = Unused
  /\ acked = Unused /\ durable = Unused /\ stops = Unused

WritersInit ==
  \/ setting \in {"groups", "reads"} /\ Init /\ NoFiles
  \/ setting = "torn records" /\ TornRecords!Init /\ NoQueue

QueueStep ==
  /\ \/ setting = "groups" /\ Next
     \/ setting = "reads" /\ Reads!Next
  /\ UNCHANGED <<setting, filesOnly>>

FileStep ==
  setting = "torn records" /\ TornRecords!Next /\ UNCHANGED <<setting, queueOnly>>

(* The writers come to their bound.                                        *)
MayStop == setting \in {"groups", "reads"} /\ UNCHANGED all

WritersNext == QueueStep \/ FileStep \/ MayStop

WritersSpec == WritersInit /\ [][WritersNext]_all

Interchangeable == Permutations(Threads)
-----------------------------------------------------------------------------
(* TypeOK, SyncedWhenAnswered, FutureWritesFail, ReadsAreStable and        *)
(* WritesAreAtomic are those of WriterQueue.                               *)

(* DeleteObsoleteFiles: also after a record or an edit was torn, or a      *)
(* deletion failed, the tables held by readers and compactions stay, and an*)
(* open database shows what it answered.                                   *)
TablesStay ==
  setting = "torn records" => TornRecords!HeldTablesStay /\ TornRecords!NothingHidden
=============================================================================
