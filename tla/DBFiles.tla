------------------------------ MODULE DBFiles ------------------------------
(***************************************************************************)
(* The files of a leveldb database and what of it survives a crash.  A     *)
(* write is appended to the current log and put into the memtable; a full  *)
(* memtable is written to a table by the background thread, and tables     *)
(* are merged into others; each change of the set of live tables is an     *)
(* edit appended to the manifest that the file CURRENT names; files that   *)
(* nothing needs any more are deleted.  Opening the database reads it all  *)
(* back.  A table is the set of the writes it holds: keys, levels and      *)
(* the dropping of overwritten values are left out.                        *)
(*                                                                         *)
(* A record that was not completely written is Torn.  A process crash      *)
(* loses what is in memory; a machine crash also cuts each log and         *)
(* manifest somewhere behind the part that was synced.  Creating,          *)
(* renaming and deleting a file are taken to survive both.                 *)
(***************************************************************************)
EXTENDS Integers, SequencesExt

CONSTANTS
  None, Torn,
  SyncOptions,       \* the values of WriteOptions.sync
  Crashes,           \* the kinds of crashes: "process", "machine"
  Faults,            \* what may fail: "log", "edit", "sync", "table", "manifest",
                     \* "delete"
  MaxWrites,         \* bound: writes started
  MaxStops,          \* bound: crashes and opens that fail
  MaxFile            \* bound: file numbers given out while the database is open

Writes == 1 .. MaxWrites

(* A VersionEdit, a write between its record and its answer, a compaction. *)
EditType == [add : SUBSET Nat, del : SUBSET Nat, log : Nat, next : Nat]

WritingType == [id : Nat, sync : BOOLEAN]

CompactionType ==
  [inputs : SUBSET Nat, base : SUBSET Nat, left : SUBSET Nat, done : SUBSET Nat,
   output : Nat \cup {None}]

DBFilesAssumption ==
  /\ MaxWrites \in Nat /\ MaxStops \in Nat /\ MaxFile \in Nat
  /\ SyncOptions \subseteq BOOLEAN
  /\ Torn \notin Nat \cup EditType
  /\ None \notin Nat \cup WritingType \cup CompactionType
  /\ \A written \in SUBSET Writes : written # Torn /\ written # None

VARIABLES
  (* on disk *)
  current,           \* CURRENT: the number of the manifest it names, or None
  manifests,         \* number |-> the edits and how many of them are synced
  logs,              \* number |-> the writes and how many of them are synced
  tables,            \* number |-> the writes in it, Torn while it is built
  (* in memory *)
  phase,             \* "closed", how far DB::Open has come, or "open"
  version,           \* current_: the live tables
  logNumber,         \* log_number_: older logs are not needed
  nextFile,          \* next_file_number_
  manifestNumber,    \* manifest_file_number_
  logfile,           \* logfile_number_
  mem, imm,          \* mem_ and imm_: the writes in them; imm is None if there is none
  pending,           \* pending_outputs_
  bgError,           \* bg_error_ is set
  edit,              \* the VersionEdit being made or applied
  toRecover,         \* the logs Recover has still to read
  writing,           \* the write that is appended and not yet answered
  flush,             \* CompactMemTable: the number of its table, or None
  compaction,        \* BackgroundCompaction: its inputs, the version they are
                     \* from, the writes not yet in an output, the outputs
                     \* finished and the number of the one being written
  applying,          \* LogAndApply: "no", "started" or "logged"
  reading,           \* the tables of the version a reader holds
  (* history and bounds *)
  acked,             \* the writes that must not be lost now
  durable,           \* those of them a crash of the machine must not lose
  started, stops

disk      == <<current, manifests, logs, tables>>
state     == <<version, logNumber, manifestNumber>>
memtables == <<logfile, mem, imm>>
work      == <<pending, flush, compaction, applying>>
calls     == <<writing, reading>>
memory    == <<state, memtables, work, calls, nextFile, bgError, edit, toRecover>>
history   == <<acked, durable, started, stops>>
vars      == <<disk, phase, memory, history>>

(* A VersionEdit: tables added and deleted, the log number, the next file. *)
Edit(add, del, log, next) == [add |-> add, del |-> del, log |-> log, next |-> next]

(* What Builder makes of the edits of a manifest.                          *)
Files(edits) == FoldLeft(LAMBDA files, e : (files \ e.del) \cup e.add, {}, edits)

(* The edits that are read: a torn record at the end is taken for the end. *)
Edits(m) ==
  IF m.records # <<>> /\ Last(m.records) = Torn THEN Front(m.records) ELSE m.records

(* The reader of a log skips to the next block: what follows a torn record *)
(* in its block is not read.                                               *)
Read(log) == {log.records[i] : i \in {j \in DOMAIN log.records :
                                       \A k \in 1 .. j : log.records[k] # Torn}}

(* The database can be opened: there is a descriptor behind CURRENT, with  *)
(* no torn record but at its end, and a table for each number in it.       *)
Readable(m) ==
  /\ Edits(m) # <<>>
  /\ \A i \in DOMAIN Edits(m) : m.records[i] # Torn
  /\ Files(Edits(m)) \subseteq DOMAIN tables

Stored(files) == UNION {tables[n] : n \in {f \in files : tables[f] # Torn}}

(* What the database would hold if it were opened now.                     *)
Recoverable ==
  IF current = None \/ ~Readable(manifests[current]) THEN {}
  ELSE LET edits == Edits(manifests[current])
       IN  Stored(Files(edits))
             \cup UNION {Read(logs[n]) : n \in {l \in DOMAIN logs : l >= Last(edits).log}}

(* A file of that number is made, or made empty.                           *)
Create(files, n, contents) ==
  [f \in DOMAIN files \cup {n} |-> IF f = n THEN contents ELSE files[f]]

Only(files, numbers) == [n \in DOMAIN files \cap numbers |-> files[n]]

NewFile  == [records |-> <<>>, synced |-> 0]
Appended(f, r) == [f EXCEPT !.records = Append(@, r)]
Synced(f) == [f EXCEPT !.synced = Len(f.records)]

(* Nothing is left in memory.                                              *)
Forget ==
  /\ version' = {} /\ logNumber' = 0 /\ nextFile' = 2 /\ manifestNumber' = 0
  /\ logfile' = 0 /\ mem' = {} /\ imm' = None /\ pending' = {} /\ bgError' = FALSE
  /\ edit' = Edit({}, {}, 0, 0) /\ toRecover' = {} /\ writing' = None
  /\ flush' = None /\ compaction' = None /\ applying' = "no" /\ reading' = {}

Init ==
  /\ current = None
  /\ manifests = <<>> /\ logs = <<>> /\ tables = <<>>
  /\ phase = "closed"
  /\ version = {} /\ logNumber = 0 /\ nextFile = 2 /\ manifestNumber = 0
  /\ logfile = 0 /\ mem = {} /\ imm = None /\ pending = {} /\ bgError = FALSE
  /\ edit = Edit({}, {}, 0, 0) /\ toRecover = {} /\ writing = None
  /\ flush = None /\ compaction = None /\ applying = "no" /\ reading = {}
  /\ acked = {} /\ durable = {} /\ started = 0 /\ stops = 0
-----------------------------------------------------------------------------
(* DB::Open                                                                *)

(* NewDB: the first descriptor is written, and not synced.                 *)
NewDB ==
  /\ phase = "closed" /\ current = None
  /\ manifests' = Create(manifests, 1, [records |-> <<Edit({}, {}, 0, 2)>>, synced |-> 0])
  /\ phase' = "new"
  /\ UNCHANGED <<current, logs, tables, memory, history>>

CreateCurrent ==
  /\ phase = "new"
  /\ current' = 1
  /\ phase' = "closed"
  /\ UNCHANGED <<manifests, logs, tables, memory, history>>

(* VersionSet::Recover, and the logs that are not older than its number.   *)
Recover ==
  /\ phase = "closed" /\ current # None
  /\ Readable(manifests[current])
  /\ LET edits == Edits(manifests[current])
         last  == Last(edits)
     IN  /\ version' = Files(edits)
         /\ logNumber' = last.log
         /\ manifestNumber' = last.next
         /\ nextFile' = last.next + 1
         /\ toRecover' = {n \in DOMAIN logs : n >= last.log}
  /\ phase' = "logs"
  /\ UNCHANGED <<disk, memtables, work, calls, history, bgError, edit>>

(* MUTANT of MarkFileNumberUsed: the number of the log is not marked.      *)
MarkNothing(next, n) == next

MarkFileNumberUsed(next, n) == Max({next, n + 1})

(* The oldest log goes into a table, if there is anything in it.           *)
RecoverLogFile ==
  /\ phase = "logs" /\ toRecover # {}
  /\ LET n == Min(toRecover)
         recovered == Read(logs[n])
     IN  /\ toRecover' = toRecover \ {n}
         /\ IF recovered = {}
            THEN /\ nextFile' = MarkFileNumberUsed(nextFile, n)
                 /\ UNCHANGED <<tables, edit>>
            ELSE /\ tables' = Create(tables, nextFile, recovered)
                 /\ edit' = [edit EXCEPT !.add = @ \cup {nextFile}]
                 /\ nextFile' = MarkFileNumberUsed(nextFile + 1, n)
  /\ UNCHANGED <<current, manifests, logs, phase, state, memtables, work,
                 calls, history, bgError>>

NewLog ==
  /\ phase = "logs" /\ toRecover = {}
  /\ logs' = Create(logs, nextFile, NewFile)
  /\ logfile' = nextFile
  /\ edit' = [edit EXCEPT !.log = nextFile, !.next = nextFile + 1]
  /\ nextFile' = nextFile + 1
  /\ phase' = "manifest"
  /\ UNCHANGED <<current, manifests, tables, state, work, calls, history,
                 mem, imm, bgError, toRecover>>

(* LogAndApply makes a new manifest: a snapshot and the edit, synced.      *)
NewManifest ==
  /\ phase = "manifest"
  /\ manifests' = Create(manifests, manifestNumber,
                    [records |-> <<[edit EXCEPT !.add = @ \cup version]>>, synced |-> 1])
  /\ phase' = "current"
  /\ UNCHANGED <<current, logs, tables, memory, history>>

(* The three kinds of files are left with those that are kept and some     *)
(* that could not be deleted.                                              *)
Keep(keptTables, keptLogs, ms, keptManifests) ==
  LET doomed == (DOMAIN tables \ keptTables) \cup (DOMAIN logs \ keptLogs)
                  \cup (DOMAIN ms \ keptManifests)
  IN  \E left \in IF "delete" \in Faults THEN SUBSET doomed ELSE {{}} :
        /\ tables'    = Only(tables, keptTables \cup left)
        /\ logs'      = Only(logs, keptLogs \cup left)
        /\ manifests' = Only(ms, keptManifests \cup left)

NotOlder(files, n) == {f \in DOMAIN files : f >= n}

(* MUTANT of DeleteObsoleteFiles: only the current version is asked.       *)
DeleteOtherVersions(error, live, log, ms) ==
  IF error THEN tables' = tables /\ logs' = logs /\ manifests' = ms
  ELSE Keep(version' \cup pending, NotOlder(logs, log), ms, NotOlder(ms, manifestNumber))

(* Tables that are not live, logs older than the log number and manifests  *)
(* older than the own one are deleted; those that could not be stay until  *)
(* the next time.  After a background error nothing is.                    *)
DeleteObsoleteFiles(error, live, log, ms) ==
  IF error THEN tables' = tables /\ logs' = logs /\ manifests' = ms
  ELSE Keep(live, NotOlder(logs, log), ms, NotOlder(ms, manifestNumber))

(* CURRENT is made to name the new manifest and the database is open.      *)
SetCurrentFile ==
  /\ phase = "current"
  /\ current' = manifestNumber
  /\ version' = version \cup edit.add
  /\ logNumber' = edit.log
  /\ DeleteObsoleteFiles(bgError, version', edit.log, manifests)
  /\ phase' = "open"
  /\ edit' = Edit({}, {}, 0, 0)
  /\ acked' = acked \cup Stored(version')
  /\ durable' = durable \cup Stored(version')
  /\ UNCHANGED <<memtables, work, calls, nextFile, manifestNumber, bgError,
                 toRecover, started, stops>>

(* The new manifest or CURRENT could not be written: it is removed.        *)
OpenFails ==
  /\ "manifest" \in Faults
  /\ phase = "current" /\ stops < MaxStops
  /\ stops' = stops + 1
  /\ manifests' = Only(manifests, DOMAIN manifests \ {manifestNumber})
  /\ phase' = "closed"
  /\ Forget
  /\ UNCHANGED <<current, logs, tables, acked, durable, started>>
-----------------------------------------------------------------------------
(* DBImpl::Write, and a reader                                             *)

AddRecord(sync) ==
  /\ phase = "open" /\ writing = None /\ ~bgError
  /\ started < MaxWrites
  /\ started' = started + 1
  /\ logs' = [logs EXCEPT ![logfile] = Appended(@, started + 1)]
  /\ writing' = [id |-> started + 1, sync |-> sync]
  /\ UNCHANGED <<current, manifests, tables, phase, state, memtables, work,
                 nextFile, bgError, edit, toRecover, reading, acked,
                 durable, stops>>

(* The record is not or not completely written; the writer is told.        *)
AddRecordFails ==
  /\ "log" \in Faults
  /\ phase = "open" /\ writing = None /\ ~bgError
  /\ started < MaxWrites
  /\ started' = started + 1
  /\ logs' = [logs EXCEPT ![logfile] = Appended(@, Torn)]
  /\ UNCHANGED <<current, manifests, tables, phase, memory, acked, durable,
                 stops>>

(* The log is synced if that was asked for, the write goes into the        *)
(* memtable and is answered.                                               *)
SyncAndInsert ==
  /\ writing # None
  /\ logs' = IF writing.sync THEN [logs EXCEPT ![logfile] = Synced(@)] ELSE logs
  /\ mem' = mem \cup {writing.id}
  /\ acked' = acked \cup {writing.id}
  /\ durable' = IF writing.sync THEN durable \cup {writing.id} ELSE durable
  /\ writing' = None
  /\ UNCHANGED <<current, manifests, tables, phase, state, work, nextFile,
                 logfile, imm, bgError, edit, toRecover, reading, started,
                 stops>>

SyncFails ==
  /\ "sync" \in Faults
  /\ writing # None
  /\ writing.sync
  /\ bgError' = TRUE
  /\ writing' = None
  /\ UNCHANGED <<disk, phase, state, memtables, work, history, nextFile,
                 edit, toRecover, reading>>

(* MakeRoomForWrite: the writer starts a new log and memtable; the old     *)
(* log is closed and not synced.                                           *)
SwitchMemTable ==
  /\ phase = "open" /\ writing = None /\ ~bgError
  /\ imm = None
  /\ nextFile <= MaxFile
  /\ logs' = Create(logs, nextFile, NewFile)
  /\ logfile' = nextFile
  /\ nextFile' = nextFile + 1
  /\ imm' = mem
  /\ mem' = {}
  /\ UNCHANGED <<current, manifests, tables, phase, state, work, calls,
                 history, bgError, edit, toRecover>>

(* An iterator or a Get holds the current version.                         *)
StartRead ==
  /\ phase = "open" /\ reading = {}
  /\ reading' = version
  /\ UNCHANGED <<disk, phase, state, memtables, work, history, nextFile,
                 bgError, edit, toRecover, writing>>

EndRead ==
  /\ reading # {}
  /\ reading' = {}
  /\ UNCHANGED <<disk, phase, state, memtables, work, history, nextFile,
                 bgError, edit, toRecover, writing>>
-----------------------------------------------------------------------------
(* The background thread                                                   *)

(* MUTANT of LiveFiles: the outputs of a compaction are not protected.     *)
LiveFilesInstalled(files, outputs, base) == files \cup base \cup reading

(* The tables of all versions somebody holds, and those being written.     *)
LiveFiles(files, outputs, base) == files \cup outputs \cup base \cup reading

Base == IF compaction = None THEN {} ELSE compaction.base

Output == {compaction.output} \ {None}

Outputs == IF compaction = None THEN {} ELSE compaction.done \cup Output

(* CompactMemTable, called first or from within a compaction: the table    *)
(* gets its number and its file.  Only the former asks about errors.       *)
StartFlush ==
  /\ phase = "open" /\ imm # None /\ flush = None /\ applying = "no"
  /\ compaction = None => ~bgError
  /\ nextFile <= MaxFile
  /\ flush' = nextFile
  /\ nextFile' = nextFile + 1
  /\ pending' = pending \cup {nextFile}
  /\ tables' = IF imm = {} THEN tables ELSE Create(tables, nextFile, Torn)
  /\ UNCHANGED <<current, manifests, logs, phase, state, memtables, calls, history,
                 bgError, edit, toRecover, compaction, applying>>

(* The table is written and synced; logs before the current one will not   *)
(* be needed.                                                              *)
FinishFlush ==
  /\ flush # None /\ applying = "no"
  /\ tables' = IF imm = {} THEN tables ELSE [tables EXCEPT ![flush] = imm]
  /\ pending' = pending \ {flush}
  /\ edit' = Edit(IF imm = {} THEN {} ELSE {flush}, {}, logfile, nextFile)
  /\ applying' = "started"
  /\ UNCHANGED <<current, manifests, logs, phase, state, memtables, calls, history,
                 nextFile, bgError, toRecover, flush, compaction>>

(* The table could not be written: it is removed; the memtable stays.      *)
FlushFails ==
  /\ "table" \in Faults
  /\ flush # None /\ applying = "no"
  /\ tables' = Only(tables, DOMAIN tables \ {flush})
  /\ pending' = pending \ {flush}
  /\ flush' = None
  /\ bgError' = TRUE
  /\ UNCHANGED <<current, manifests, logs, phase, state, memtables, calls, history,
                 nextFile, edit, toRecover, compaction, applying>>

(* BackgroundCompaction picks tables to be merged.                         *)
StartCompaction(inputs) ==
  /\ phase = "open" /\ ~bgError
  /\ imm = None /\ flush = None /\ compaction = None
  /\ nextFile <= MaxFile
  /\ compaction' = [inputs |-> inputs, base |-> version, left |-> Stored(inputs),
                    done |-> {}, output |-> None]
  /\ UNCHANGED <<disk, phase, state, memtables, calls, history, nextFile,
                 pending, bgError, edit, toRecover, flush, applying>>

OpenCompactionOutputFile ==
  /\ compaction # None /\ flush = None /\ applying = "no"
  /\ Output = {}
  /\ nextFile <= MaxFile
  /\ compaction' = [compaction EXCEPT !.output = nextFile]
  /\ nextFile' = nextFile + 1
  /\ pending' = pending \cup {nextFile}
  /\ tables' = Create(tables, nextFile, Torn)
  /\ UNCHANGED <<current, manifests, logs, phase, state, memtables, calls, history,
                 bgError, edit, toRecover, flush, applying>>

(* An output is written, synced and found usable; after the last one       *)
(* InstallCompactionResults makes the edit.                                *)
FinishCompactionOutputFile(part) ==
  /\ compaction # None /\ flush = None /\ applying = "no"
  /\ Output # {} /\ Output \subseteq DOMAIN tables
  /\ part # {} /\ part \subseteq compaction.left
  /\ tables' = [tables EXCEPT ![compaction.output] = part]
  /\ compaction' = [compaction EXCEPT !.left = @ \ part, !.done = Outputs, !.output = None]
  /\ IF part = compaction.left
     THEN /\ edit' = Edit(Outputs, compaction.inputs, logNumber, nextFile)
          /\ applying' = "started"
     ELSE UNCHANGED <<edit, applying>>
  /\ UNCHANGED <<current, manifests, logs, phase, state, memtables, calls, history,
                 nextFile, pending, bgError, toRecover, flush>>

(* The end of a compaction: its outputs are no longer pending, its input   *)
(* version is released, and obsolete files are deleted.                    *)
CleanupCompaction(error, files, log, ms) ==
  /\ compaction' = None
  /\ pending' = pending \ Outputs
  /\ bgError' = error
  /\ DeleteObsoleteFiles(error, LiveFiles(files, pending', {}), log, ms)

CompactionFails ==
  /\ "table" \in Faults
  /\ compaction # None /\ flush = None /\ applying = "no"
  /\ CleanupCompaction(TRUE, version, logNumber, manifests)
  /\ UNCHANGED <<current, phase, state, memtables, calls, history, nextFile, edit,
                 toRecover, flush, applying>>

(* LogAndApply: the edit is appended to the manifest.                      *)
LogEdit ==
  /\ applying = "started"
  /\ manifests' = [manifests EXCEPT ![manifestNumber] = Appended(@, edit)]
  /\ applying' = "logged"
  /\ UNCHANGED <<current, logs, tables, phase, state, memtables, calls, history,
                 nextFile, pending, bgError, edit, toRecover, flush, compaction>>

(* MUTANT of Descriptor: the manifest is not synced.                       *)
DescriptorNotSynced == manifests

(* The descriptor after it has been synced.                                *)
Descriptor == [manifests EXCEPT ![manifestNumber] = Synced(@)]

(* The edit is on disk: the new version is installed.                      *)
Install ==
  /\ applying = "logged"
  /\ version' = (version \ edit.del) \cup edit.add
  /\ logNumber' = edit.log
  /\ applying' = "no"
  /\ edit' = Edit({}, {}, 0, 0)

InstallFlush ==
  /\ flush # None
  /\ Install
  /\ imm' = None
  /\ flush' = None
  /\ DeleteObsoleteFiles(bgError, LiveFiles(version', pending, Base), edit.log,
                         Descriptor)
  /\ UNCHANGED <<current, phase, logfile, mem, calls, history, nextFile,
                 manifestNumber, pending, bgError, toRecover, compaction>>

InstallCompaction ==
  /\ flush = None
  /\ Install
  /\ CleanupCompaction(bgError, version', edit.log, Descriptor)
  /\ UNCHANGED <<current, phase, memtables, calls, history, nextFile,
                 manifestNumber, toRecover, flush>>

(* Appending the edit, or the sync after it, fails.                        *)
ApplyFails(ms) ==
  /\ applying # "no"
  /\ applying' = "no"
  /\ edit' = Edit({}, {}, 0, 0)
  /\ IF flush # None
     THEN /\ bgError' = TRUE
          /\ flush' = None
          /\ manifests' = ms
          /\ UNCHANGED <<logs, tables, pending, compaction>>
     ELSE /\ CleanupCompaction(TRUE, version, logNumber, ms)
          /\ UNCHANGED flush
  /\ UNCHANGED <<current, phase, state, memtables, calls, history, nextFile,
                 toRecover>>

ManifestFails == "manifest" \in Faults /\ ApplyFails(manifests)

EditTorn ==
  /\ "edit" \in Faults
  /\ applying = "started"
  /\ ApplyFails([manifests EXCEPT ![manifestNumber] = Appended(@, Torn)])
-----------------------------------------------------------------------------
(* Crashes                                                                 *)

Stop ==
  /\ stops < MaxStops
  /\ stops' = stops + 1
  /\ phase # "closed"
  /\ phase' = "closed"
  /\ Forget
  /\ tables' \in {tables} \cup
       (IF phase = "logs" /\ toRecover # {} THEN {Create(tables, nextFile, Torn)} ELSE {})
  /\ UNCHANGED <<current, durable, started>>

(* The process ends, in order or not: what it wrote to files stays.        *)
ProcessCrash ==
  /\ "process" \in Crashes
  /\ Stop
  /\ UNCHANGED <<manifests, logs, acked>>

(* The ways to cut off files behind what is synced.                        *)
Cut(files) ==
  {cut \in [DOMAIN files -> UNION {0 .. Len(files[n].records) : n \in DOMAIN files}] :
     \A n \in DOMAIN files : cut[n] \in files[n].synced .. Len(files[n].records)}

Truncated(files, cut) ==
  [n \in DOMAIN files |-> [records |-> SubSeq(files[n].records, 1, cut[n]),
                           synced |-> cut[n]]]

(* The machine stops: what was not synced may be gone.                     *)
MachineCrash ==
  /\ "machine" \in Crashes
  /\ Stop
  /\ \E cut \in Cut(manifests) : manifests' = Truncated(manifests, cut)
  /\ \E cut \in Cut(logs) : logs' = Truncated(logs, cut)
  /\ acked' = durable

Open == NewDB \/ CreateCurrent \/ Recover \/ RecoverLogFile \/ NewLog \/ NewManifest
          \/ SetCurrentFile \/ OpenFails

Background ==
  \/ StartFlush \/ FinishFlush \/ FlushFails
  \/ \E inputs \in (SUBSET version) \ {{}} : StartCompaction(inputs)
  \/ OpenCompactionOutputFile \/ CompactionFails
  \/ \E part \in SUBSET Writes : FinishCompactionOutputFile(part)
  \/ LogEdit \/ InstallFlush \/ InstallCompaction \/ ManifestFails \/ EditTorn

Next ==
  \/ Open \/ Background \/ ProcessCrash \/ MachineCrash
  \/ \E sync \in SyncOptions : AddRecord(sync)
  \/ AddRecordFails \/ SyncAndInsert \/ SyncFails \/ SwitchMemTable
  \/ StartRead \/ EndRead

Spec == Init /\ [][Next]_vars
-----------------------------------------------------------------------------
(* What was answered ok is in the files, at every moment: a process that   *)
(* is killed loses nothing, and a machine that stops loses no write made   *)
(* with sync and nothing a database had shown to hold when it was opened   *)
(* (WriteOptions::sync in options.h).                                      *)
NothingLost == acked \subseteq Recoverable

(* An open database shows every write it answered, and has the file of     *)
(* each table of its version.                                              *)
NothingHidden ==
  phase = "open" =>
    /\ version \subseteq {n \in DOMAIN tables : tables[n] # Torn}
    /\ acked \subseteq Stored(version) \cup mem \cup (IF imm = None THEN {} ELSE imm)

(* The tables a reader or a compaction works on are not deleted under it,  *)
(* whatever versions were installed since (db_impl.cc:225 "Make a set of   *)
(* all of the live files").                                                *)
HeldTablesStay == reading \cup Base \subseteq DOMAIN tables

(* As long as the descriptor needs a table or a log, no step deletes it or *)
(* makes it anew: file numbers are not given out twice where the first     *)
(* use still counts, over crashes in the middle of an open and numbers     *)
(* that no descriptor ever recorded (db_impl.cc:349).                      *)
KeepsNeededFiles ==
  current # None /\ phase' # "closed" =>
    LET before == Edits(manifests[current])
        after  == Edits(manifests'[current'])
    IN  /\ \A n \in Files(before) \cap Files(after) :
             n \in DOMAIN tables' /\ tables'[n] = tables[n]
        /\ \A n \in NotOlder(logs, Max({Last(before).log, Last(after).log})) :
             n \in DOMAIN logs' /\ IsPrefix(logs[n].records, logs'[n].records)

NeededFilesStay == [][KeepsNeededFiles]_vars
=============================================================================
