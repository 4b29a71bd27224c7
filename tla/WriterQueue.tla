---------------------------- MODULE WriterQueue ----------------------------
(***************************************************************************)
(* The write path of leveldb, in which the Firestore client keeps the      *)
(* app's queue of writes and its copies of the documents.  Threads line up *)
(* in a queue of writers.  The one at the front logs a group of batches -  *)
(* its own and those of writers behind it - syncs if it has to, and puts   *)
(* them into the memtable, all with the mutex released; then it answers    *)
(* for the whole group.  Readers use the sequence number of the last       *)
(* completed group as their snapshot.  Each action is the code between two *)
(* points where the mutex is released or taken.                            *)
(***************************************************************************)
EXTENDS Integers, SequencesExt

CONSTANTS
  Threads, Keys,
  Batches,     \* the sets of keys a batch may put; {} is the NULL batch
  SyncOptions, \* the values of WriteOptions.sync
  None,
  MaxWrites,   \* bound: writes started
  MaxGets      \* bound: reads started

Ids == 1 .. MaxWrites

BatchesAssumption ==
  /\ Batches \subseteq SUBSET Keys /\ SyncOptions \subseteq BOOLEAN
  /\ \A keys \in Batches : IsFiniteSet(keys)

ASSUME WritesAssumption ==
  /\ BatchesAssumption
  /\ None \notin {"ok", "error"}
  /\ MaxWrites \in Nat /\ MaxGets \in Nat

VARIABLES
  pc,            \* where each thread is
  op,            \* the write or read of each thread
  writers,       \* writers_: the threads waiting to write, in order
  done,          \* done[t]: w.done, with w.status "ok" or "error", or None
  awake,         \* the threads that need not wait on their condition variable
  group,         \* of the leader: how many writers it answers for, the puts,
                 \* those not yet in the memtable, and its status
  log,           \* the writes in records of the current log file
  synced,        \* the writes in records that are sure to be on the disk
  entries,       \* what the memtables and tables hold: key, sequence, write
  lastSequence,
  imm,           \* imm_ waits for the background thread, or level 0 does:
                 \* there is no room for a further memtable
  bgError,       \* bg_error_ is set
  started, gets,
  committed,     \* history: the writes whose group completed, in order
  returned,      \* history: the answers given
  syncFailed     \* history: a sync failed

vars == <<pc, op, writers, done, awake, group, log, synced, entries,
          lastSequence, imm, bgError, started, gets, committed, returned,
          syncFailed>>

db   == <<log, synced, entries, lastSequence, imm, bgError, committed,
        syncFailed>>

(* What a lookup with a snapshot finds: the newest entry that is not newer.*)
Lookup(key, snapshot) ==
  LET found == {e \in entries : e.key = key /\ e.seq <= snapshot}
  IN  IF found = {} THEN None
      ELSE (CHOOSE e \in found : \A f \in found : f.seq <= e.seq).write

(* The last completed write of a key.                                      *)
LastWrite(key) ==
  LET writing == {i \in DOMAIN committed : key \in committed[i].keys}
  IN  IF writing = {} THEN None
      ELSE committed[CHOOSE i \in writing : \A j \in writing : j <= i].id
-----------------------------------------------------------------------------
(* Write is called: the writer joins the queue, and waits unless it is     *)
(* alone there.                                                            *)
Enter(t, keys, sync) ==
  /\ pc[t] = "idle"
  /\ started < MaxWrites
  /\ started' = started + 1
  /\ op' = [op EXCEPT ![t] = [id |-> started + 1, keys |-> keys, sync |-> sync,
                              late |-> syncFailed]]
  /\ pc' = [pc EXCEPT ![t] = "queued"]
  /\ writers' = Append(writers, t)
  /\ awake' = IF writers = <<>> THEN awake \cup {t} ELSE awake
  /\ UNCHANGED <<db, done, group, gets, returned>>

(* t is awake at the front of the queue: the write is its to do.           *)
MyTurn(t) ==
  /\ pc[t] = "queued"
  /\ t \in awake
  /\ done[t] = None
  /\ writers # <<>> /\ Head(writers) = t

(* MUTANT of Dequeue: the new first writer is not signalled.               *)
DequeueSilently(n, status) ==
  LET answeredNow == {writers[i] : i \in 1 .. n}
  IN  /\ writers' = SubSeq(writers, n + 1, Len(writers))
      /\ done' = [t \in Threads |-> IF t \in answeredNow THEN status ELSE done[t]]
      /\ awake' = awake \cup answeredNow

(* The first n writers are answered; whoever is the first then is told.    *)
Dequeue(n, status) ==
  LET rest == SubSeq(writers, n + 1, Len(writers))
      answeredNow == {writers[i] : i \in 1 .. n}
  IN  /\ writers' = rest
      /\ done' = [t \in Threads |-> IF t \in answeredNow THEN status ELSE done[t]]
      /\ awake' = awake \cup answeredNow
                        \cup (IF rest = <<>> THEN {} ELSE {Head(rest)})

(* MakeRoomForWrite: the memtable has room; or it is full or must be       *)
(* changed by force, for a NULL batch, and the previous one is gone: then  *)
(* there is a new log file too, and nothing syncs the one before it.  As   *)
(* long as it is not, or level 0 has too many files, the writer waits.     *)
MakeRoomForWrite(force) ==
  /\ ~bgError
  /\ \/ ~force /\ UNCHANGED <<imm, log>>
     \/ ~imm /\ imm' = TRUE /\ log' = {}

(* A previous error is yielded, or the new log file cannot be created.     *)
MakeRoomFails(t) ==
  /\ MyTurn(t)
  /\ bgError \/ ~imm
  /\ Dequeue(1, "error")
  /\ UNCHANGED <<pc, op, group, db, started, gets, returned>>

(* MUTANT of MayJoin: a sync write may join the group of any writer.       *)
MayJoinAny(t, w) == TRUE

(* Whether the write of w may be done with that of the first writer t.     *)
MayJoin(t, w) == op[w].sync => op[t].sync

(* The numbers of writers a group may take: it ends before a sync write    *)
(* that must not join, and may end, for its size, before any batch.        *)
GroupSizes(t) ==
  {n \in 1 .. Len(writers) :
     /\ \A i \in 2 .. n : MayJoin(t, writers[i])
     /\ \/ n = Len(writers)
        \/ ~MayJoin(t, writers[n + 1])
        \/ op[writers[n + 1]].keys # {}}

Puts(t) == [i \in 1 .. Cardinality(op[t].keys) |->
              [key |-> SetToSeq(op[t].keys)[i], write |-> op[t].id]]

(* MUTANT of BuildBatchGroup: the last writer is one whose batch was found *)
(* too big to be included.                                                 *)
BuildBatchGroupTooFar(n) ==
  LET puts == FlattenSeq([i \in 1 .. Max({1, n - 1}) |-> Puts(writers[i])])
  IN  [n |-> n,
       puts |-> [i \in DOMAIN puts |-> [key |-> puts[i].key,
                                        seq |-> lastSequence + i,
                                        write |-> puts[i].write]],
       left |-> 1, status |-> "ok", syncError |-> FALSE]

(* MUTANT of BuildBatchGroup: the sequence numbers start with the last.    *)
BuildBatchGroupFromLast(n) ==
  LET puts == FlattenSeq([i \in 1 .. n |-> Puts(writers[i])])
  IN  [n |-> n,
       puts |-> [i \in DOMAIN puts |-> [key |-> puts[i].key,
                                        seq |-> lastSequence + i - 1,
                                        write |-> puts[i].write]],
       left |-> 1, status |-> "ok", syncError |-> FALSE]

(* BuildBatchGroup: the batches of the first n writers, one put after the  *)
(* other, with the sequence numbers after the last.                        *)
BuildBatchGroup(n) ==
  LET puts == FlattenSeq([i \in 1 .. n |-> Puts(writers[i])])
  IN  [n |-> n,
       puts |-> [i \in DOMAIN puts |-> [key |-> puts[i].key,
                                        seq |-> lastSequence + i,
                                        write |-> puts[i].write]],
       left |-> 1, status |-> "ok", syncError |-> FALSE]

Lead(t) ==
  /\ MyTurn(t)
  /\ op[t].keys # {}
  /\ MakeRoomForWrite(FALSE)
  /\ \E n \in GroupSizes(t) : group' = BuildBatchGroup(n)
  /\ pc' = [pc EXCEPT ![t] = "append"]
  /\ UNCHANGED <<op, writers, done, awake, synced, entries, lastSequence,
                 bgError, started, gets, committed, returned,
                 syncFailed>>

(* A NULL batch only makes room.                                           *)
LeadNull(t) ==
  /\ MyTurn(t)
  /\ op[t].keys = {}
  /\ MakeRoomForWrite(TRUE)
  /\ Dequeue(1, "ok")
  /\ UNCHANGED <<pc, op, group, synced, entries, lastSequence, bgError,
                 started, gets, committed, returned,
                 syncFailed>>
-----------------------------------------------------------------------------
(* With the mutex released: the group is logged, synced, and inserted.     *)
Logged == {group.puts[i].write : i \in DOMAIN group.puts}

Go(t, label) == pc' = [pc EXCEPT ![t] = label]

AddRecord(t) ==
  /\ pc[t] = "append"
  /\ log' = log \cup Logged
  /\ Go(t, IF op[t].sync THEN "sync" ELSE "insert")
  /\ UNCHANGED <<op, writers, done, awake, group, synced, entries, lastSequence,
                 imm, bgError, started, gets, committed, returned,
                 syncFailed>>

(* The record may be in the file or not.                                   *)
AddRecordFails(t) ==
  /\ pc[t] = "append"
  /\ log' \in {log, log \cup Logged}
  /\ group' = [group EXCEPT !.status = "error"]
  /\ Go(t, "finish")
  /\ UNCHANGED <<op, writers, done, awake, synced, entries, lastSequence,
                 imm, bgError, started, gets, committed, returned,
                 syncFailed>>

(* The current log file is synced, with all its records.                   *)
Sync(t) ==
  /\ pc[t] = "sync"
  /\ synced' = synced \cup log
  /\ Go(t, "insert")
  /\ UNCHANGED <<op, writers, done, awake, group, log, entries, lastSequence,
                 imm, bgError, started, gets, committed, returned,
                 syncFailed>>

SyncFails(t) ==
  /\ pc[t] = "sync"
  /\ group' = [group EXCEPT !.status = "error", !.syncError = TRUE]
  /\ syncFailed' = TRUE
  /\ Go(t, "finish")
  /\ UNCHANGED <<op, writers, done, awake, log, synced, entries, lastSequence,
                 imm, bgError, started, gets, committed, returned>>

(* InsertInto: one put of the group goes into the memtable.                *)
InsertInto(t) ==
  /\ pc[t] = "insert"
  /\ group.left <= Len(group.puts)
  /\ entries' = entries \cup {group.puts[group.left]}
  /\ group' = [group EXCEPT !.left = @ + 1]
  /\ Go(t, IF group.left = Len(group.puts) THEN "finish" ELSE "insert")
  /\ UNCHANGED <<op, writers, done, awake, log, synced, lastSequence, imm,
                 bgError, started, gets, committed, returned,
                 syncFailed>>

(* History: the writes of the group the leader answers for.                *)
Completed ==
  FlattenSeq([i \in 1 .. group.n |->
                IF op[writers[i]].id \in Logged
                THEN << [id |-> op[writers[i]].id, keys |-> op[writers[i]].keys] >>
                ELSE <<>>])

(* MUTANT of Finish: a failed sync is treated like a failed append.        *)
FinishForgets(t) ==
  /\ pc[t] = "finish"
  /\ lastSequence' = lastSequence + Len(group.puts)
  /\ committed' = IF group.status = "ok" THEN committed \o Completed
                                         ELSE committed
  /\ Dequeue(group.n, group.status)
  /\ Go(t, "queued")
  /\ group' = None
  /\ UNCHANGED <<op, log, synced, entries, imm, bgError, started, gets, returned,
                 syncFailed>>

(* With the mutex again: an error of the sync stops all further writes,    *)
(* the sequence numbers are used up, and the group is answered.            *)
Finish(t) ==
  /\ pc[t] = "finish"
  /\ bgError' = (bgError \/ group.syncError)
  /\ lastSequence' = lastSequence + Len(group.puts)
  /\ committed' = IF group.status = "ok" THEN committed \o Completed
                                         ELSE committed
  /\ Dequeue(group.n, group.status)
  /\ Go(t, "queued")
  /\ group' = None
  /\ UNCHANGED <<op, log, synced, entries, imm, started, gets, returned,
                 syncFailed>>

Return(t) ==
  /\ pc[t] = "queued"
  /\ t \in awake
  /\ done[t] # None
  /\ Go(t, "idle")
  /\ op' = [op EXCEPT ![t] = None]
  /\ returned' = returned \cup {[write |-> op[t], status |-> done[t]]}
  /\ done' = [done EXCEPT ![t] = None]
  /\ awake' = awake \ {t}
  /\ UNCHANGED <<db, writers, group, started, gets>>
-----------------------------------------------------------------------------
(* MUTANT of StartGet: the newest entries are read, without a snapshot.    *)
StartGetNewest(t, key) ==
  /\ pc[t] = "idle"
  /\ gets < MaxGets
  /\ gets' = gets + 1
  /\ Go(t, "reading")
  /\ op' = [op EXCEPT ![t] = [key |-> key, snapshot |-> lastSequence + 9,
                              expected |-> LastWrite(key)]]
  /\ UNCHANGED <<db, writers, done, awake, group, started, returned>>

(* Get takes its snapshot with the mutex, and looks up without it.         *)
StartGet(t, key) ==
  /\ pc[t] = "idle"
  /\ gets < MaxGets
  /\ gets' = gets + 1
  /\ Go(t, "reading")
  /\ op' = [op EXCEPT ![t] = [key |-> key, snapshot |-> lastSequence,
                              expected |-> LastWrite(key)]]
  /\ UNCHANGED <<db, writers, done, awake, group, started, returned>>

EndGet(t) ==
  /\ pc[t] = "reading"
  /\ Go(t, "idle")
  /\ op' = [op EXCEPT ![t] = None]
  /\ UNCHANGED <<db, writers, done, awake, group, started, gets, returned>>

(* The background thread writes the full memtable to a table and merges    *)
(* tables until level 0 has room for one more, or it fails and records the *)
(* error; either way it wakes those who wait for it.                       *)
CompactMemTable ==
  /\ imm /\ ~bgError
  /\ \/ imm' = FALSE /\ UNCHANGED bgError
     \/ bgError' = TRUE /\ UNCHANGED imm
  /\ UNCHANGED <<pc, op, writers, done, awake, group, log, synced, entries,
                 lastSequence, started, gets, committed, returned,
                 syncFailed>>

Init ==
  /\ pc = [t \in Threads |-> "idle"]
  /\ op = [t \in Threads |-> None]
  /\ writers = <<>>
  /\ done = [t \in Threads |-> None]
  /\ awake = {}
  /\ group = None
  /\ log = {}
  /\ synced = {}
  /\ entries = {}
  /\ lastSequence = 0
  /\ imm = FALSE
  /\ bgError = FALSE
  /\ started = 0
  /\ gets = 0
  /\ committed = <<>>
  /\ returned = {}
  /\ syncFailed = FALSE

(* What a thread does once it has called Write or Get.                     *)
Proceed(t) ==
  \/ MakeRoomFails(t) \/ Lead(t) \/ LeadNull(t)
  \/ AddRecord(t) \/ AddRecordFails(t) \/ Sync(t) \/ SyncFails(t)
  \/ InsertInto(t) \/ Finish(t) \/ Return(t) \/ EndGet(t)

Next ==
  \/ \E t \in Threads :
       \/ \E keys \in Batches, sync \in SyncOptions : Enter(t, keys, sync)
       \/ \E key \in Keys : StartGet(t, key)
       \/ Proceed(t)
  \/ CompactMemTable

Spec == Init /\ [][Next]_vars
-----------------------------------------------------------------------------
(* Each thread is in the queue at most once, one thread at most works with *)
(* the mutex released, sequence numbers are used once, and those up to     *)
(* lastSequence are exactly those of completed writes.                     *)
TypeOK ==
  /\ writers \in Seq(Threads)
  /\ \A t \in Threads : Cardinality({i \in DOMAIN writers : writers[i] = t}) <= 1
  /\ \A e, f \in entries : e.seq = f.seq => e = f
  /\ \A e \in entries :
       e.seq <= lastSequence <=> \E i \in DOMAIN committed : committed[i].id = e.write
  /\ log \cup synced \subseteq 1 .. started
  /\ Cardinality({t \in Threads :
       pc[t] \in {"append", "sync", "insert", "finish"}}) <= 1

(* While a leader inserts the puts of a group one by one, with the mutex   *)
(* released, a reader goes on finding what was completed when it started:  *)
(* neither part of a group nor what the group replaces goes missing.       *)
ReadsAreStable ==
  \A t \in Threads :
    pc[t] = "reading" => Lookup(op[t].key, op[t].snapshot) = op[t].expected

Answers(status) == {r.write : r \in {x \in returned : x.status = status}}

(* A sync write that was answered ok is on the disk, whoever logged it.    *)
SyncedWhenAnswered ==
  \A w \in Answers("ok") :
    w.sync /\ w.keys # {} => w.id \in synced

(* After a failed sync all future writes fail.                             *)
FutureWritesFail == \A w \in Answers("ok") : ~w.late

(* Writes are atomic, in one order, and answered truly.                    *)
Store == INSTANCE AtomicStore WITH
  Writes   <- Ids,
  pending  <- {op[t].id : t \in {u \in Threads :
                 pc[u] \notin {"idle", "reading"} /\ op[u].keys # {}}},
  applied  <- [i \in DOMAIN committed |-> committed[i].id],
  answered <- {<<r.write.id, r.status = "ok">> :
                 r \in {x \in returned : x.write.keys # {}}}

WritesAreAtomic == Store!Spec
=============================================================================
