----------------------------- MODULE MCProgress -----------------------------
(***************************************************************************)
(* Small instances of the two algorithms of leveldb that have to come to an*)
(* end by themselves: the reader of a log, after any crash of its writer,  *)
(* and the queue of writers, under the fairness of its threads.  A         *)
(* behaviour is one of one of them; the variables of the queue are Unused  *)
(* in those of the log, whose own are else as they are at first.           *)
(***************************************************************************)
EXTENDS LogFile

CONSTANTS
  Unused, Threads, Keys, Batches, SyncOptions, MaxWrites, MaxGets  \* WriterQueue

VARIABLES
  part,
  pc, op, writers, done, awake, group, log, synced, entries, lastSequence,
  imm, bgError, started, gets, committed, returned, syncFailed     \* WriterQueue

queueVars == <<pc, op, writers, done, awake, group, log, synced, entries,
               lastSequence, imm, bgError, started, gets, committed, returned,
               syncFailed>>
all       == <<part, queueVars, vars>>

Queue == INSTANCE WriterQueue

ASSUME ProgressAssumption == Queue!BatchesAssumption /\ SizesAssumption
-----------------------------------------------------------------------------
ProgressInit ==
  /\ Init
  /\ \/ part = "queue" /\ Queue!Init
     \/ /\ part = "log"
        /\ pc = Unused /\ op = Unused /\ writers = Unused /\ done = Unused
        /\ awake = Unused /\ group = Unused /\ log = Unused /\ synced = Unused
        /\ entries = Unused /\ lastSequence = Unused /\ imm = Unused
        /\ bgError = Unused /\ started = Unused /\ gets = Unused
        /\ committed = Unused /\ returned = Unused /\ syncFailed = Unused

OfQueue(A) == part = "queue" /\ A /\ UNCHANGED <<part, vars>>
OfLog(A)   == part = "log" /\ A /\ UNCHANGED <<part, queueVars>>

ProgressNext == OfQueue(Queue!Next) \/ OfLog(Next)

(* A thread that called goes on as long as it can, and so do the background*)
(* thread and a reader: the operating system schedules each of them.       *)
ProgressSpec ==
  /\ ProgressInit /\ [][ProgressNext]_all
  /\ WF_all(OfQueue(Queue!CompactMemTable))
  /\ \A t \in Threads : WF_all(OfQueue(Queue!Proceed(t)))
  /\ WF_all(OfLog(SkipTrailer \/ ReadPhysicalRecord))
-----------------------------------------------------------------------------
(* CompleteRecordsAreRead and RecordsAreNotMixed are those of LogFile.     *)

(* Write and Get: nobody who calls waits for ever, whoever leads and       *)
(* whatever fails.                                                         *)
CallsReturn ==
  \A t \in Threads :
    part = "queue" /\ pc[t] # "idle" ~> part = "queue" /\ pc[t] = "idle"

(* ReadRecord: the reader comes to the end of every file.                  *)
ReaderEnds == part = "log" /\ Reading ~> part = "log" /\ at = Eof
=============================================================================
