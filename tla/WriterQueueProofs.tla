------------------------- MODULE WriterQueueProofs -------------------------
(***************************************************************************)
(* The write path of leveldb, for any threads, keys, batches and numbers   *)
(* of writes and reads.  First the queue: one thread at most works with    *)
(* the mutex released, no one is left asleep, and after a failed sync no   *)
(* later write succeeds (IInv).  Then what is written: the queue keeps     *)
(* what AtomicStore promises (SInv).                                       *)
(***************************************************************************)
EXTENDS WriterQueue, FlattenProofs, FiniteSetTheorems, SequenceTheorems, TLAPS

Working == {"append", "sync", "insert", "finish"}

(* group as a record of whatever values.                                   *)
GroupFields ==
  group = [n |-> group.n, puts |-> group.puts, left |-> group.left,
           status |-> group.status, syncError |-> group.syncError]

Types ==
  /\ pc \in [Threads -> {"idle", "queued", "reading"} \cup Working]
  /\ DOMAIN op = Threads
  /\ DOMAIN done = Threads
  /\ writers \in Seq(Threads)

(* Who is in the queue is there once, has called Write and has no answer;  *)
(* the first is awake.                                                     *)
Queue ==
  /\ \A i, j \in 1 .. Len(writers) : writers[i] = writers[j] => i = j
  /\ \A i \in 1 .. Len(writers) :
       /\ pc[writers[i]] \in {"queued"} \cup Working
       /\ done[writers[i]] = None
  /\ writers # <<>> => writers[1] \in awake

(* Who works with the mutex released is the first of the queue, and answers*)
(* for writers that are in it.                                             *)
Leader ==
  \A t \in Threads : pc[t] \in Working =>
    /\ writers # <<>> /\ writers[1] = t
    /\ GroupFields
    /\ group.n \in 1 .. Len(writers)

(* A failed sync is known to the leader until it is recorded for all.      *)
Failure ==
  /\ syncFailed \in BOOLEAN
  /\ \A t \in Threads : pc[t] \in Working /\ syncFailed =>
       group.syncError = TRUE /\ group.status = "error"
  /\ (\A t \in Threads : pc[t] \notin Working) /\ syncFailed => bgError = TRUE
  /\ \A t \in Threads :
       pc[t] \in {"queued"} \cup Working /\ op[t].late => syncFailed

(* Who has an answer is awake to take it; ok only if it did not come late. *)
Answered ==
  \A t \in Threads : done[t] # None =>
    /\ pc[t] = "queued"
    /\ t \in awake
    /\ done[t] = "ok" => ~op[t].late

IInv == Types /\ Queue /\ Leader /\ Failure /\ Answered /\ FutureWritesFail

LEMMA InitIInv == Init => IInv
<1> SUFFICES ASSUME Init PROVE IInv
  OBVIOUS
<1>1. writers = <<>> /\ writers \in Seq(Threads) /\ Len(writers) = 0
  BY DEF Init
<1>2. \A t \in Threads : pc[t] = "idle" /\ done[t] = None
  BY DEF Init
<1>3. Types
  BY <1>1 DEF Init, Types
<1>4. Queue
  BY <1>1 DEF Queue
<1>5. Leader
  BY <1>2 DEF Leader, Working
<1>6. Failure
  BY <1>2 DEF Init, Failure, Working
<1>7. Answered
  BY <1>2 DEF Answered
<1>8. FutureWritesFail
  BY DEF Init, FutureWritesFail, Answers
<1> QED
  BY <1>3, <1>4, <1>5, <1>6, <1>7, <1>8 DEF IInv

(* The first n writers are answered and the others move up: who was the    *)
(* first of them is awake.                                                 *)
LEMMA DequeueMovesUp ==
  ASSUME Types, Queue, NEW n \in 1 .. Len(writers), NEW s, Dequeue(n, s)
  PROVE  /\ writers' \in Seq(Threads)
         /\ Len(writers') = Len(writers) - n
         /\ \A i \in 1 .. Len(writers') :
              /\ i + n \in 1 .. Len(writers)
              /\ writers'[i] = writers[i + n]
              /\ done'[writers'[i]] = None
         /\ \A i, j \in 1 .. Len(writers') : writers'[i] = writers'[j] => i = j
         /\ writers' # <<>> => writers'[1] \in awake'
         /\ DOMAIN done' = Threads
         /\ awake \subseteq awake'
         /\ \A t \in Threads :
              \/ done'[t] = done[t]
              \/ /\ \E i \in 1 .. Len(writers) : writers[i] = t
                 /\ done'[t] = s /\ t \in awake'
<1> DEFINE answeredNow == {writers[i] : i \in 1 .. n}
           rest == SubSeq(writers, n + 1, Len(writers))
<1>1. /\ writers \in Seq(Threads) /\ Len(writers) \in Nat
      /\ n \in Nat /\ 1 <= n /\ n <= Len(writers)
  BY DEF Types
<1>2. /\ rest \in Seq(Threads) /\ Len(rest) = Len(writers) - n
      /\ \A i \in 1 .. Len(writers) - n : rest[i] = writers[i + n]
  BY <1>1
<1>3. /\ writers' = rest
      /\ done' = [t \in Threads |-> IF t \in answeredNow THEN s ELSE done[t]]
      /\ awake' = awake \cup answeredNow
                        \cup (IF rest = <<>> THEN {} ELSE {Head(rest)})
  BY DEF Dequeue
<1>9. \A t : t \in answeredNow <=> \E k \in 1 .. n : writers[k] = t
  OBVIOUS
<1> HIDE DEF rest, answeredNow
<1>4. \A i \in 1 .. Len(rest) : i + n \in 1 .. Len(writers) /\ rest[i] = writers[i + n]
  BY <1>1, <1>2
<1>5. \A i \in 1 .. Len(rest) : rest[i] \in Threads /\ rest[i] \notin answeredNow
  <2> SUFFICES ASSUME NEW i \in 1 .. Len(rest)
               PROVE  rest[i] \in Threads /\ rest[i] \notin answeredNow
    OBVIOUS
  <2>1. rest[i] \in Threads
    BY <1>2
  <2>2. ASSUME NEW k \in 1 .. n PROVE writers[k] # rest[i]
    <3>1. k \in 1 .. Len(writers) /\ i + n \in 1 .. Len(writers) /\ k # i + n
      BY <1>1, <1>4
    <3> QED
      BY <3>1, <1>4 DEF Queue
  <2> QED
    BY <2>1, <2>2, <1>9
<1>6. \A i \in 1 .. Len(rest) : done'[rest[i]] = None
  <2> SUFFICES ASSUME NEW i \in 1 .. Len(rest) PROVE done'[rest[i]] = None
    OBVIOUS
  <2>1. done'[rest[i]] = done[rest[i]]
    BY <1>3, <1>5
  <2>2. done[rest[i]] = None
    BY <1>4 DEF Queue
  <2> QED
    BY <2>1, <2>2
<1>7. \A i, j \in 1 .. Len(rest) : rest[i] = rest[j] => i = j
  <2> SUFFICES ASSUME NEW i \in 1 .. Len(rest), NEW j \in 1 .. Len(rest),
                      rest[i] = rest[j]
               PROVE  i = j
    OBVIOUS
  <2>1. /\ i + n \in 1 .. Len(writers) /\ j + n \in 1 .. Len(writers)
        /\ writers[i + n] = writers[j + n]
    BY <1>4
  <2>2. i + n = j + n
    BY <2>1 DEF Queue
  <2> QED
    BY <2>2, <1>1
<1>8. rest # <<>> => rest[1] \in awake'
  BY <1>2, <1>3
<1>10. \A t \in answeredNow : \E i \in 1 .. Len(writers) : writers[i] = t
  BY <1>1, <1>9
<1>11. \A t \in Threads : \/ done'[t] = done[t]
                         \/ /\ \E i \in 1 .. Len(writers) : writers[i] = t
                            /\ done'[t] = s /\ t \in awake'
  BY <1>3, <1>10
<1> QED
  BY <1>2, <1>3, <1>4, <1>6, <1>7, <1>8, <1>11

(* A writer whose turn it is is the first, so that no other one is at work.*)
LEMMA NobodyWorks ==
  ASSUME IInv, NEW t \in Threads, MyTurn(t)
  PROVE  /\ writers # <<>> /\ Len(writers) \in Nat /\ 1 \in 1 .. Len(writers)
         /\ writers[1] = t /\ pc[t] = "queued" /\ t \in awake
         /\ \A u \in Threads : pc[u] \notin Working
<1>1. writers # <<>> /\ Head(writers) = t /\ writers \in Seq(Threads) /\ pc[t] = "queued"
      /\ t \in awake
  BY DEF MyTurn, IInv, Types
<1>2. Len(writers) \in Nat /\ 1 \in 1 .. Len(writers) /\ writers[1] = t
  BY <1>1
<1>3. \A u \in Threads : pc[u] \in Working => u = t
  BY <1>2 DEF IInv, Leader
<1> QED
  BY <1>1, <1>2, <1>3 DEF Working

(* The first of the queue is answered by itself: with an error, or while   *)
(* no error is recorded, so that it did not come late.                     *)
LEMMA FirstAnswered ==
  ASSUME IInv, NEW t \in Threads, MyTurn(t),
         NEW s \in {"ok", "error"}, Dequeue(1, s), s = "ok" => ~bgError,
         UNCHANGED <<pc, op, group, bgError, syncFailed, returned>>
  PROVE  IInv'
<1>1. /\ 1 \in 1 .. Len(writers) /\ writers[1] = t
      /\ \A u \in Threads : pc[u] \notin Working
  BY NobodyWorks
<1>2. /\ writers' \in Seq(Threads) /\ Len(writers') = Len(writers) - 1
      /\ \A i \in 1 .. Len(writers') :
           /\ i + 1 \in 1 .. Len(writers) /\ writers'[i] = writers[i + 1]
           /\ done'[writers'[i]] = None
      /\ \A i, j \in 1 .. Len(writers') : writers'[i] = writers'[j] => i = j
      /\ writers' # <<>> => writers'[1] \in awake'
      /\ DOMAIN done' = Threads /\ awake \subseteq awake'
      /\ \A u \in Threads :
           \/ done'[u] = done[u]
           \/ /\ \E i \in 1 .. Len(writers) : writers[i] = u
              /\ done'[u] = s /\ u \in awake'
  BY <1>1, DequeueMovesUp DEF IInv
<1>3. Types'
  BY <1>2 DEF IInv, Types
<1>4. Queue'
  BY <1>2 DEF IInv, Queue
<1>5. Leader'
  BY <1>1 DEF Leader
<1>6. Failure'
  BY <1>1 DEF IInv, Failure
<1>7. Answered'
  <2> SUFFICES ASSUME NEW u \in Threads, done'[u] # None
               PROVE  pc[u] = "queued" /\ u \in awake' /\ (done'[u] = "ok" => ~op[u].late)
    BY DEF Answered
  <2>1. CASE done'[u] = done[u]
    BY <2>1, <1>2 DEF IInv, Answered
  <2>2. CASE /\ \E i \in 1 .. Len(writers) : writers[i] = u
             /\ done'[u] = s /\ u \in awake'
    <3>1. pc[u] = "queued"
      BY <2>2, <1>1 DEF IInv, Queue
    <3>2. s = "ok" => ~op[u].late
      BY <3>1, <1>1 DEF IInv, Failure
    <3> QED
      BY <2>2, <3>1, <3>2
  <2> QED
    BY <2>1, <2>2, <1>2
<1>8. FutureWritesFail'
  BY DEF IInv, FutureWritesFail, Answers
<1> QED
  BY <1>3, <1>4, <1>5, <1>6, <1>7, <1>8 DEF IInv

(* A step of the leader that goes on working: a sync that fails is noted   *)
(* in its group.                                                           *)
LEMMA LeaderGoesOn ==
  ASSUME IInv, NEW t \in Threads, pc[t] \in Working, NEW label \in Working,
         pc' = [pc EXCEPT ![t] = label],
         UNCHANGED <<op, writers, done, awake, bgError, returned>>,
         GroupFields', group'.n = group.n,
         syncFailed' \in BOOLEAN, syncFailed => syncFailed',
         syncFailed' => group'.syncError = TRUE /\ group'.status = "error"
  PROVE  IInv'
<1>1. \A u \in Threads : /\ pc'[u] \in Working <=> pc[u] \in Working
                         /\ pc[u] \notin Working => pc'[u] = pc[u]
  BY DEF IInv, Types
<1>2. Types'
  BY DEF IInv, Types
<1>3. Queue'
  BY <1>1 DEF IInv, Queue, Types
<1>4. Leader'
  BY <1>1 DEF IInv, Leader
<1>5. Failure'
  BY <1>1 DEF IInv, Failure, Types
<1>6. Answered'
  BY <1>1 DEF IInv, Answered, Working
<1>7. FutureWritesFail'
  BY DEF IInv, FutureWritesFail, Answers
<1> QED
  BY <1>2, <1>3, <1>4, <1>5, <1>6, <1>7 DEF IInv

LEMMA EnterKeeps ==
  ASSUME IInv, NEW t \in Threads, NEW keys, NEW sync, Enter(t, keys, sync)
  PROVE  IInv'
<1> DEFINE o == [id |-> started + 1, keys |-> keys, sync |-> sync, late |-> syncFailed]
<1>1. /\ pc[t] = "idle" /\ pc' = [pc EXCEPT ![t] = "queued"]
      /\ op' = [op EXCEPT ![t] = o]
      /\ writers' = Append(writers, t)
      /\ awake' = IF writers = <<>> THEN awake \cup {t} ELSE awake
      /\ UNCHANGED <<group, done, bgError, syncFailed, returned>>
  BY DEF Enter, db
<1>2. o.late = syncFailed
  OBVIOUS
<1> HIDE DEF o
<1>3. /\ writers \in Seq(Threads) /\ Len(writers) \in Nat
      /\ writers' \in Seq(Threads) /\ Len(writers') = Len(writers) + 1
      /\ \A i \in 1 .. Len(writers) : writers'[i] = writers[i]
      /\ writers'[Len(writers) + 1] = t
  BY <1>1 DEF IInv, Types
<1>4. /\ pc \in [Threads -> {"idle", "queued", "reading"} \cup Working]
      /\ pc' \in [Threads -> {"idle", "queued", "reading"} \cup Working]
      /\ pc'[t] = "queued" /\ \A u \in Threads \ {t} : pc'[u] = pc[u]
  BY <1>1 DEF IInv, Types
<1>5. op'[t] = o /\ (\A u \in Threads \ {t} : op'[u] = op[u]) /\ DOMAIN op' = Threads
  BY <1>1 DEF IInv, Types
<1>6. done[t] = None
  BY <1>1 DEF IInv, Answered
<1>7. \A i \in 1 .. Len(writers) : writers[i] # t /\ writers[i] \in Threads
  BY <1>1, <1>3 DEF IInv, Queue, Working
<1>8. Types'
  BY <1>1, <1>3, <1>4, <1>5 DEF IInv, Types
<1>9. Queue'
  <2>1. \A i, j \in 1 .. Len(writers') : writers'[i] = writers'[j] => i = j
    <3> SUFFICES ASSUME NEW i \in 1 .. Len(writers) + 1, NEW j \in 1 .. Len(writers) + 1,
                        writers'[i] = writers'[j]
                 PROVE  i = j
      BY <1>3
    <3>1. CASE i \in 1 .. Len(writers) /\ j \in 1 .. Len(writers)
      BY <3>1, <1>3 DEF IInv, Queue
    <3>2. CASE i = Len(writers) + 1 \/ j = Len(writers) + 1
      BY <3>2, <1>3, <1>7
    <3> QED
      BY <3>1, <3>2, <1>3
  <2>2. \A i \in 1 .. Len(writers') :
          pc'[writers'[i]] \in {"queued"} \cup Working /\ done'[writers'[i]] = None
    <3> SUFFICES ASSUME NEW i \in 1 .. Len(writers) + 1
                 PROVE  pc'[writers'[i]] \in {"queued"} \cup Working /\ done'[writers'[i]] = None
      BY <1>3
    <3>1. CASE i \in 1 .. Len(writers)
      BY <3>1, <1>1, <1>3, <1>4, <1>7 DEF IInv, Queue
    <3>2. CASE i = Len(writers) + 1
      BY <3>2, <1>1, <1>3, <1>4, <1>6
    <3> QED
      BY <3>1, <3>2, <1>3
  <2>3. writers'[1] \in awake'
    <3>1. CASE writers = <<>>
      BY <3>1, <1>1, <1>3
    <3>2. CASE writers # <<>>
      BY <3>2, <1>1, <1>3 DEF IInv, Queue
    <3> QED
      BY <3>1, <3>2
  <2> QED
    BY <2>1, <2>2, <2>3 DEF Queue
<1>10. Leader'
  <2> SUFFICES ASSUME NEW u \in Threads, pc'[u] \in Working
               PROVE  /\ writers' # <<>> /\ writers'[1] = u /\ GroupFields'
                      /\ group'.n \in 1 .. Len(writers')
    BY DEF Leader
  <2>1. u # t /\ pc[u] \in Working
    BY <1>4 DEF Working
  <2>2. writers # <<>> /\ writers[1] = u /\ GroupFields /\ group.n \in 1 .. Len(writers)
    BY <2>1 DEF IInv, Leader
  <2> QED
    BY <2>2, <1>1, <1>3 DEF GroupFields
<1>11. Failure'
  <2>1. \A u \in Threads : pc'[u] \in Working <=> pc[u] \in Working
    BY <1>1, <1>4 DEF Working
  <2>2. \A u \in Threads : pc'[u] \in {"queued"} \cup Working /\ op'[u].late => syncFailed
    BY <1>2, <1>4, <1>5 DEF IInv, Failure
  <2> QED
    BY <2>1, <2>2, <1>1 DEF IInv, Failure
<1>12. Answered'
  BY <1>1, <1>4, <1>5, <1>6 DEF IInv, Answered
<1>13. FutureWritesFail'
  BY <1>1 DEF IInv, FutureWritesFail, Answers
<1> QED
  BY <1>8, <1>9, <1>10, <1>11, <1>12, <1>13 DEF IInv

(* Without a recorded error there was no failed sync: the group may succeed.*)
LEMMA LeadKeeps ==
  ASSUME IInv, NEW t \in Threads, Lead(t) PROVE IInv'
<1>1. /\ writers # <<>> /\ writers[1] = t /\ Len(writers) \in Nat /\ pc[t] = "queued"
      /\ \A u \in Threads : pc[u] \notin Working
  BY NobodyWorks DEF Lead
<1>2. /\ pc' = [pc EXCEPT ![t] = "append"] /\ ~bgError
      /\ UNCHANGED <<op, writers, done, awake, bgError, syncFailed, returned>>
  BY DEF Lead, MakeRoomForWrite
<1>3. PICK n \in GroupSizes(t) : group' = BuildBatchGroup(n)
  BY DEF Lead
<1>4. GroupFields' /\ group'.n = n /\ n \in 1 .. Len(writers)
  BY <1>3 DEF GroupFields, BuildBatchGroup, GroupSizes
<1>5. \A u \in Threads : pc'[u] = IF u = t THEN "append" ELSE pc[u]
  BY <1>2 DEF IInv, Types
<1>6. ~syncFailed
  BY <1>1, <1>2 DEF IInv, Failure
<1>7. Types'
  BY <1>2 DEF IInv, Types, Working
<1>8. Queue'
  BY <1>2, <1>5 DEF IInv, Queue, Types, Working
<1>9. Leader'
  BY <1>1, <1>2, <1>4, <1>5 DEF Leader
<1>10. Failure'
  BY <1>1, <1>2, <1>5, <1>6 DEF IInv, Failure
<1>11. Answered'
  <2>1. done[t] = None
    BY DEF Lead, MyTurn
  <2> QED
    BY <2>1, <1>2, <1>5 DEF IInv, Answered
<1>12. FutureWritesFail'
  BY <1>2 DEF IInv, FutureWritesFail, Answers
<1> QED
  BY <1>7, <1>8, <1>9, <1>10, <1>11, <1>12 DEF IInv

(* The leader records a failed sync before it answers, and it answers ok   *)
(* only if there was none: no writer of its group came after one.          *)
LEMMA FinishKeeps ==
  ASSUME IInv, NEW t \in Threads, Finish(t) PROVE IInv'
<1>1. /\ pc[t] = "finish" /\ pc' = [pc EXCEPT ![t] = "queued"]
      /\ bgError' = (bgError \/ group.syncError)
      /\ Dequeue(group.n, group.status)
      /\ UNCHANGED <<op, syncFailed, returned>>
  BY DEF Finish, Go
<1>2. /\ writers # <<>> /\ writers[1] = t /\ group.n \in 1 .. Len(writers)
      /\ Len(writers) \in Nat /\ 1 \in 1 .. Len(writers)
  BY <1>1 DEF IInv, Leader, Working, Types
<1>3. /\ writers' \in Seq(Threads) /\ Len(writers') = Len(writers) - group.n
      /\ \A i \in 1 .. Len(writers') :
           /\ i + group.n \in 1 .. Len(writers) /\ writers'[i] = writers[i + group.n]
           /\ done'[writers'[i]] = None
      /\ \A i, j \in 1 .. Len(writers') : writers'[i] = writers'[j] => i = j
      /\ writers' # <<>> => writers'[1] \in awake'
      /\ DOMAIN done' = Threads /\ awake \subseteq awake'
      /\ \A u \in Threads :
           \/ done'[u] = done[u]
           \/ /\ \E i \in 1 .. Len(writers) : writers[i] = u
              /\ done'[u] = group.status /\ u \in awake'
  BY <1>1, <1>2, DequeueMovesUp DEF IInv
<1>4. /\ \A u \in Threads : pc'[u] = IF u = t THEN "queued" ELSE pc[u]
      /\ \A u \in Threads : pc'[u] \notin Working
      /\ pc' \in [Threads -> {"idle", "queued", "reading"} \cup Working]
  <2>1. \A u \in Threads : pc[u] \in Working => u = t
    BY <1>2 DEF IInv, Leader
  <2> QED
    BY <2>1, <1>1 DEF IInv, Types, Working
<1>5. \A i \in 1 .. Len(writers) : writers[i] \in Threads /\ pc'[writers[i]] = "queued"
  <2> SUFFICES ASSUME NEW i \in 1 .. Len(writers)
               PROVE  writers[i] \in Threads /\ pc'[writers[i]] = "queued"
    OBVIOUS
  <2>1. writers[i] \in Threads
    BY DEF IInv, Types
  <2>2. pc[writers[i]] \in {"queued"} \cup Working
    BY DEF IInv, Queue
  <2> QED
    BY <2>1, <2>2, <1>4
<1>6. syncFailed => group.syncError = TRUE /\ group.status = "error"
  BY <1>1 DEF IInv, Failure, Working
<1>7. Types'
  BY <1>1, <1>3, <1>4 DEF IInv, Types
<1>8. Queue'
  <2>1. \A i \in 1 .. Len(writers') : pc'[writers'[i]] = "queued"
    BY <1>3, <1>5
  <2> QED
    BY <2>1, <1>3 DEF Queue
<1>9. Leader'
  BY <1>4 DEF Leader
<1>10. Failure'
  <2>1. \A u \in Threads : pc'[u] \in {"queued"} /\ op[u].late => syncFailed
    BY <1>1, <1>4 DEF IInv, Failure, Working
  <2>2. syncFailed => bgError' = TRUE
    BY <1>1, <1>6
  <2> QED
    BY <2>1, <2>2, <1>1, <1>4 DEF IInv, Failure
<1>11. Answered'
  <2> SUFFICES ASSUME NEW u \in Threads, done'[u] # None
               PROVE  pc'[u] = "queued" /\ u \in awake' /\ (done'[u] = "ok" => ~op[u].late)
    BY <1>1 DEF Answered
  <2>1. CASE done'[u] = done[u]
    BY <2>1, <1>3, <1>4 DEF IInv, Answered
  <2>2. CASE /\ \E i \in 1 .. Len(writers) : writers[i] = u
             /\ done'[u] = group.status /\ u \in awake'
    <3>1. pc'[u] = "queued" /\ pc[u] \in {"queued"} \cup Working
      BY <2>2, <1>5 DEF IInv, Queue
    <3>2. op[u].late => group.status = "error"
      BY <3>1, <1>6 DEF IInv, Failure
    <3> QED
      BY <2>2, <3>1, <3>2
  <2> QED
    BY <2>1, <2>2, <1>3
<1>12. FutureWritesFail'
  BY <1>1 DEF IInv, FutureWritesFail, Answers
<1> QED
  BY <1>7, <1>8, <1>9, <1>10, <1>11, <1>12 DEF IInv

(* Who takes its answer is no longer in the queue.                         *)
LEMMA ReturnKeeps ==
  ASSUME IInv, NEW t \in Threads, Return(t) PROVE IInv'
<1>1. /\ pc[t] = "queued" /\ pc' = [pc EXCEPT ![t] = "idle"] /\ done[t] # None
      /\ op' = [op EXCEPT ![t] = None] /\ done' = [done EXCEPT ![t] = None]
      /\ awake' = awake \ {t}
      /\ returned' = returned \cup {[write |-> op[t], status |-> done[t]]}
      /\ UNCHANGED <<writers, group, bgError, syncFailed>>
  BY DEF Return, Go, db
<1>2. /\ pc'[t] = "idle" /\ done'[t] = None /\ DOMAIN op' = Threads
      /\ DOMAIN done' = Threads
      /\ \A u \in Threads \ {t} : pc'[u] = pc[u] /\ op'[u] = op[u] /\ done'[u] = done[u]
      /\ pc' \in [Threads -> {"idle", "queued", "reading"} \cup Working]
  BY <1>1 DEF IInv, Types
<1>3. \A i \in 1 .. Len(writers) : writers[i] \in Threads \ {t}
  BY <1>1 DEF IInv, Queue, Types
<1>4. \A u \in Threads : pc'[u] \in Working <=> pc[u] \in Working
  BY <1>1, <1>2 DEF Working
<1>5. Types'
  BY <1>1, <1>2 DEF IInv, Types
<1>6. Queue'
  <2>1. writers # <<>> => writers[1] # t
    BY <1>3 DEF IInv, Types
  <2> QED
    BY <2>1, <1>1, <1>2, <1>3 DEF IInv, Queue
<1>7. Leader'
  BY <1>1, <1>4 DEF IInv, Leader, GroupFields
<1>8. Failure'
  <2>1. \A u \in Threads : pc'[u] \in {"queued"} \cup Working /\ op'[u].late => syncFailed
    BY <1>2 DEF IInv, Failure, Working
  <2> QED
    BY <2>1, <1>1, <1>4 DEF IInv, Failure
<1>9. Answered'
  BY <1>1, <1>2 DEF IInv, Answered
<1>10. FutureWritesFail'
  <2>1. done[t] = "ok" => ~op[t].late
    BY <1>1 DEF IInv, Answered
  <2> QED
    BY <2>1, <1>1 DEF IInv, FutureWritesFail, Answers
<1> QED
  BY <1>5, <1>6, <1>7, <1>8, <1>9, <1>10 DEF IInv

(* A read does not touch the queue.                                        *)
LEMMA GetKeeps ==
  ASSUME IInv, NEW t \in Threads, NEW from, NEW to, NEW o,
         pc[t] = from, from \in {"idle", "reading"}, to \in {"idle", "reading"},
         pc' = [pc EXCEPT ![t] = to], op' = [op EXCEPT ![t] = o],
         UNCHANGED <<writers, done, awake, group, bgError, syncFailed, returned>>
  PROVE  IInv'
<1>1. /\ pc'[t] = to /\ DOMAIN op' = Threads
      /\ \A u \in Threads \ {t} : pc'[u] = pc[u] /\ op'[u] = op[u]
      /\ pc' \in [Threads -> {"idle", "queued", "reading"} \cup Working]
  BY DEF IInv, Types
<1>2. done[t] = None /\ \A i \in 1 .. Len(writers) : writers[i] \in Threads \ {t}
  BY DEF IInv, Answered, Queue, Types, Working
<1>3. \A u \in Threads : pc'[u] \in Working <=> pc[u] \in Working
  BY <1>1 DEF Working
<1>4. Types'
  BY <1>1 DEF IInv, Types
<1>5. Queue'
  BY <1>1, <1>2 DEF IInv, Queue
<1>6. Leader'
  BY <1>3 DEF IInv, Leader, GroupFields
<1>7. Failure'
  <2>1. \A u \in Threads : pc'[u] \in {"queued"} \cup Working /\ op'[u].late => syncFailed
    BY <1>1 DEF IInv, Failure, Working
  <2> QED
    BY <2>1, <1>3 DEF IInv, Failure
<1>8. Answered'
  BY <1>1, <1>2 DEF IInv, Answered
<1>9. FutureWritesFail'
  BY DEF IInv, FutureWritesFail, Answers
<1> QED
  BY <1>4, <1>5, <1>6, <1>7, <1>8, <1>9 DEF IInv

(* The background thread may only add an error.                            *)
LEMMA BackgroundKeeps ==
  ASSUME IInv, bgError = TRUE => bgError' = TRUE,
         UNCHANGED <<pc, op, writers, done, awake, group, syncFailed, returned>>
  PROVE  IInv'
<1>1. Failure'
  BY DEF IInv, Failure
<1>2. Types' /\ Queue' /\ Leader' /\ Answered' /\ FutureWritesFail'
  BY DEF IInv, Types, Queue, Leader, GroupFields, Answered, FutureWritesFail, Answers
<1> QED
  BY <1>1, <1>2 DEF IInv
-----------------------------------------------------------------------------
LEMMA StepKeepsIInv == IInv /\ [Next]_vars => IInv'
<1> SUFFICES ASSUME IInv, [Next]_vars PROVE IInv'
  OBVIOUS
<1> USE DEF Go
<1>1. ASSUME NEW t \in Threads, NEW keys, NEW sync, Enter(t, keys, sync) PROVE IInv'
  BY <1>1, EnterKeeps
<1>2. ASSUME NEW t \in Threads, NEW key, StartGet(t, key) PROVE IInv'
  BY <1>2, GetKeeps DEF StartGet, db
<1>3. ASSUME NEW t \in Threads, EndGet(t) PROVE IInv'
  BY <1>3, GetKeeps DEF EndGet, db
<1>4. ASSUME NEW t \in Threads, MakeRoomFails(t) PROVE IInv'
  <2>1. /\ MyTurn(t) /\ Dequeue(1, "error")
        /\ UNCHANGED <<pc, op, group, bgError, syncFailed, returned>>
    BY <1>4 DEF MakeRoomFails, db
  <2> QED
    BY <2>1, FirstAnswered
<1>5. ASSUME NEW t \in Threads, LeadNull(t) PROVE IInv'
  <2>1. /\ MyTurn(t) /\ Dequeue(1, "ok") /\ ~bgError
        /\ UNCHANGED <<pc, op, group, bgError, syncFailed, returned>>
    BY <1>5 DEF LeadNull, MakeRoomForWrite
  <2> QED
    BY <2>1, FirstAnswered
<1>6. ASSUME NEW t \in Threads, Lead(t) PROVE IInv'
  BY <1>6, LeadKeeps
<1>7. ASSUME NEW t \in Threads, pc[t] \in Working,
             group' = group \/ (\E k : group' = [group EXCEPT !.left = k]),
             NEW label \in Working, pc' = [pc EXCEPT ![t] = label],
             UNCHANGED <<op, writers, done, awake, bgError, syncFailed, returned>>
      PROVE  IInv'
  <2>1. GroupFields
    BY <1>7 DEF IInv, Leader
  <2>2. /\ GroupFields' /\ group'.n = group.n
        /\ group'.syncError = group.syncError /\ group'.status = group.status
    BY <2>1, <1>7 DEF GroupFields
  <2>3. /\ syncFailed' \in BOOLEAN
        /\ syncFailed' => group'.syncError = TRUE /\ group'.status = "error"
    BY <2>2, <1>7 DEF IInv, Failure
  <2> QED
    BY <2>2, <2>3, <1>7, LeaderGoesOn
<1>8. ASSUME NEW t \in Threads, AddRecord(t) PROVE IInv'
  <2>1. (IF op[t].sync THEN "sync" ELSE "insert") \in Working
    BY DEF Working
  <2> QED
    BY <2>1, <1>7, <1>8 DEF AddRecord, Working
<1>9. ASSUME NEW t \in Threads, Sync(t) PROVE IInv'
  BY <1>7, <1>9 DEF Sync, Working
<1>10. ASSUME NEW t \in Threads, InsertInto(t) PROVE IInv'
  <2>1. (IF group.left = Len(group.puts) THEN "finish" ELSE "insert") \in Working
    BY DEF Working
  <2>2. \E k : group' = [group EXCEPT !.left = k]
    BY <1>10 DEF InsertInto
  <2> QED
    BY <2>1, <2>2, <1>7, <1>10 DEF InsertInto, Working
<1>11. ASSUME NEW t \in Threads, AddRecordFails(t) PROVE IInv'
  <2>1. pc[t] \in Working /\ "finish" \in Working
    BY <1>11 DEF AddRecordFails, Working
  <2>2. GroupFields /\ (syncFailed => group.syncError = TRUE) /\ syncFailed \in BOOLEAN
    BY <2>1 DEF IInv, Leader, Failure
  <2>3. group' = [group EXCEPT !.status = "error"]
    BY <1>11 DEF AddRecordFails
  <2>4. /\ GroupFields' /\ group'.n = group.n
        /\ group'.syncError = group.syncError /\ group'.status = "error"
    BY <2>2, <2>3 DEF GroupFields
  <2> QED
    BY <2>1, <2>2, <2>4, <1>11, LeaderGoesOn DEF AddRecordFails
<1>12. ASSUME NEW t \in Threads, SyncFails(t) PROVE IInv'
  <2>1. pc[t] \in Working /\ "finish" \in Working /\ GroupFields
    BY <1>12 DEF SyncFails, Working, IInv, Leader
  <2>2. group' = [group EXCEPT !.status = "error", !.syncError = TRUE]
    BY <1>12 DEF SyncFails
  <2>3. /\ GroupFields' /\ group'.n = group.n
        /\ group'.syncError = TRUE /\ group'.status = "error"
    BY <2>1, <2>2 DEF GroupFields
  <2> QED
    BY <2>1, <2>3, <1>12, LeaderGoesOn DEF SyncFails
<1>13. ASSUME NEW t \in Threads, Finish(t) PROVE IInv'
  BY <1>13, FinishKeeps
<1>14. ASSUME NEW t \in Threads, Return(t) PROVE IInv'
  BY <1>14, ReturnKeeps
<1>15. CASE CompactMemTable
  BY <1>15, BackgroundKeeps DEF CompactMemTable
<1>16. CASE UNCHANGED vars
  BY <1>16, BackgroundKeeps DEF vars
<1> QED
  BY <1>1, <1>2, <1>3, <1>4, <1>5, <1>6, <1>8, <1>9, <1>10, <1>11, <1>12, <1>13,
     <1>14, <1>15, <1>16 DEF Next, Proceed

LEMMA Invariance == Spec => []IInv
BY InitIInv, StepKeepsIInv, PTL DEF Spec

(* After a failed sync no write that comes later is answered ok, whatever  *)
(* the leader, its group and the background thread are doing.              *)
THEOREM FailedSyncIsFinal == Spec => []FutureWritesFail
<1>1. IInv => FutureWritesFail
  BY DEF IInv
<1> QED
  BY <1>1, Invariance, PTL

(* No wakeup is lost: the first of the queue and everyone who has an answer*)
(* is awake, and two threads are never at work on log and memtable at once.*)
THEOREM NoLostWakeup ==
  Spec => [](/\ writers # <<>> => writers[1] \in awake
             /\ \A t \in Threads : done[t] # None => t \in awake
             /\ \A t, u \in Threads : pc[t] \in Working /\ pc[u] \in Working => t = u)
<1>1. IInv => /\ writers # <<>> => writers[1] \in awake
              /\ \A t \in Threads : done[t] # None => t \in awake
              /\ \A t, u \in Threads : pc[t] \in Working /\ pc[u] \in Working => t = u
  BY DEF IInv, Queue, Answered, Leader
<1> QED
  BY <1>1, Invariance, PTL
-----------------------------------------------------------------------------
(***************************************************************************)
(* The write path of leveldb keeps what AtomicStore promises.              *)
(*                                                                         *)
(* While a leader logs and inserts the puts of a group one by one, with    *)
(* the mutex released, nobody may see or answer for a part of the group.   *)
(* The argument: the puts carry the sequence numbers after the last one    *)
(* (Group); what is in the memtable beyond the last one is what the leader *)
(* has inserted so far (Inserted), so a snapshot sees none of it; and when *)
(* the last put is in, raising the last sequence number in Finish makes    *)
(* all of the group visible together, in the order of the queue            *)
(* (Memtable).  A lookup with a snapshot then finds the last completed     *)
(* write of the key (LookupFindsLast), which is what AtomicStore compares. *)
(* Answers agree with what was completed (Commits, Outcome), and a record  *)
(* that a sync write relies on is in the log file that is synced for it,   *)
(* which nobody changes for another meanwhile (Logs).  No part is inductive without the others; SInv is all of them,  *)
(* and rests on IInv above: one leader, first in the queue.                *)
(***************************************************************************)

(* t has called Write and has not returned.                                *)
Writing(t) == pc[t] \in {"queued"} \cup Working

(* A function on 1 .. n is a sequence.                                     *)
LEMMA FunctionIsSeq ==
  ASSUME NEW S, NEW n \in Nat, n >= 1, NEW f \in [1 .. n -> S]
  PROVE  f \in Seq(S) /\ f # <<>> /\ Len(f) = n
OBVIOUS

(* SetToSeq lists the elements of a finite set.                            *)
LEMMA SetToSeqLists ==
  ASSUME NEW S, IsFiniteSet(S)
  PROVE  /\ Cardinality(S) \in Nat
         /\ SetToSeq(S) \in [1 .. Cardinality(S) -> S]
         /\ \A x \in S : \E i \in 1 .. Cardinality(S) : SetToSeq(S)[i] = x
<1> DEFINE C == Cardinality(S)
<1>1. C \in Nat /\ ExistsBijection(1 .. C, S)
  BY FS_CardinalityType
<1>2. PICK f \in Bijection(1 .. C, S) : TRUE
  BY <1>1 DEF ExistsBijection
<1>3. f \in [1 .. C -> S] /\ IsInjective(f)
  BY <1>2 DEF Bijection, Injection, IsInjective
<1> DEFINE g == SetToSeq(S)
<1>4. g \in [1 .. C -> S] /\ IsInjective(g)
  BY <1>3 DEF SetToSeq
<1> HIDE DEF g, C
<1>5. g \in Injection(1 .. C, S)
  BY <1>4 DEF Injection, IsInjective
<1>6. IsFiniteSet(1 .. C) /\ Cardinality(1 .. C) = C
  BY <1>1, FS_Interval
<1>7. g \in Surjection(1 .. C, S)
  BY <1>5, <1>6, FS_Injection DEF C
<1>8. \A x \in S : \E i \in 1 .. C : g[i] = x
  BY <1>7 DEF Surjection
<1> QED
  BY <1>1, <1>4, <1>8 DEF g, C

(* The puts of a batch are its keys, each by the write of the batch.       *)
LEMMA PutsOfBatch ==
  ASSUME NEW t \in Threads, IsFiniteSet(op[t].keys)
  PROVE  /\ Puts(t) \in Seq([key : op[t].keys, write : {op[t].id}])
         /\ \A key \in op[t].keys : \E i \in 1 .. Len(Puts(t)) : Puts(t)[i].key = key
<1> DEFINE C == Cardinality(op[t].keys)
           g == SetToSeq(op[t].keys)
           p == [i \in 1 .. C |-> [key |-> g[i], write |-> op[t].id]]
<1>1. C \in Nat /\ g \in [1 .. C -> op[t].keys]
      /\ \A x \in op[t].keys : \E i \in 1 .. C : g[i] = x
  BY SetToSeqLists
<1>2. Puts(t) = p
  BY DEF Puts
<1> HIDE DEF C, g
<1> DEFINE R == [key : op[t].keys, write : {op[t].id}]
<1>3. p \in Seq(R) /\ Len(p) = C
  <2>1. \A i \in 1 .. C : g[i] \in op[t].keys
    BY <1>1
  <2>2. \A i \in 1 .. C : [key |-> g[i], write |-> op[t].id] \in R
    BY <2>1
  <2> HIDE DEF R
  <2>3. p \in [1 .. C -> R]
    BY <2>2
  <2> QED
    BY <1>1, <2>3
<1>4. \A i \in 1 .. C : p[i].key = g[i]
  OBVIOUS
<1> HIDE DEF p
<1> QED
  BY <1>1, <1>2, <1>3, <1>4

(* The group of the write is completed.                                    *)
IsCommitted(id) == \E i \in 1 .. Len(committed) : committed[i].id = id

(* Each write has a number of its own, which its answer does not reuse.    *)
Ops ==
  /\ started \in Nat
  /\ \A t \in Threads : Writing(t) => op[t].id \in 1 .. started /\ op[t].keys \in Batches
  /\ \A t, u \in Threads : Writing(t) /\ Writing(u) /\ op[t].id = op[u].id => t = u
  /\ \A r \in returned : /\ r.write.id \in 1 .. started
                         /\ \A t \in Threads : Writing(t) => op[t].id # r.write.id

(* The puts of writes started so far.                                      *)
PutRecords == [key : Keys, seq : Nat, write : 1 .. started]

(* puts are those of the first n writers' batches, in their order.         *)
PutsOf(puts, n) ==
  /\ \A i \in 1 .. Len(puts) : \E j \in 1 .. n :
       /\ puts[i].write = op[writers[j]].id
       /\ puts[i].key \in op[writers[j]].keys
  /\ \A j \in 1 .. n : \A key \in op[writers[j]].keys :
       \E i \in 1 .. Len(puts) : puts[i].key = key /\ puts[i].write = op[writers[j]].id
  /\ \A i, k \in 1 .. Len(puts) : \A a, b \in 1 .. n :
       /\ i <= k
       /\ puts[i].write = op[writers[a]].id /\ puts[k].write = op[writers[b]].id
       => a <= b

(* A batch has finitely many keys.                                         *)
LEMMA BatchKeys ==
  ASSUME NEW b \in Batches PROVE b \subseteq Keys /\ IsFiniteSet(b)
BY WritesAssumption DEF BatchesAssumption

(* Who is in the queue writes, and its write is its own.                   *)
LEMMA QueueOps ==
  ASSUME IInv, Ops
  PROVE  /\ Len(writers) \in Nat
         /\ \A i \in 1 .. Len(writers) :
              /\ writers[i] \in Threads /\ Writing(writers[i])
              /\ op[writers[i]].id \in 1 .. started /\ op[writers[i]].keys \in Batches
         /\ \A i, j \in 1 .. Len(writers) :
              op[writers[i]].id = op[writers[j]].id => i = j
<1>1. Len(writers) \in Nat /\ \A i \in 1 .. Len(writers) : writers[i] \in Threads
  BY DEF IInv, Types
<1>2. \A i \in 1 .. Len(writers) : Writing(writers[i])
  BY DEF IInv, Queue, Writing
<1>3. \A i, j \in 1 .. Len(writers) : writers[i] = writers[j] => i = j
  BY DEF IInv, Queue
<1>4. ASSUME NEW i \in 1 .. Len(writers), NEW j \in 1 .. Len(writers),
             op[writers[i]].id = op[writers[j]].id
      PROVE  i = j
  <2>1. writers[i] = writers[j]
    BY <1>1, <1>2, <1>4 DEF Ops
  <2> QED
    BY <2>1, <1>3
<1> QED
  BY <1>1, <1>2, <1>4 DEF Ops

(* What BuildBatchGroup collects.                                          *)
LEMMA Built ==
  ASSUME IInv, Ops, lastSequence \in Nat, NEW n \in 1 .. Len(writers)
  PROVE  LET g == BuildBatchGroup(n)
         IN  /\ g.puts \in Seq(PutRecords)
             /\ \A i \in 1 .. Len(g.puts) : g.puts[i].seq = lastSequence + i
             /\ PutsOf(g.puts, n)
<1> DEFINE S == [key : Keys, write : 1 .. started]
           ss == [i \in 1 .. n |-> Puts(writers[i])]
           flat == FlattenSeq(ss)
           puts == [i \in DOMAIN flat |-> [key |-> flat[i].key,
                                           seq |-> lastSequence + i,
                                           write |-> flat[i].write]]
<1>1. /\ Len(writers) \in Nat /\ n \in Nat /\ n >= 1 /\ n <= Len(writers)
      /\ \A i \in 1 .. n : i \in 1 .. Len(writers)
  BY QueueOps
<1>2. ASSUME NEW j \in 1 .. n
      PROVE  /\ Puts(writers[j]) \in Seq(S)
             /\ \A k \in 1 .. Len(Puts(writers[j])) :
                  /\ Puts(writers[j])[k].write = op[writers[j]].id
                  /\ Puts(writers[j])[k].key \in op[writers[j]].keys
             /\ \A key \in op[writers[j]].keys :
                  \E k \in 1 .. Len(Puts(writers[j])) : Puts(writers[j])[k].key = key
  <2> DEFINE t == writers[j]
             R == [key : op[t].keys, write : {op[t].id}]
  <2>1. /\ t \in Threads /\ op[t].id \in 1 .. started
        /\ op[t].keys \subseteq Keys /\ IsFiniteSet(op[t].keys)
    BY <1>1, QueueOps, BatchKeys
  <2> HIDE DEF t
  <2>2. /\ Puts(t) \in Seq(R)
        /\ \A key \in op[t].keys : \E i \in 1 .. Len(Puts(t)) : Puts(t)[i].key = key
    BY <2>1, PutsOfBatch
  <2>3. R \subseteq S
    BY <2>1
  <2>4. Puts(t) \in Seq(S)
    <3> HIDE DEF R, S
    <3> QED
      BY <2>2, <2>3, SeqMonotonic
  <2>5. ASSUME NEW k \in 1 .. Len(Puts(t))
        PROVE  Puts(t)[k].write = op[t].id /\ Puts(t)[k].key \in op[t].keys
    <3>1. Puts(t)[k] \in R
      <4> HIDE DEF R
      <4> QED
        BY <2>2
    <3> QED
      BY <3>1
  <2> QED
    BY <2>2, <2>4, <2>5 DEF t
<1>3. ss \in Seq(Seq(S)) /\ ss # <<>> /\ Len(ss) = n
  <2> HIDE DEF S
  <2>1. ss \in [1 .. n -> Seq(S)]
    BY <1>2
  <2> QED
    BY <1>1, <2>1
<1>4. \A j \in 1 .. n : ss[j] = Puts(writers[j])
  OBVIOUS
<1> HIDE DEF ss
<1>5. flat \in Seq(S) /\ Concatenates(flat, ss, n)
  <2> HIDE DEF S
  <2> QED
    BY <1>3, FlattenConcatenates
<1>6. PICK from, at : Places(flat, ss, n, from, at)
  BY <1>5 DEF Concatenates
<1>7. BuildBatchGroup(n).puts = puts
  BY DEF BuildBatchGroup, ss
<1> HIDE DEF flat
<1>8. Len(flat) \in Nat /\ DOMAIN flat = 1 .. Len(flat)
      /\ \A i \in 1 .. Len(flat) : flat[i] \in S
  <2> HIDE DEF S
  <2> QED
    BY <1>5
<1>9. \A i \in 1 .. Len(flat) : /\ puts[i] \in PutRecords
                                /\ puts[i].seq = lastSequence + i
                                /\ puts[i].key = flat[i].key
                                /\ puts[i].write = flat[i].write
  BY <1>8 DEF PutRecords
<1>10. puts \in Seq(PutRecords) /\ Len(puts) = Len(flat)
  <2>1. puts \in [1 .. Len(flat) -> PutRecords]
    BY <1>8, <1>9
  <2> QED
    BY <2>1, <1>8
<1> HIDE DEF puts
<1>11. ASSUME NEW i \in 1 .. Len(flat)
       PROVE  /\ from[i] \in 1 .. n
              /\ puts[i].write = op[writers[from[i]]].id
              /\ puts[i].key \in op[writers[from[i]]].keys
  <2>1. /\ from[i] \in 1 .. n /\ at[i] \in 1 .. Len(ss[from[i]])
        /\ flat[i] = ss[from[i]][at[i]]
    BY <1>6 DEF Places
  <2>2. PICK j, k : j \in 1 .. n /\ from[i] = j /\ at[i] = k
    BY <2>1
  <2>3. k \in 1 .. Len(Puts(writers[j])) /\ flat[i] = Puts(writers[j])[k]
    BY <2>1, <2>2, <1>4
  <2>4. flat[i].write = op[writers[j]].id /\ flat[i].key \in op[writers[j]].keys
    <3>1. \A l \in 1 .. Len(Puts(writers[j])) :
            /\ Puts(writers[j])[l].write = op[writers[j]].id
            /\ Puts(writers[j])[l].key \in op[writers[j]].keys
      BY <1>2, <2>2
    <3> QED
      BY <2>3, <3>1, Zenon
  <2> QED
    BY <2>2, <2>4, <1>9
<1>12. ASSUME NEW j \in 1 .. n, NEW key \in op[writers[j]].keys
       PROVE  \E i \in 1 .. Len(flat) :
                puts[i].key = key /\ puts[i].write = op[writers[j]].id
  <2>1. PICK k \in 1 .. Len(Puts(writers[j])) : Puts(writers[j])[k].key = key
    BY <1>2
  <2>2. PICK i \in 1 .. Len(flat) : from[i] = j /\ at[i] = k
    BY <1>4, <1>6 DEF Places
  <2>3. flat[i] = Puts(writers[j])[k]
    BY <2>2, <1>4, <1>6 DEF Places
  <2> QED
    BY <2>1, <2>2, <2>3, <1>9, <1>11
<1>13. ASSUME NEW i \in 1 .. Len(flat), NEW k \in 1 .. Len(flat),
              NEW a \in 1 .. n, NEW b \in 1 .. n, i <= k,
              puts[i].write = op[writers[a]].id, puts[k].write = op[writers[b]].id
       PROVE  a <= b
  <2>1. from[i] = a /\ from[k] = b
    <3>1. from[i] \in 1 .. Len(writers) /\ op[writers[from[i]]].id = op[writers[a]].id
      BY <1>1, <1>11, <1>13
    <3>2. from[k] \in 1 .. Len(writers) /\ op[writers[from[k]]].id = op[writers[b]].id
      BY <1>1, <1>11, <1>13
    <3>3. a \in 1 .. Len(writers) /\ b \in 1 .. Len(writers)
      BY <1>1
    <3> QED
      BY <3>1, <3>2, <3>3, QueueOps, Zenon
  <2>2. i = k \/ from[i] < from[k] \/ from[i] = from[k]
    BY <1>6, <1>8, <1>13 DEF Places
  <2> QED
    BY <2>1, <2>2, <1>1
<1>14. PutsOf(puts, n)
  <2>1. \A i \in 1 .. Len(flat) : \E j \in 1 .. n :
          puts[i].write = op[writers[j]].id /\ puts[i].key \in op[writers[j]].keys
    BY <1>11
  <2>2. \A i, k \in 1 .. Len(flat) : \A a, b \in 1 .. n :
          /\ i <= k
          /\ puts[i].write = op[writers[a]].id /\ puts[k].write = op[writers[b]].id
          => a <= b
    BY <1>13
  <2> QED
    BY <2>1, <2>2, <1>10, <1>12 DEF PutsOf
<1> QED
  BY <1>7, <1>9, <1>10, <1>14

(* The writes with something to put are those that the log is given.       *)
LEMMA LoggedWrites ==
  ASSUME IInv, Ops, group.n \in 1 .. Len(writers),
         group.puts \in Seq(PutRecords), PutsOf(group.puts, group.n)
  PROVE  /\ \A j \in 1 .. group.n : op[writers[j]].id \in Logged <=> op[writers[j]].keys # {}
         /\ \A id \in Logged : \E j \in 1 .. group.n : op[writers[j]].id = id
         /\ Logged \subseteq 1 .. started
<1>1. DOMAIN group.puts = 1 .. Len(group.puts) /\ Len(group.puts) \in Nat
      /\ \A i \in 1 .. Len(group.puts) : group.puts[i] \in PutRecords
  BY Zenon, LenProperties, ElementOfSeq
<1>2. \A id : id \in Logged <=> \E i \in 1 .. Len(group.puts) : group.puts[i].write = id
  BY <1>1 DEF Logged
<1>3. Logged \subseteq 1 .. started
  BY <1>1, <1>2 DEF PutRecords
<1>4. group.n \in Nat /\ Len(writers) \in Nat /\ \A j \in 1 .. group.n : j \in 1 .. Len(writers)
  BY QueueOps
<1>5. ASSUME NEW id \in Logged
      PROVE  \E j \in 1 .. group.n : op[writers[j]].id = id /\ op[writers[j]].keys # {}
  <2>1. PICK i \in 1 .. Len(group.puts) : group.puts[i].write = id
    BY <1>2, <1>5
  <2>2. PICK j \in 1 .. group.n : /\ group.puts[i].write = op[writers[j]].id
                                 /\ group.puts[i].key \in op[writers[j]].keys
    BY DEF PutsOf
  <2> QED
    BY <2>1, <2>2
<1>6. ASSUME NEW j \in 1 .. group.n, op[writers[j]].id \in Logged
      PROVE  op[writers[j]].keys # {}
  <2>1. PICK k \in 1 .. group.n : /\ op[writers[k]].id = op[writers[j]].id
                                 /\ op[writers[k]].keys # {}
    BY <1>5, <1>6
  <2>2. k = j
    BY <2>1, <1>4, QueueOps
  <2> QED
    BY <2>1, <2>2
<1>7. ASSUME NEW j \in 1 .. group.n, op[writers[j]].keys # {}
      PROVE  op[writers[j]].id \in Logged
  <2>1. PICK key \in op[writers[j]].keys : TRUE
    BY <1>7
  <2>2. \E i \in 1 .. Len(group.puts) : group.puts[i].write = op[writers[j]].id
    BY <2>1 DEF PutsOf
  <2> QED
    BY <2>2, <1>2
<1> QED
  BY <1>3, <1>5, <1>6, <1>7

(* The first n writes.                                                     *)
CommitRecords(n) == [id : 1 .. n, keys : SUBSET Keys]

(* The completed writes are those with something to put, in the order of   *)
(* the queue.                                                              *)
LEMMA CompletedWrites ==
  ASSUME IInv, Ops, group.n \in 1 .. Len(writers),
         group.puts \in Seq(PutRecords), PutsOf(group.puts, group.n)
  PROVE  /\ Completed \in Seq(CommitRecords(started))
         /\ \A i \in 1 .. Len(Completed) : \E j \in 1 .. group.n :
              /\ Completed[i].id = op[writers[j]].id
              /\ Completed[i].keys = op[writers[j]].keys
              /\ op[writers[j]].keys # {}
         /\ \A j \in 1 .. group.n : op[writers[j]].keys # {} =>
              \E i \in 1 .. Len(Completed) : Completed[i].id = op[writers[j]].id
         /\ \A i, k \in 1 .. Len(Completed) : \A a, b \in 1 .. group.n :
              /\ Completed[i].id = op[writers[a]].id
              /\ Completed[k].id = op[writers[b]].id
              /\ i < k
              => a < b
<1> DEFINE n == group.n
           w == [j \in 1 .. n |-> [id |-> op[writers[j]].id, keys |-> op[writers[j]].keys]]
           C == CommitRecords(started)
           ss == [j \in 1 .. n |-> IF op[writers[j]].id \in Logged THEN << w[j] >> ELSE <<>>]
           flat == FlattenSeq(ss)
<1>1. /\ Len(writers) \in Nat /\ n \in Nat /\ n >= 1 /\ n <= Len(writers)
      /\ \A i \in 1 .. n : i \in 1 .. Len(writers)
  BY QueueOps
<1>2. ASSUME NEW j \in 1 .. n PROVE w[j] \in C
  <2>1. op[writers[j]].id \in 1 .. started /\ op[writers[j]].keys \subseteq Keys
    BY <1>1, QueueOps, BatchKeys
  <2> QED
    BY <2>1 DEF CommitRecords
<1>3. \A j \in 1 .. n : op[writers[j]].id \in Logged <=> op[writers[j]].keys # {}
  BY LoggedWrites
<1>4. /\ \A j \in 1 .. n : w[j].id = op[writers[j]].id /\ w[j].keys = op[writers[j]].keys
      /\ \A i, j \in 1 .. n : w[i].id = w[j].id => i = j
  BY <1>1, QueueOps
<1> HIDE DEF w, C
<1>5. ss \in Seq(Seq(C)) /\ ss # <<>> /\ Len(ss) = n
  <2>1. \A j \in 1 .. n : << w[j] >> \in Seq(C) /\ <<>> \in Seq(C)
    BY <1>2
  <2>3. \A j \in 1 .. n :
          (IF op[writers[j]].id \in Logged THEN << w[j] >> ELSE <<>>) \in Seq(C)
    BY <2>1, Zenon
  <2>2. ss \in [1 .. n -> Seq(C)]
    BY <2>3, Zenon
  <2> HIDE DEF ss
  <2> QED
    BY <1>1, <2>2, FunctionIsSeq
<1>6. \A j \in 1 .. n :
        \/ op[writers[j]].keys # {} /\ ss[j] = << w[j] >> /\ Len(ss[j]) = 1
        \/ op[writers[j]].keys = {} /\ Len(ss[j]) = 0
  BY <1>3
<1>7. Completed = flat
  BY DEF Completed, w
<1> HIDE DEF ss
<1>8. flat \in Seq(C) /\ Concatenates(flat, ss, n)
  BY <1>5, FlattenConcatenates
<1>9. PICK from, at : Places(flat, ss, n, from, at)
  BY <1>8 DEF Concatenates
<1> HIDE DEF flat
<1>10. Len(flat) \in Nat
  BY <1>8
<1>11. ASSUME NEW i \in 1 .. Len(flat)
       PROVE  /\ from[i] \in 1 .. n /\ at[i] = 1
              /\ op[writers[from[i]]].keys # {}
              /\ flat[i] = w[from[i]]
  <2>1. /\ from[i] \in 1 .. n /\ at[i] \in 1 .. Len(ss[from[i]])
        /\ flat[i] = ss[from[i]][at[i]]
    BY <1>9 DEF Places
  <2>2. CASE op[writers[from[i]]].keys = {} /\ Len(ss[from[i]]) = 0
    BY <2>1, <2>2
  <2>3. CASE /\ op[writers[from[i]]].keys # {}
             /\ ss[from[i]] = << w[from[i]] >> /\ Len(ss[from[i]]) = 1
    <3>1. at[i] = 1
      BY <2>1, <2>3
    <3>2. flat[i] = << w[from[i]] >>[1]
      BY <2>1, <2>3, <3>1, Zenon
    <3> QED
      BY <2>1, <2>3, <3>1, <3>2
  <2> QED
    BY <2>1, <2>2, <2>3, <1>6, Zenon
<1>12. ASSUME NEW j \in 1 .. n, op[writers[j]].keys # {}
       PROVE  \E i \in 1 .. Len(flat) : flat[i].id = op[writers[j]].id
  <2>1. Len(ss[j]) = 1
    BY <1>6, <1>12, Zenon
  <2>3. 1 \in 1 .. Len(ss[j])
    BY <2>1
  <2>2. PICK i \in 1 .. Len(flat) : from[i] = j
    BY <2>3, <1>9 DEF Places
  <2> QED
    BY <2>2, <1>4, <1>11
<1>13. ASSUME NEW i \in 1 .. Len(flat), NEW k \in 1 .. Len(flat),
              NEW a \in 1 .. n, NEW b \in 1 .. n, i < k,
              flat[i].id = op[writers[a]].id, flat[k].id = op[writers[b]].id
       PROVE  a < b
  <2>1. from[i] \in 1 .. n /\ from[k] \in 1 .. n
        /\ w[from[i]].id = w[a].id /\ w[from[k]].id = w[b].id
    BY <1>4, <1>11, <1>13
  <2>4. from[i] = a /\ from[k] = b
    BY <2>1, <1>4
  <2>2. from[i] < from[k] \/ at[i] < at[k]
    BY <1>9, <1>13 DEF Places
  <2>3. at[i] = 1 /\ at[k] = 1
    BY <1>11
  <2> QED
    BY <2>4, <2>2, <2>3
<1>14. \A i \in 1 .. Len(flat) : \E j \in 1 .. n :
         /\ flat[i].id = op[writers[j]].id
         /\ flat[i].keys = op[writers[j]].keys
         /\ op[writers[j]].keys # {}
  <2> SUFFICES ASSUME NEW i \in 1 .. Len(flat)
               PROVE  \E j \in 1 .. n : /\ flat[i].id = op[writers[j]].id
                                        /\ flat[i].keys = op[writers[j]].keys
                                        /\ op[writers[j]].keys # {}
    OBVIOUS
  <2>1. PICK j \in 1 .. n : j = from[i]
    BY <1>11
  <2>2. op[writers[j]].keys # {} /\ flat[i] = w[j]
    BY <2>1, <1>11
  <2> QED
    BY <2>2, <1>4
<1>15. \A i, k \in 1 .. Len(flat) : \A a, b \in 1 .. n :
         /\ flat[i].id = op[writers[a]].id
         /\ flat[k].id = op[writers[b]].id
         /\ i < k
         => a < b
  BY <1>13
<1>16. \A j \in 1 .. n : op[writers[j]].keys # {} =>
          \E i \in 1 .. Len(flat) : flat[i].id = op[writers[j]].id
  BY <1>12
<1>17. flat \in Seq(CommitRecords(started))
  BY <1>8 DEF C
<1> HIDE DEF flat
<1>18. Completed \in Seq(CommitRecords(started))
  BY <1>7, <1>17
<1>19. \A i \in 1 .. Len(Completed) : \E j \in 1 .. group.n :
         /\ Completed[i].id = op[writers[j]].id
         /\ Completed[i].keys = op[writers[j]].keys
         /\ op[writers[j]].keys # {}
  BY <1>7, <1>14
<1>20. \A j \in 1 .. group.n : op[writers[j]].keys # {} =>
         \E i \in 1 .. Len(Completed) : Completed[i].id = op[writers[j]].id
  BY <1>7, <1>16
<1>21. \A i, k \in 1 .. Len(Completed) : \A a, b \in 1 .. group.n :
         /\ Completed[i].id = op[writers[a]].id
         /\ Completed[k].id = op[writers[b]].id
         /\ i < k
         => a < b
  BY <1>7, <1>15
<1> QED
  BY <1>18, <1>19, <1>20, <1>21

-----------------------------------------------------------------------------
(* Completed writes are there once; who has no answer is not among them.   *)
Commits ==
  /\ committed \in Seq(CommitRecords(started))
  /\ \A i, j \in 1 .. Len(committed) : committed[i].id = committed[j].id => i = j
  /\ \A t \in Threads : Writing(t) /\ done[t] = None => ~IsCommitted(op[t].id)

(* The answer tells whether the write was completed.                       *)
Outcome ==
  \A t \in Threads : done[t] # None =>
    /\ done[t] \in {"ok", "error"}
    /\ op[t].keys # {} => (done[t] = "ok" <=> IsCommitted(op[t].id))

(* The leader's group: the puts of the writers it answers for, with the    *)
(* sequence numbers after the last.                                        *)
GroupOf(t) ==
  /\ op[t].keys # {}
  /\ group.puts \in Seq(PutRecords)
  /\ \A i \in 1 .. Len(group.puts) : group.puts[i].seq = lastSequence + i
  /\ PutsOf(group.puts, group.n)
  /\ \A j \in 1 .. group.n : op[writers[j]].sync => op[t].sync

(* Who works with the mutex released has such a group.                     *)
Group == \A t \in Threads : pc[t] \in Working => GroupOf(t)

(* How far the leader is.                                                  *)
Progress ==
  \A t \in Threads : pc[t] \in Working =>
    /\ group.left \in 1 .. Len(group.puts) + 1
    /\ group.status \in {"ok", "error"}
    /\ pc[t] # "finish" => group.status = "ok"
    /\ pc[t] \in {"append", "sync"} => group.left = 1
    /\ pc[t] = "insert" => group.left <= Len(group.puts)
    /\ pc[t] = "finish" =>
         group.left = IF group.status = "ok" THEN Len(group.puts) + 1 ELSE 1

(* Up to lastSequence the entries are those of the completed writes, in    *)
(* their order.                                                            *)
Memtable ==
  /\ lastSequence \in Nat
  /\ \A e \in entries : e.seq \in Nat
  /\ \A e, f \in entries : e.seq = f.seq => e = f
  /\ \A e \in entries : e.seq <= lastSequence =>
       \E i \in 1 .. Len(committed) :
          committed[i].id = e.write /\ e.key \in committed[i].keys
  /\ \A i \in 1 .. Len(committed) : \A key \in committed[i].keys :
       \E e \in entries :
          e.key = key /\ e.write = committed[i].id /\ e.seq <= lastSequence
  /\ \A e, f \in entries : \A i, j \in 1 .. Len(committed) :
       /\ e.seq <= f.seq /\ f.seq <= lastSequence
       /\ committed[i].id = e.write /\ committed[j].id = f.write
       => i <= j

(* Beyond it they are what the leader has inserted of its group.           *)
Inserted ==
  /\ \A t \in Threads : pc[t] \in Working =>
       \A i \in 1 .. group.left - 1 : group.puts[i] \in entries
  /\ \A e \in entries : e.seq > lastSequence =>
       \E t \in Threads : /\ pc[t] \in Working
                          /\ \E i \in 1 .. group.left - 1 : e = group.puts[i]

(* t has logged its group.                                                 *)
LoggedBy(t) ==
  pc[t] = "sync" \/ (pc[t] \in {"insert", "finish"} /\ group.status = "ok")

(* The current log file has the leader's record, which it has synced if a  *)
(* write of its group asked for it; and so it is for every answer.         *)
Logs ==
  /\ log \cup synced \subseteq 1 .. started
  /\ \A t \in Threads : LoggedBy(t) =>
       /\ Logged \subseteq log
       /\ pc[t] # "sync" /\ op[t].sync => Logged \subseteq synced
  /\ \A t \in Threads :
       done[t] # None /\ done[t] = "ok" /\ op[t].sync /\ op[t].keys # {} => op[t].id \in synced
  /\ SyncedWhenAnswered

(* A snapshot is of completed writes.                                      *)
Snapshots ==
  /\ \A t \in Threads : pc[t] = "reading" => op[t].snapshot \in 0 .. lastSequence
  /\ ReadsAreStable

(* The inductive invariant, beside IInv.                                   *)
SInv == /\ Ops /\ Commits /\ Outcome /\ Group /\ Progress /\ Memtable /\ Inserted
        /\ Logs /\ Snapshots

LEMMA InitSInv == Init => SInv
<1> SUFFICES ASSUME Init PROVE SInv
  OBVIOUS
<1>1. /\ \A t \in Threads : pc[t] = "idle" /\ done[t] = None
      /\ started = 0 /\ returned = {} /\ committed = <<>> /\ entries = {}
      /\ lastSequence = 0 /\ log = {} /\ synced = {}
  BY DEF Init
<1>2. \A t \in Threads : ~Writing(t) /\ pc[t] \notin Working /\ pc[t] # "reading"
  BY <1>1 DEF Writing, Working
<1>3. Ops
  BY <1>1, <1>2 DEF Ops
<1>4. <<>> \in Seq(CommitRecords(started)) /\ Len(<<>>) = 0
  OBVIOUS
<1>5. Commits
  BY <1>1, <1>2, <1>4 DEF Commits
<1>6. Outcome /\ Group /\ Progress
  BY <1>1, <1>2 DEF Outcome, Group, Progress
<1>7. Memtable
  BY <1>1, <1>4 DEF Memtable
<1>8. Inserted
  BY <1>1, <1>2 DEF Inserted
<1>9. Logs
  BY <1>1, <1>2, <1>4 DEF Logs, LoggedBy, Working, SyncedWhenAnswered, Answers
<1>10. Snapshots
  BY <1>2 DEF Snapshots, ReadsAreStable
<1> QED
  BY <1>3, <1>5, <1>6, <1>7, <1>8, <1>9, <1>10 DEF SInv

(* A label as long as threads change no other.                             *)
LEMMA LabelsAfter ==
  ASSUME IInv, NEW t \in Threads, NEW label, pc' = [pc EXCEPT ![t] = label]
  PROVE  pc'[t] = label /\ \A u \in Threads \ {t} : pc'[u] = pc[u]
BY DEF IInv, Types

(* A step that neither calls nor returns, nor answers, nor completes.      *)
LEMMA StillTheSame ==
  ASSUME SInv, \A u \in Threads : Writing(u)' = Writing(u),
         UNCHANGED <<op, done, committed, returned, started>>
  PROVE  Ops' /\ Commits' /\ Outcome'
<1>1. \A id : IsCommitted(id)' = IsCommitted(id)
  BY DEF IsCommitted
<1>2. Ops'
  BY DEF SInv, Ops
<1>3. Commits'
  BY <1>1 DEF SInv, Commits
<1>4. Outcome'
  BY <1>1 DEF SInv, Outcome
<1> QED
  BY <1>2, <1>3, <1>4

(* The group as long as the leader works on it.                            *)
LEMMA GroupStays ==
  ASSUME IInv, Ops, NEW t \in Threads, GroupOf(t), group.n \in 1 .. Len(writers),
         group'.puts = group.puts, group'.n = group.n,
         lastSequence' = lastSequence, started' \in Nat, started <= started',
         \A j \in 1 .. group.n : writers'[j] = writers[j] /\ op'[writers[j]] = op[writers[j]],
         op'[t] = op[t]
  PROVE  GroupOf(t)'
<1>1. \A j \in 1 .. group.n : op'[writers'[j]] = op[writers[j]]
  OBVIOUS
<1>2. PutRecords \subseteq PutRecords'
  BY DEF PutRecords, Ops
<1>3. group'.puts \in Seq(PutRecords')
  BY <1>2, SeqMonotonic DEF GroupOf
<1>4. PutsOf(group.puts, group.n)
  BY DEF GroupOf
<1>5. PICK p, n : p = group.puts /\ n = group.n /\ p = group'.puts /\ n = group'.n
  OBVIOUS
<1>6. \A j \in 1 .. n : op'[writers'[j]] = op[writers[j]]
  BY <1>1, <1>5
<1>7. PutsOf(p, n)
  BY <1>4, <1>5
<1>8. PutsOf(p, n)'
  <2>1. \A i \in 1 .. Len(p) : \E j \in 1 .. n :
          p[i].write = op'[writers'[j]].id /\ p[i].key \in op'[writers'[j]].keys
    <3> SUFFICES ASSUME NEW i \in 1 .. Len(p)
                 PROVE  \E j \in 1 .. n : /\ p[i].write = op'[writers'[j]].id
                                          /\ p[i].key \in op'[writers'[j]].keys
      OBVIOUS
    <3>1. PICK j \in 1 .. n : p[i].write = op[writers[j]].id /\ p[i].key \in op[writers[j]].keys
      BY <1>7 DEF PutsOf
    <3>2. op'[writers'[j]] = op[writers[j]]
      BY <1>6
    <3> QED
      BY <3>1, <3>2
  <2>2. \A j \in 1 .. n : \A key \in op'[writers'[j]].keys : \E i \in 1 .. Len(p) :
          p[i].key = key /\ p[i].write = op'[writers'[j]].id
    <3> SUFFICES ASSUME NEW j \in 1 .. n, NEW key \in op'[writers'[j]].keys
                 PROVE  \E i \in 1 .. Len(p) :
                          p[i].key = key /\ p[i].write = op'[writers'[j]].id
      OBVIOUS
    <3>1. op'[writers'[j]] = op[writers[j]]
      BY <1>6
    <3>2. \E i \in 1 .. Len(p) : p[i].key = key /\ p[i].write = op[writers[j]].id
      BY <3>1, <1>7 DEF PutsOf
    <3> QED
      BY <3>1, <3>2
  <2>3. \A i, k \in 1 .. Len(p) : \A a, b \in 1 .. n :
          /\ i <= k
          /\ p[i].write = op'[writers'[a]].id /\ p[k].write = op'[writers'[b]].id
          => a <= b
    <3> SUFFICES ASSUME NEW i \in 1 .. Len(p), NEW k \in 1 .. Len(p),
                        NEW a \in 1 .. n, NEW b \in 1 .. n, i <= k,
                        p[i].write = op'[writers'[a]].id,
                        p[k].write = op'[writers'[b]].id
                 PROVE  a <= b
      OBVIOUS
    <3>1. p[i].write = op[writers[a]].id /\ p[k].write = op[writers[b]].id
      BY <1>6
    <3> QED
      BY <3>1, <1>7 DEF PutsOf
  <2> QED
    BY <2>1, <2>2, <2>3 DEF PutsOf
<1>9. PutsOf(group.puts, group.n)'
  BY <1>5, <1>8
<1> QED
  BY <1>1, <1>3, <1>9 DEF GroupOf

LEMMA LeaderAtWork ==
  ASSUME IInv, SInv, NEW t \in Threads, pc[t] \in Working
  PROVE  /\ GroupFields /\ writers[1] = t
         /\ group.n \in 1 .. Len(writers) /\ Len(writers) \in Nat
         /\ GroupOf(t) /\ Len(group.puts) \in Nat
         /\ \A u \in Threads : pc[u] \in Working => u = t
<1>1. GroupOf(t)
  BY DEF SInv, Group
<1>2. Len(group.puts) \in Nat
  BY <1>1, LenProperties DEF GroupOf
<1>3. Len(writers) \in Nat
  BY DEF IInv, Types
<1> QED
  BY <1>1, <1>2, <1>3 DEF IInv, Leader

(* The leader goes on with its group.                                      *)
LEMMA LeaderStep ==
  ASSUME IInv, SInv, NEW t \in Threads, pc[t] \in Working, NEW label \in Working,
         pc' = [pc EXCEPT ![t] = label],
         UNCHANGED <<op, writers, done, lastSequence, committed, returned, started>>,
         group'.puts = group.puts, group'.n = group.n
  PROVE  /\ Ops' /\ Commits' /\ Outcome' /\ Group'
         /\ pc'[t] = label /\ \A u \in Threads : pc'[u] \in Working => u = t
         /\ \A u \in Threads \ {t} : pc'[u] = pc[u]
<1>1. pc'[t] = label /\ \A u \in Threads \ {t} : pc'[u] = pc[u]
  BY LabelsAfter
<1>2. \A u \in Threads : pc'[u] \in Working <=> pc[u] \in Working
  BY <1>1
<1>3. \A u \in Threads : Writing(u)' = Writing(u)
  BY <1>1, <1>2 DEF Writing
<1>4. Ops' /\ Commits' /\ Outcome'
  BY <1>3, StillTheSame
<1>5. /\ GroupOf(t) /\ group.n \in 1 .. Len(writers)
      /\ \A u \in Threads : pc[u] \in Working => u = t
  BY LeaderAtWork
<1>6. started \in Nat /\ started <= started
  BY DEF SInv, Ops
<1>7. GroupOf(t)'
  BY <1>5, <1>6, GroupStays DEF SInv
<1> QED
  BY <1>1, <1>2, <1>4, <1>5, <1>7 DEF Group

(* Entries beyond a snapshot do not concern it.                            *)
LEMMA LookupStays ==
  ASSUME NEW key, NEW s, entries \subseteq entries',
         \A e \in entries' : e \in entries \/ ~(e.seq <= s)
  PROVE  Lookup(key, s)' = Lookup(key, s)
<1>1. {e \in entries' : e.key = key /\ e.seq <= s} = {e \in entries : e.key = key /\ e.seq <= s}
  OBVIOUS
<1> DEFINE found == {e \in entries : e.key = key /\ e.seq <= s}
           newest(F) == IF F = {} THEN None
                        ELSE (CHOOSE e \in F : \A f \in F : f.seq <= e.seq).write
<1>2. Lookup(key, s) = newest(found)
  BY Zenon DEF Lookup
<1>3. Lookup(key, s)' = newest(found')
  BY Zenon DEF Lookup
<1>4. found' = found
  BY <1>1
<1> HIDE DEF found, newest
<1> QED
  BY <1>2, <1>3, <1>4

LEMMA SnapshotsStay ==
  ASSUME SInv, lastSequence' \in Nat, lastSequence <= lastSequence',
         entries \subseteq entries',
         \A e \in entries' : e \in entries \/ e.seq > lastSequence,
         \A e \in entries' : e.seq \in Nat,
         \A u \in Threads : pc'[u] = "reading" => pc[u] = "reading" /\ op'[u] = op[u]
  PROVE  Snapshots'
<1> SUFFICES ASSUME NEW u \in Threads, pc'[u] = "reading"
             PROVE  /\ op'[u].snapshot \in 0 .. lastSequence'
                    /\ (Lookup(op[u].key, op[u].snapshot) = op[u].expected)'
  BY DEF Snapshots, ReadsAreStable
<1>1. PICK key, s, x : key = op[u].key /\ s = op[u].snapshot /\ x = op[u].expected
  OBVIOUS
<1>2. s \in 0 .. lastSequence /\ Lookup(key, s) = x /\ lastSequence \in Nat
  BY <1>1 DEF SInv, Snapshots, ReadsAreStable, Memtable
<1>3. \A e \in entries' : e \in entries \/ ~(e.seq <= s)
  BY <1>2
<1>4. Lookup(key, s)' = Lookup(key, s)
  BY <1>3, LookupStays
<1>5. op'[u].key = key /\ op'[u].snapshot = s /\ op'[u].expected = x
  BY <1>1
<1>6. (Lookup(op[u].key, op[u].snapshot))' = Lookup(key, s)'
  BY <1>5 DEF Lookup
<1> QED
  BY <1>2, <1>4, <1>5, <1>6

LEMMA SameEntries ==
  ASSUME SInv, UNCHANGED <<entries, lastSequence, committed>>,
         \A u \in Threads : pc'[u] = "reading" => pc[u] = "reading" /\ op'[u] = op[u]
  PROVE  Memtable' /\ Snapshots'
<1>1. Memtable'
  BY DEF SInv, Memtable
<1>2. /\ lastSequence' \in Nat /\ lastSequence <= lastSequence'
      /\ \A e \in entries' : e \in entries /\ e.seq \in Nat
  BY DEF SInv, Memtable
<1> QED
  BY <1>1, <1>2, SnapshotsStay

(* What is on the disk stays there.                                        *)
LEMMA LogsStay ==
  ASSUME SInv, log' \cup synced' \subseteq 1 .. started', synced \subseteq synced',
         UNCHANGED <<op, done, returned>>,
         \A t \in Threads : LoggedBy(t)' =>
           /\ Logged' \subseteq log'
           /\ pc'[t] # "sync" /\ op[t].sync => Logged' \subseteq synced'
  PROVE  Logs'
<1>1. SyncedWhenAnswered'
  BY DEF SInv, Logs, SyncedWhenAnswered, Answers
<1>2. \A t \in Threads :
        done'[t] # None /\ done'[t] = "ok" /\ op'[t].sync /\ op'[t].keys # {} =>
          op'[t].id \in synced'
  BY DEF SInv, Logs
<1> QED
  BY <1>1, <1>2 DEF Logs

-----------------------------------------------------------------------------
(* With the mutex released.                                                *)
LEMMA SameGroupInserted ==
  ASSUME SInv, NEW t \in Threads, pc[t] \in Working, pc'[t] \in Working,
         \A u \in Threads : pc[u] \in Working => u = t,
         \A u \in Threads : pc'[u] \in Working => u = t,
         group'.puts = group.puts, group'.left = group.left,
         UNCHANGED <<entries, lastSequence>>
  PROVE  Inserted'
BY DEF SInv, Inserted

(* A step of the leader on the log.                                        *)
LEMMA LogStep ==
  ASSUME IInv, SInv, NEW t \in Threads, pc[t] \in {"append", "sync"},
         NEW label \in {"sync", "insert", "finish"},
         pc' = [pc EXCEPT ![t] = label],
         UNCHANGED <<op, writers, done, lastSequence, committed, returned, started, entries>>,
         group'.puts = group.puts, group'.n = group.n, group'.left = group.left,
         group'.status \in {"ok", "error"},
         label = "finish" <=> group'.status = "error",
         log' \cup synced' \subseteq 1 .. started, synced \subseteq synced',
         label # "finish" => Logged \subseteq log',
         label = "insert" /\ op[t].sync => Logged \subseteq synced'
  PROVE  SInv'
<1>1. pc[t] \in Working /\ label \in Working
  BY DEF Working
<1>2. /\ Ops' /\ Commits' /\ Outcome' /\ Group'
      /\ pc'[t] = label /\ \A u \in Threads : pc'[u] \in Working => u = t
      /\ \A u \in Threads \ {t} : pc'[u] = pc[u]
  BY <1>1, LeaderStep
<1>3. /\ Len(group.puts) \in Nat /\ GroupOf(t)
      /\ \A u \in Threads : pc[u] \in Working => u = t
  BY <1>1, LeaderAtWork
<1>4. group.left = 1
  BY <1>1 DEF SInv, Progress
<1>5. Len(group.puts) >= 1
  <2>1. /\ writers[1] = t /\ group.n \in 1 .. Len(writers) /\ Len(writers) \in Nat
    BY <1>1, LeaderAtWork
  <2>2. PICK key \in op[t].keys : TRUE
    BY <1>3 DEF GroupOf
  <2>3. 1 \in 1 .. group.n /\ key \in op[writers[1]].keys
    BY <2>1, <2>2
  <2>4. \E i \in 1 .. Len(group.puts) : TRUE
    BY <2>3, <1>3 DEF GroupOf, PutsOf
  <2> QED
    BY <2>4, <1>3
<1>6. Progress'
  BY <1>2, <1>3, <1>4, <1>5 DEF Progress
<1>7. \A u \in Threads : pc'[u] = "reading" => pc[u] = "reading" /\ op'[u] = op[u]
  BY <1>2
<1>8. Memtable' /\ Snapshots'
  BY <1>7, SameEntries
<1>9. Inserted'
  BY <1>1, <1>2, <1>3, SameGroupInserted
<1>10. Logged' = Logged
  BY DEF Logged
<1>11. \A u \in Threads : LoggedBy(u)' =>
         /\ Logged' \subseteq log'
         /\ pc'[u] # "sync" /\ op[u].sync => Logged' \subseteq synced'
  <2> SUFFICES ASSUME NEW u \in Threads, LoggedBy(u)'
               PROVE  /\ Logged' \subseteq log'
                      /\ pc'[u] # "sync" /\ op[u].sync => Logged' \subseteq synced'
    OBVIOUS
  <2>1. u = t
    BY <1>2 DEF LoggedBy, Working
  <2>2. label # "finish"
    BY <2>1, <1>2 DEF LoggedBy
  <2> QED
    BY <2>1, <2>2, <1>2, <1>10
<1>12. Logs'
  BY <1>11, LogsStay
<1> QED
  BY <1>2, <1>6, <1>8, <1>9, <1>12 DEF SInv

LEMMA AddRecordKeepsS ==
  ASSUME IInv, SInv, NEW t \in Threads, AddRecord(t) PROVE SInv'
<1>1. /\ pc[t] = "append" /\ log' = log \cup Logged
      /\ pc' = [pc EXCEPT ![t] = IF op[t].sync THEN "sync" ELSE "insert"]
      /\ UNCHANGED <<op, writers, done, group, synced, entries, lastSequence,
                     started, committed, returned>>
  BY DEF AddRecord, Go
<1>2. pc[t] \in Working /\ log \cup synced \subseteq 1 .. started
  BY <1>1 DEF Working, SInv, Logs
<1>3. GroupFields /\ group.n \in 1 .. Len(writers) /\ GroupOf(t)
  BY <1>2, LeaderAtWork
<1>4. Logged \subseteq 1 .. started /\ started \in Nat
  BY <1>3, LoggedWrites DEF GroupOf, SInv, Ops
<1>6. log' \cup synced \subseteq 1 .. started /\ Logged \subseteq log'
  BY <1>1, <1>2, <1>4
<1>8. group.status = "ok"
  BY <1>1, <1>2 DEF SInv, Progress
<1>9. CASE op[t].sync
  BY <1>1, <1>6, <1>8, <1>9, LogStep
<1>10. CASE ~op[t].sync
  BY <1>1, <1>6, <1>8, <1>10, LogStep
<1> QED
  BY <1>9, <1>10

LEMMA AddRecordFailsKeepsS ==
  ASSUME IInv, SInv, NEW t \in Threads, AddRecordFails(t) PROVE SInv'
<1>1. /\ pc[t] = "append" /\ log' \in {log, log \cup Logged}
      /\ pc' = [pc EXCEPT ![t] = "finish"]
      /\ group' = [group EXCEPT !.status = "error"]
      /\ UNCHANGED <<op, writers, done, synced, entries, lastSequence,
                     started, committed, returned>>
  BY DEF AddRecordFails, Go
<1>2. pc[t] \in Working /\ log \cup synced \subseteq 1 .. started
  BY <1>1 DEF Working, SInv, Logs
<1>3. GroupFields /\ group.n \in 1 .. Len(writers) /\ GroupOf(t)
  BY <1>2, LeaderAtWork
<1>4. Logged \subseteq 1 .. started /\ started \in Nat
  BY <1>3, LoggedWrites DEF GroupOf, SInv, Ops
<1>6. log' \cup synced \subseteq 1 .. started
  BY <1>1, <1>2, <1>4
<1>8. /\ group'.puts = group.puts /\ group'.n = group.n
      /\ group'.left = group.left /\ group'.status = "error"
  BY <1>1, <1>3 DEF GroupFields
<1> QED
  BY <1>1, <1>6, <1>8, LogStep

LEMMA SyncKeepsS ==
  ASSUME IInv, SInv, NEW t \in Threads, Sync(t) PROVE SInv'
<1>1. /\ pc[t] = "sync" /\ synced' = synced \cup log
      /\ pc' = [pc EXCEPT ![t] = "insert"]
      /\ UNCHANGED <<op, writers, done, group, log, entries, lastSequence,
                     started, committed, returned>>
  BY DEF Sync, Go
<1>2. log \cup synced \subseteq 1 .. started /\ Logged \subseteq log
  BY <1>1 DEF SInv, Logs, LoggedBy
<1>3. group.status = "ok"
  BY <1>1 DEF SInv, Progress, Working
<1>4. log \cup synced' \subseteq 1 .. started /\ Logged \subseteq synced'
  BY <1>1, <1>2
<1> QED
  BY <1>1, <1>2, <1>3, <1>4, LogStep

LEMMA SyncFailsKeepsS ==
  ASSUME IInv, SInv, NEW t \in Threads, SyncFails(t) PROVE SInv'
<1>1. /\ pc[t] = "sync"
      /\ group' = [group EXCEPT !.status = "error", !.syncError = TRUE]
      /\ pc' = [pc EXCEPT ![t] = "finish"]
      /\ UNCHANGED <<op, writers, done, log, synced, entries, lastSequence,
                     started, committed, returned>>
  BY DEF SyncFails, Go
<1>2. log \cup synced \subseteq 1 .. started
  BY DEF SInv, Logs
<1>3. GroupFields
  BY <1>1, LeaderAtWork DEF Working
<1>4. /\ group'.puts = group.puts /\ group'.n = group.n
      /\ group'.left = group.left /\ group'.status = "error"
  BY <1>1, <1>3 DEF GroupFields
<1> QED
  BY <1>1, <1>2, <1>4, LogStep

LEMMA InsertKeepsS ==
  ASSUME IInv, SInv, NEW t \in Threads, InsertInto(t) PROVE SInv'
<1> DEFINE put == group.puts[group.left]
<1>1. /\ pc[t] = "insert" /\ group.left <= Len(group.puts)
      /\ entries' = entries \cup {put}
      /\ group' = [group EXCEPT !.left = @ + 1]
      /\ pc' = [pc EXCEPT ![t] = IF group.left = Len(group.puts) THEN "finish" ELSE "insert"]
      /\ UNCHANGED <<op, writers, done, log, synced, lastSequence, committed, returned,
                     started>>
  BY DEF InsertInto, Go
<1>2. /\ GroupFields /\ GroupOf(t) /\ Len(group.puts) \in Nat
      /\ \A u \in Threads : pc[u] \in Working => u = t
  BY <1>1, LeaderAtWork DEF Working
<1>3. /\ group'.puts = group.puts /\ group'.n = group.n /\ group'.status = group.status
      /\ group'.left = group.left + 1
  BY <1>1, <1>2 DEF GroupFields
<1>4. group.left \in 1 .. Len(group.puts) /\ group.status = "ok"
  BY <1>1, <1>2 DEF SInv, Progress, Working
<1>5. /\ Ops' /\ Commits' /\ Outcome' /\ Group'
      /\ pc'[t] = (IF group.left = Len(group.puts) THEN "finish" ELSE "insert")
      /\ \A u \in Threads : pc'[u] \in Working => u = t
      /\ \A u \in Threads \ {t} : pc'[u] = pc[u]
  <2>1. pc[t] \in Working
    BY <1>1 DEF Working
  <2>2. (IF group.left = Len(group.puts) THEN "finish" ELSE "insert") \in Working
    BY DEF Working
  <2> QED
    BY <2>1, <2>2, <1>1, <1>3, LeaderStep
<1>6. Progress'
  BY <1>2, <1>3, <1>4, <1>5 DEF Progress
<1>7. put.seq = lastSequence + group.left /\ lastSequence \in Nat
  BY <1>2, <1>4 DEF GroupOf, SInv, Memtable
<1>8. put.seq \in Nat /\ put.seq > lastSequence
  BY <1>4, <1>7
<1>9. \A e \in entries : e.seq # put.seq
  <2> SUFFICES ASSUME NEW e \in entries, e.seq = put.seq PROVE FALSE
    OBVIOUS
  <2>1. e.seq > lastSequence
    BY <1>8
  <2>2. PICK i \in 1 .. group.left - 1 : e = group.puts[i]
    BY <2>1 DEF SInv, Inserted
  <2>3. e.seq = lastSequence + i
    BY <2>2, <1>2, <1>4 DEF GroupOf
  <2> QED
    BY <2>2, <2>3, <1>4, <1>7
<1> HIDE DEF put
<1>10. Memtable'
  <2>1. \A e \in entries' : e.seq \in Nat
    BY <1>1, <1>8 DEF SInv, Memtable
  <2>2. \A e, f \in entries' : e.seq = f.seq => e = f
    BY <1>1, <1>9 DEF SInv, Memtable
  <2>3. \A e \in entries' : e.seq <= lastSequence => e \in entries
    BY <1>1, <1>7, <1>8
  <2>4. \A e \in entries' : e.seq <= lastSequence =>
          \E i \in 1 .. Len(committed) :
             committed[i].id = e.write /\ e.key \in committed[i].keys
    BY <2>3 DEF SInv, Memtable
  <2>5. \A i \in 1 .. Len(committed) : \A key \in committed[i].keys :
          \E e \in entries' :
             e.key = key /\ e.write = committed[i].id /\ e.seq <= lastSequence
    BY <1>1 DEF SInv, Memtable
  <2>6. ASSUME NEW e \in entries', NEW f \in entries', NEW i \in 1 .. Len(committed),
               NEW j \in 1 .. Len(committed), e.seq <= f.seq, f.seq <= lastSequence,
               committed[i].id = e.write, committed[j].id = f.write
        PROVE  i <= j
    <3>1. e \in entries /\ f \in entries
      BY <2>1, <2>3, <2>6, <1>7
    <3> QED
      BY <3>1, <2>6 DEF SInv, Memtable
  <2> QED
    BY <2>1, <2>2, <2>4, <2>5, <2>6, <1>1, <1>7 DEF Memtable
<1>11. Inserted'
  <2>1. \A u \in Threads : pc'[u] \in Working =>
          \A i \in 1 .. group'.left - 1 : group'.puts[i] \in entries'
    <3> SUFFICES ASSUME NEW i \in 1 .. group.left PROVE group.puts[i] \in entries'
      BY <1>3, <1>4
    <3>1. CASE i = group.left
      BY <3>1, <1>1 DEF put
    <3>2. CASE i \in 1 .. group.left - 1
      BY <3>2, <1>1 DEF SInv, Inserted, Working
    <3> QED
      BY <3>1, <3>2, <1>4
  <2>2. ASSUME NEW e \in entries', e.seq > lastSequence
        PROVE  \E u \in Threads : /\ pc'[u] \in Working
                                  /\ \E i \in 1 .. group'.left - 1 : e = group'.puts[i]
    <3>1. pc'[t] \in Working
      BY <1>5 DEF Working
    <3>2. CASE e = put
      <4>1. group.left \in 1 .. group'.left - 1
        BY <1>3, <1>4
      <4> QED
        BY <3>1, <3>2, <4>1, <1>3 DEF put
    <3>3. CASE e \in entries
      <4>1. PICK i \in 1 .. group.left - 1 : e = group.puts[i]
        BY <3>3, <2>2 DEF SInv, Inserted
      <4>2. i \in 1 .. group'.left - 1
        BY <1>3, <1>4
      <4> QED
        BY <3>1, <4>1, <4>2, <1>3
    <3> QED
      BY <3>2, <3>3, <1>1
  <2> QED
    BY <2>1, <2>2, <1>1 DEF Inserted
<1>12. Snapshots'
  <2>1. \A u \in Threads : pc'[u] = "reading" => pc[u] = "reading" /\ op'[u] = op[u]
    BY <1>1, <1>5
  <2>2. \A e \in entries' : e \in entries \/ e.seq > lastSequence
    BY <1>1, <1>8
  <2>3. lastSequence' \in Nat /\ lastSequence <= lastSequence' /\ entries \subseteq entries'
    BY <1>1, <1>7
  <2>4. \A e \in entries' : e.seq \in Nat
    BY <1>10 DEF Memtable
  <2> QED
    BY <2>1, <2>2, <2>3, <2>4, SnapshotsStay
<1>13. Logs'
  <2>1. /\ log \cup synced \subseteq 1 .. started
        /\ Logged \subseteq log /\ (op[t].sync => Logged \subseteq synced)
    BY <1>1, <1>4 DEF SInv, Logs, LoggedBy
  <2>2. Logged' = Logged
    BY <1>3 DEF Logged
  <2>3. \A u \in Threads : LoggedBy(u)' => u = t
    BY <1>5 DEF LoggedBy, Working
  <2> QED
    BY <2>1, <2>2, <2>3, <1>1, LogsStay
<1> QED
  BY <1>5, <1>6, <1>10, <1>11, <1>12, <1>13 DEF SInv
-----------------------------------------------------------------------------
(* A group is made.                                                        *)
LEMMA LeadKeepsS ==
  ASSUME IInv, SInv, NEW t \in Threads, Lead(t) PROVE SInv'
<1>1. /\ MyTurn(t) /\ op[t].keys # {} /\ pc' = [pc EXCEPT ![t] = "append"]
      /\ UNCHANGED <<op, writers, done, synced, entries, lastSequence, committed,
                     returned, started>>
      /\ log' \in {log, {}}
  BY DEF Lead, MakeRoomForWrite
<1>2. /\ writers # <<>> /\ Len(writers) \in Nat /\ writers[1] = t /\ pc[t] = "queued"
      /\ \A u \in Threads : pc[u] \notin Working
  BY <1>1, NobodyWorks
<1>3. PICK n \in GroupSizes(t) : group' = BuildBatchGroup(n)
  BY DEF Lead
<1>4. /\ n \in 1 .. Len(writers) /\ \A i \in 2 .. n : op[writers[i]].sync => op[t].sync
  BY <1>3 DEF GroupSizes, MayJoin
<1>5. group'.n = n /\ group'.left = 1 /\ group'.status = "ok"
  BY <1>3 DEF BuildBatchGroup
<1>6. lastSequence \in Nat /\ Ops
  BY DEF SInv, Memtable
<1>7. PICK p : p = group'.puts
  OBVIOUS
<1>8. /\ p \in Seq(PutRecords) /\ PutsOf(p, n)
      /\ \A i \in 1 .. Len(p) : p[i].seq = lastSequence + i
  BY <1>3, <1>4, <1>6, <1>7, Built
<1>9. pc'[t] = "append" /\ \A u \in Threads \ {t} : pc'[u] = pc[u]
  BY <1>1, LabelsAfter
<1>10. \A u \in Threads : /\ pc'[u] \in Working <=> u = t
                          /\ Writing(u)' = Writing(u)
                          /\ pc'[u] = "reading" => pc[u] = "reading" /\ op'[u] = op[u]
  BY <1>1, <1>2, <1>9 DEF Writing, Working
<1>11. Ops' /\ Commits' /\ Outcome'
  BY <1>1, <1>10, StillTheSame
<1>12. \A j \in 1 .. n : op[writers[j]].sync => op[t].sync
  BY <1>2, <1>4
<1>13. GroupOf(t)'
  <2>1. PutsOf(p, n)'
    BY <1>1, <1>8 DEF PutsOf
  <2>2. PutsOf(group.puts, group.n)'
    BY <2>1, <1>5, <1>7
  <2>3. p \in Seq(PutRecords')
    BY <1>1, <1>8 DEF PutRecords
  <2> QED
    BY <2>2, <2>3, <1>1, <1>5, <1>7, <1>8, <1>12 DEF GroupOf
<1>14. Group'
  BY <1>10, <1>13 DEF Group
<1>15. Len(p) \in Nat
  BY <1>8, LenProperties
<1>16. Progress'
  BY <1>5, <1>7, <1>9, <1>10, <1>15 DEF Progress
<1>17. Memtable' /\ Snapshots'
  BY <1>1, <1>10, SameEntries
<1>18. Inserted'
  BY <1>1, <1>2, <1>5, <1>10 DEF SInv, Inserted
<1>19. Logs'
  <2>1. \A u \in Threads : ~LoggedBy(u)'
    BY <1>9, <1>10 DEF LoggedBy, Working
  <2>2. log' \cup synced \subseteq 1 .. started
    BY <1>1 DEF SInv, Logs
  <2> QED
    BY <2>1, <2>2, <1>1, LogsStay
<1> QED
  BY <1>11, <1>14, <1>16, <1>17, <1>18, <1>19 DEF SInv

-----------------------------------------------------------------------------
(* With the mutex: answers.                                                *)
LEMMA DequeueAnswers ==
  ASSUME NEW n, NEW s, Dequeue(n, s), NEW u \in Threads
  PROVE  \/ (\E i \in 1 .. n : writers[i] = u) /\ done'[u] = s
         \/ (\A i \in 1 .. n : writers[i] # u) /\ done'[u] = done[u]
BY DEF Dequeue

LEMMA AnswerFirstKeepsS ==
  ASSUME IInv, SInv, NEW t \in Threads, MyTurn(t),
         NEW s \in {"ok", "error"}, Dequeue(1, s), s = "ok" => op[t].keys = {},
         UNCHANGED <<pc, op, group, synced, entries, lastSequence, committed,
                     returned, started>>,
         log' \in {log, {}}
  PROVE  SInv'
<1>1. /\ writers[1] = t /\ pc[t] = "queued" /\ done[t] = None
      /\ \A u \in Threads : pc[u] \notin Working
  BY NobodyWorks DEF MyTurn
<1>2. \A u \in Threads : u # t => done'[u] = done[u]
  BY <1>1, DequeueAnswers
<1>3. done'[t] = s /\ Writing(t)
  <2>1. 1 \in 1 .. 1
    OBVIOUS
  <2> QED
    BY <2>1, <1>1, DequeueAnswers DEF Writing
<1>4. \A id : IsCommitted(id)' = IsCommitted(id)
  BY DEF IsCommitted
<1>5. ~IsCommitted(op[t].id)
  BY <1>1, <1>3 DEF SInv, Commits
<1>6. \A u \in Threads : Writing(u)' = Writing(u)
  BY DEF Writing
<1>7. Ops'
  BY <1>6 DEF SInv, Ops
<1>8. Commits'
  BY <1>2, <1>4, <1>5, <1>6 DEF SInv, Commits
<1>9. Outcome'
  BY <1>2, <1>3, <1>4, <1>5 DEF SInv, Outcome
<1>10. Group' /\ Progress'
  BY <1>1 DEF Group, Progress
<1>11. Memtable' /\ Snapshots'
  BY SameEntries
<1>12. Inserted'
  BY <1>1 DEF SInv, Inserted
<1>13. Logs'
  <2>1. \A u \in Threads : ~LoggedBy(u)'
    BY <1>1 DEF LoggedBy, Working
  <2>2. SyncedWhenAnswered'
    BY DEF SInv, Logs, SyncedWhenAnswered, Answers
  <2>3. \A u \in Threads :
          done'[u] # None /\ done'[u] = "ok" /\ op[u].sync /\ op[u].keys # {} => op[u].id \in synced
    BY <1>2, <1>3 DEF SInv, Logs
  <2> QED
    BY <2>1, <2>2, <2>3 DEF SInv, Logs
<1> QED
  BY <1>7, <1>8, <1>9, <1>10, <1>11, <1>12, <1>13 DEF SInv

(* What Finish adds to the completed writes: those of the group that have  *)
(* something to put, if it succeeded.                                      *)
NewlyCompleted(new) ==
  /\ new \in Seq(CommitRecords(started))
  /\ \A i \in 1 .. Len(new) : \E j \in 1 .. group.n :
       /\ new[i].id = op[writers[j]].id /\ new[i].keys = op[writers[j]].keys
       /\ op[writers[j]].keys # {} /\ group.status = "ok"
  /\ \A j \in 1 .. group.n : op[writers[j]].keys # {} /\ group.status = "ok" =>
       \E i \in 1 .. Len(new) : new[i].id = op[writers[j]].id
  /\ \A i, k \in 1 .. Len(new) : \A a, b \in 1 .. group.n :
       /\ new[i].id = op[writers[a]].id /\ new[k].id = op[writers[b]].id
       /\ i < k
       => a < b

LEMMA FinishCompletes ==
  ASSUME IInv, SInv, NEW t \in Threads, Finish(t)
  PROVE  \E new : NewlyCompleted(new) /\ committed' = committed \o new
<1>1. /\ pc[t] \in Working
      /\ committed' = IF group.status = "ok" THEN committed \o Completed ELSE committed
  BY DEF Finish, Working
<1>2. GroupOf(t) /\ group.n \in 1 .. Len(writers)
  BY <1>1, LeaderAtWork
<1>3. CASE group.status = "ok"
  <2>1. NewlyCompleted(Completed)
    BY <1>2, <1>3, CompletedWrites DEF NewlyCompleted, GroupOf, SInv
  <2> QED
    BY <2>1, <1>1, <1>3
<1>4. CASE group.status # "ok"
  <2>1. NewlyCompleted(<<>>)
    BY <1>4 DEF NewlyCompleted
  <2>2. committed \in Seq(CommitRecords(started))
    BY DEF SInv, Commits
  <2>3. committed \o <<>> = committed
    BY <2>2, ConcatEmptySeq
  <2> QED
    BY <2>1, <2>3, <1>1, <1>4
<1> QED
  BY <1>3, <1>4

(* What is not in the first part of a concatenation is in the second.      *)
LEMMA SecondPart ==
  ASSUME NEW S, NEW s \in Seq(S), NEW u \in Seq(S), NEW i \in 1 .. Len(s \o u),
         i \notin 1 .. Len(s)
  PROVE  \E k \in 1 .. Len(u) : i = Len(s) + k /\ (s \o u)[i] = u[k]
<1> DEFINE k == i - Len(s)
<1>1. Len(s) \in Nat /\ Len(u) \in Nat /\ Len(s \o u) = Len(s) + Len(u)
  OBVIOUS
<1>2. k \in 1 .. Len(u) /\ i = Len(s) + k
  BY <1>1
<1>3. (s \o u)[i] = u[k]
  BY <1>1, <1>2
<1> QED
  BY <1>2, <1>3

(* Which completed writes Finish added.                                    *)
LEMMA FinishAdded ==
  ASSUME SInv, NEW new, NewlyCompleted(new), committed' = committed \o new,
         NEW i \in 1 .. Len(committed'), i \notin 1 .. Len(committed)
  PROVE  \E k \in 1 .. Len(new) : i = Len(committed) + k /\ committed'[i] = new[k]
<1>1. committed \in Seq(CommitRecords(started)) /\ new \in Seq(CommitRecords(started))
  BY DEF SInv, Commits, NewlyCompleted
<1> QED
  BY <1>1, SecondPart

(* The completed writes after Finish.                                      *)
LEMMA FinishAdds ==
  ASSUME IInv, SInv, NEW t \in Threads, Finish(t),
         NEW new, NewlyCompleted(new), committed' = committed \o new
  PROVE  /\ committed' \in Seq(CommitRecords(started))
         /\ Len(committed) \in Nat /\ Len(new) \in Nat
         /\ Len(committed') = Len(committed) + Len(new)
         /\ \A i \in 1 .. Len(committed) : committed'[i] = committed[i]
         /\ \A i \in 1 .. Len(new) : committed'[Len(committed) + i] = new[i]
         /\ \A j \in 1 .. group.n : ~IsCommitted(op[writers[j]].id)
         /\ \A i, j \in 1 .. Len(committed') : committed'[i].id = committed'[j].id => i = j
<1>1. committed \in Seq(CommitRecords(started)) /\ new \in Seq(CommitRecords(started))
  BY DEF SInv, Commits, NewlyCompleted
<1>2. /\ committed' \in Seq(CommitRecords(started))
      /\ Len(committed) \in Nat /\ Len(new) \in Nat
      /\ Len(committed') = Len(committed) + Len(new)
      /\ \A i \in 1 .. Len(committed) : committed'[i] = committed[i]
      /\ \A i \in 1 .. Len(new) : committed'[Len(committed) + i] = new[i]
  BY <1>1
<1>3. pc[t] \in Working
  BY DEF Finish, Working
<1>4. group.n \in 1 .. Len(writers) /\ Len(writers) \in Nat
  BY <1>3, LeaderAtWork
<1>5. ASSUME NEW j \in 1 .. group.n PROVE ~IsCommitted(op[writers[j]].id)
  <2>1. j \in 1 .. Len(writers)
    BY <1>4
  <2>2. writers[j] \in Threads /\ Writing(writers[j]) /\ done[writers[j]] = None
    BY <2>1, QueueOps DEF SInv, IInv, Queue
  <2> QED
    BY <2>2 DEF SInv, Commits
<1>6. ASSUME NEW i \in 1 .. Len(committed), NEW j \in 1 .. Len(new)
      PROVE  committed[i].id # new[j].id
  <2>1. PICK k \in 1 .. group.n : new[j].id = op[writers[k]].id
    BY DEF NewlyCompleted
  <2> QED
    BY <2>1, <1>5 DEF IsCommitted
<1>7. ASSUME NEW i \in 1 .. Len(new), NEW j \in 1 .. Len(new), i < j
      PROVE  new[i].id # new[j].id
  <2> SUFFICES ASSUME new[i].id = new[j].id PROVE FALSE
    OBVIOUS
  <2>1. PICK k \in 1 .. group.n : new[i].id = op[writers[k]].id
    BY DEF NewlyCompleted
  <2>3. new[i].id = op[writers[k]].id /\ new[j].id = op[writers[k]].id /\ i < j
    BY <2>1, <1>7
  <2>2. k < k
    BY <2>3 DEF NewlyCompleted
  <2> QED
    BY <2>2, <1>4
<1>8. ASSUME NEW i \in 1 .. Len(committed'), NEW j \in 1 .. Len(committed'),
             i < j
      PROVE  committed'[i].id # committed'[j].id
  <2>1. CASE j \in 1 .. Len(committed)
    <3>1. i \in 1 .. Len(committed)
      BY <2>1, <1>2, <1>8
    <3> QED
      BY <2>1, <3>1, <1>2, <1>8 DEF SInv, Commits
  <2>2. CASE j \notin 1 .. Len(committed) /\ i \in 1 .. Len(committed)
    <3>1. PICK b \in 1 .. Len(new) : j = Len(committed) + b /\ committed'[j] = new[b]
      BY <2>2, FinishAdded
    <3> QED
      BY <2>2, <3>1, <1>2, <1>6, Zenon
  <2>3. CASE i \notin 1 .. Len(committed)
    <3>1. PICK a \in 1 .. Len(new) : i = Len(committed) + a /\ committed'[i] = new[a]
      BY <2>3, FinishAdded
    <3>4. j \notin 1 .. Len(committed)
      BY <2>3, <1>2, <1>8
    <3>2. PICK b \in 1 .. Len(new) : j = Len(committed) + b /\ committed'[j] = new[b]
      BY <3>4, FinishAdded
    <3>3. a < b
      BY <3>1, <3>2, <1>2, <1>8
    <3> QED
      BY <3>1, <3>2, <3>3, <1>7
  <2> QED
    BY <2>1, <2>2, <2>3
<1>9. \A i, j \in 1 .. Len(committed') : committed'[i].id = committed'[j].id => i = j
  <2> SUFFICES ASSUME NEW i \in 1 .. Len(committed'), NEW j \in 1 .. Len(committed'),
                      committed'[i].id = committed'[j].id, i # j
               PROVE  FALSE
    OBVIOUS
  <2>1. i < j \/ j < i
    BY <1>2
  <2> QED
    BY <2>1, <1>8
<1> QED
  BY <1>2, <1>5, <1>9

(* Who gets which answer, and what is completed then.                      *)
LEMMA FinishAnswers ==
  ASSUME IInv, SInv, NEW t \in Threads, Finish(t),
         NEW new, NewlyCompleted(new), committed' = committed \o new
  PROVE  /\ \A id : IsCommitted(id)' <=>
              IsCommitted(id) \/ \E i \in 1 .. Len(new) : new[i].id = id
         /\ \A u \in Threads : Writing(u)' = Writing(u)
         /\ \A u \in Threads : pc'[u] \notin Working
         /\ Ops' /\ Commits' /\ Outcome'
<1>1. /\ pc[t] = "finish" /\ pc' = [pc EXCEPT ![t] = "queued"]
      /\ Dequeue(group.n, group.status)
      /\ UNCHANGED <<op, returned, started>>
  BY DEF Finish, Go
<1>2. /\ committed' \in Seq(CommitRecords(started))
      /\ Len(committed) \in Nat /\ Len(new) \in Nat
      /\ Len(committed') = Len(committed) + Len(new)
      /\ \A i \in 1 .. Len(committed) : committed'[i] = committed[i]
      /\ \A i \in 1 .. Len(new) : committed'[Len(committed) + i] = new[i]
      /\ \A j \in 1 .. group.n : ~IsCommitted(op[writers[j]].id)
      /\ \A i, j \in 1 .. Len(committed') : committed'[i].id = committed'[j].id => i = j
  BY FinishAdds
<1>3. ASSUME NEW id
      PROVE  IsCommitted(id)' <=>
               IsCommitted(id) \/ \E i \in 1 .. Len(new) : new[i].id = id
  <2>1. ASSUME NEW i \in 1 .. Len(committed'), committed'[i].id = id
        PROVE  IsCommitted(id) \/ \E k \in 1 .. Len(new) : new[k].id = id
    <3>1. CASE i \in 1 .. Len(committed)
      BY <2>1, <3>1, <1>2 DEF IsCommitted
    <3>2. CASE i \notin 1 .. Len(committed)
      <4>1. PICK k \in 1 .. Len(new) : i = Len(committed) + k /\ committed'[i] = new[k]
        BY <3>2, FinishAdded
      <4> QED
        BY <2>1, <4>1, <1>2
    <3> QED
      BY <3>1, <3>2
  <2>2. ASSUME IsCommitted(id) PROVE IsCommitted(id)'
    <3>1. PICK i \in 1 .. Len(committed) : committed[i].id = id
      BY <2>2 DEF IsCommitted
    <3>2. i \in 1 .. Len(committed') /\ committed'[i].id = id
      BY <3>1, <1>2
    <3> QED
      BY <3>2 DEF IsCommitted
  <2>3. ASSUME NEW k \in 1 .. Len(new), new[k].id = id PROVE IsCommitted(id)'
    <3>1. Len(committed) + k \in 1 .. Len(committed')
      BY <1>2
    <3>2. committed'[Len(committed) + k].id = id
      BY <2>3, <1>2
    <3> QED
      BY <3>1, <3>2 DEF IsCommitted
  <2> QED
    BY <2>1, <2>2, <2>3 DEF IsCommitted
<1>4. /\ writers[1] = t /\ group.n \in 1 .. Len(writers) /\ Len(writers) \in Nat
      /\ \A u \in Threads : pc[u] \in Working => u = t
  BY <1>1, LeaderAtWork DEF Working
<1>5. \A u \in Threads : /\ Writing(u)' = Writing(u)
                         /\ pc'[u] \notin Working
  <2>1. pc'[t] = "queued" /\ \A u \in Threads \ {t} : pc'[u] = pc[u]
    BY <1>1, LabelsAfter
  <2> QED
    BY <2>1, <1>1, <1>4 DEF Writing, Working
<1>6. Ops'
  BY <1>1, <1>5 DEF SInv, Ops
<1>7. \A j \in 1 .. group.n :
        /\ writers[j] \in Threads /\ Writing(writers[j]) /\ done[writers[j]] = None
  <2>1. \A j \in 1 .. group.n : j \in 1 .. Len(writers)
    BY <1>4
  <2> QED
    BY <2>1, QueueOps DEF SInv, IInv, Queue
<1>8. \A u \in Threads :
        \/ (\E j \in 1 .. group.n : writers[j] = u) /\ done'[u] = group.status
        \/ (\A j \in 1 .. group.n : writers[j] # u) /\ done'[u] = done[u]
  <2>1. Dequeue(group.n, group.status)
    BY <1>1
  <2> QED
    BY <2>1, DequeueAnswers
<1>9. group.status \in {"ok", "error"} /\ group.status # None
  BY <1>1, WritesAssumption DEF SInv, Progress, Working
<1>10. ASSUME NEW u \in Threads, Writing(u), \A j \in 1 .. group.n : writers[j] # u,
              NEW i \in 1 .. Len(new)
       PROVE  new[i].id # op[u].id
  <2>1. PICK j \in 1 .. group.n : new[i].id = op[writers[j]].id
    BY DEF NewlyCompleted
  <2> QED
    BY <2>1, <1>7, <1>10 DEF SInv, Ops
<1>11. Commits'
  <2>1. ASSUME NEW u \in Threads, Writing(u), done'[u] = None
        PROVE  ~(IsCommitted(op[u].id)')
    <3>1. (\A j \in 1 .. group.n : writers[j] # u) /\ done[u] = None
      BY <2>1, <1>8, <1>9
    <3>2. ~IsCommitted(op[u].id)
      BY <2>1, <3>1 DEF SInv, Commits
    <3>3. PICK id : id = op[u].id /\ id = op'[u].id
      BY <1>1
    <3>4. ~(IsCommitted(id)')
      BY <2>1, <3>1, <3>2, <3>3, <1>3, <1>10
    <3> QED
      BY <3>3, <3>4, <1>1 DEF IsCommitted
  <2> QED
    BY <2>1, <1>1, <1>2, <1>5 DEF Commits
<1>12. Outcome'
  <2> SUFFICES ASSUME NEW u \in Threads, done'[u] # None
               PROVE  /\ done'[u] \in {"ok", "error"}
                      /\ op'[u].keys # {} => (done'[u] = "ok" <=> IsCommitted(op[u].id)')
    BY DEF Outcome
  <2>1. PICK id : id = op[u].id /\ id = op'[u].id
    BY <1>1
  <2>2. IsCommitted(op[u].id)' = IsCommitted(id)'
    BY <2>1 DEF IsCommitted
  <2>3. CASE (\E j \in 1 .. group.n : writers[j] = u) /\ done'[u] = group.status
    <3>1. PICK j \in 1 .. group.n : writers[j] = u
      BY <2>3
    <3>2. ~IsCommitted(id)
      BY <2>1, <3>1, <1>2
    <3>3. op[u].keys # {} =>
            (group.status = "ok" <=> \E i \in 1 .. Len(new) : new[i].id = id)
      BY <2>1, <3>1 DEF NewlyCompleted
    <3> QED
      BY <2>2, <2>3, <3>2, <3>3, <1>1, <1>3, <1>9
  <2>4. CASE (\A j \in 1 .. group.n : writers[j] # u) /\ done'[u] = done[u]
    <3>1. Writing(u)
      BY <2>4 DEF IInv, Answered, Writing
    <3>2. /\ done[u] \in {"ok", "error"}
          /\ op[u].keys # {} => (done[u] = "ok" <=> IsCommitted(id))
      BY <2>1, <2>4 DEF SInv, Outcome
    <3>3. IsCommitted(id)' <=> IsCommitted(id)
      BY <2>1, <2>4, <3>1, <1>3, <1>10
    <3> QED
      BY <2>2, <2>4, <3>2, <3>3, <1>1
  <2> QED
    BY <2>3, <2>4, <1>8
<1> QED
  BY <1>3, <1>5, <1>6, <1>11, <1>12

(* The entries of the group become those of completed writes.              *)
LEMMA FinishMemtable ==
  ASSUME IInv, SInv, NEW t \in Threads, Finish(t),
         NEW new, NewlyCompleted(new), committed' = committed \o new
  PROVE  /\ Memtable' /\ lastSequence' >= lastSequence
         /\ \A e \in entries : e.seq <= lastSequence'
<1>1. /\ pc[t] = "finish" /\ lastSequence' = lastSequence + Len(group.puts)
      /\ UNCHANGED <<entries, op>>
  BY DEF Finish, Go
<1>2. /\ committed' \in Seq(CommitRecords(started))
      /\ Len(committed) \in Nat /\ Len(new) \in Nat
      /\ Len(committed') = Len(committed) + Len(new)
      /\ \A i \in 1 .. Len(committed) : committed'[i] = committed[i]
      /\ \A i \in 1 .. Len(new) : committed'[Len(committed) + i] = new[i]
      /\ \A j \in 1 .. group.n : ~IsCommitted(op[writers[j]].id)
      /\ \A i, j \in 1 .. Len(committed') : committed'[i].id = committed'[j].id => i = j
  BY FinishAdds
<1>3. /\ group.n \in 1 .. Len(writers) /\ GroupOf(t) /\ Len(group.puts) \in Nat
      /\ \A u \in Threads : pc[u] \in Working => u = t
  BY <1>1, LeaderAtWork DEF Working
<1>4. lastSequence \in Nat /\ lastSequence' \in Nat /\ lastSequence' >= lastSequence
      /\ \A e \in entries : e.seq \in Nat
  BY <1>1, <1>3 DEF SInv, Memtable
<1>5. /\ \A i \in 1 .. Len(group.puts) : group.puts[i].seq = lastSequence + i
      /\ PutsOf(group.puts, group.n)
  BY <1>3 DEF GroupOf
<1>6. \A i, j \in 1 .. group.n : op[writers[i]].id = op[writers[j]].id => i = j
  BY <1>3, QueueOps DEF SInv
<1>7. ASSUME NEW e \in entries, ~(e.seq <= lastSequence)
      PROVE  group.status = "ok" /\ \E i \in 1 .. Len(group.puts) : e = group.puts[i]
  <2>1. e.seq > lastSequence
    BY <1>4, <1>7
  <2>2. PICK i \in 1 .. group.left - 1 : e = group.puts[i]
    BY <2>1 DEF SInv, Inserted
  <2>3. group.left = IF group.status = "ok" THEN Len(group.puts) + 1 ELSE 1
    BY <1>1 DEF SInv, Progress, Working
  <2> QED
    BY <2>2, <2>3, <1>3
<1>8. group.status = "ok" => \A i \in 1 .. Len(group.puts) : group.puts[i] \in entries
  <2>1. group.status = "ok" => group.left - 1 = Len(group.puts)
    BY <1>1, <1>3 DEF SInv, Progress, Working
  <2> QED
    BY <2>1, <1>1 DEF SInv, Inserted, Working
<1>9. \A e \in entries : e.seq <= lastSequence'
  <2> SUFFICES ASSUME NEW e \in entries, ~(e.seq <= lastSequence)
               PROVE  e.seq <= lastSequence'
    BY <1>4
  <2>1. PICK i \in 1 .. Len(group.puts) : e = group.puts[i]
    BY <1>7
  <2> QED
    BY <2>1, <1>1, <1>3, <1>4, <1>5
<1>10. ASSUME NEW e \in entries, ~(e.seq <= lastSequence)
       PROVE  \E j \in 1 .. group.n :
                e.write = op[writers[j]].id /\ e.key \in op[writers[j]].keys
  <2>1. PICK i \in 1 .. Len(group.puts) : e = group.puts[i]
    BY <1>7, <1>10
  <2> QED
    BY <2>1, <1>5 DEF PutsOf
<1>11. ASSUME NEW e \in entries, e.seq <= lastSequence
       PROVE  \E i \in 1 .. Len(committed) :
                committed[i].id = e.write /\ e.key \in committed[i].keys
  BY <1>11 DEF SInv, Memtable
<1>12. ASSUME NEW e \in entries, ~(e.seq <= lastSequence)
       PROVE  \E i \in 1 .. Len(new) : new[i].id = e.write /\ e.key \in new[i].keys
  <2>1. PICK j \in 1 .. group.n :
          e.write = op[writers[j]].id /\ e.key \in op[writers[j]].keys
    BY <1>10, <1>12
  <2>2. PICK i \in 1 .. Len(new) : new[i].id = op[writers[j]].id
    BY <2>1, <1>7, <1>12 DEF NewlyCompleted
  <2>3. PICK k \in 1 .. group.n :
          new[i].id = op[writers[k]].id /\ new[i].keys = op[writers[k]].keys
    BY DEF NewlyCompleted
  <2>4. k = j
    BY <2>2, <2>3, <1>6
  <2> QED
    BY <2>1, <2>2, <2>3, <2>4
<1>13. ASSUME NEW e \in entries
       PROVE  \E i \in 1 .. Len(committed') :
                committed'[i].id = e.write /\ e.key \in committed'[i].keys
  <2>1. CASE e.seq <= lastSequence
    <3>1. PICK i \in 1 .. Len(committed) :
            committed[i].id = e.write /\ e.key \in committed[i].keys
      BY <2>1, <1>11
    <3>2. i \in 1 .. Len(committed') /\ committed'[i] = committed[i]
      BY <1>2
    <3> QED
      BY <3>1, <3>2
  <2>2. CASE ~(e.seq <= lastSequence)
    <3>1. PICK i \in 1 .. Len(new) : new[i].id = e.write /\ e.key \in new[i].keys
      BY <2>2, <1>12
    <3>2. Len(committed) + i \in 1 .. Len(committed')
          /\ committed'[Len(committed) + i] = new[i]
      BY <1>2
    <3> QED
      BY <3>1, <3>2
  <2> QED
    BY <2>1, <2>2
<1>14. ASSUME NEW i \in 1 .. Len(committed'), NEW key \in committed'[i].keys
       PROVE  \E e \in entries : e.key = key /\ e.write = committed'[i].id
  <2>1. CASE i \in 1 .. Len(committed)
    <3>1. key \in committed[i].keys /\ committed'[i] = committed[i]
      BY <2>1, <1>2, <1>14
    <3> QED
      BY <2>1, <3>1 DEF SInv, Memtable
  <2>2. CASE i \notin 1 .. Len(committed)
    <3>1. PICK k \in 1 .. Len(new) : i = Len(committed) + k /\ committed'[i] = new[k]
      BY <2>2, FinishAdded
    <3>2. committed'[i] = new[k]
      BY <3>1
    <3>3. PICK j \in 1 .. group.n :
            /\ new[k].id = op[writers[j]].id /\ new[k].keys = op[writers[j]].keys
            /\ group.status = "ok"
      BY DEF NewlyCompleted
    <3>5. key \in op[writers[j]].keys
      BY <3>2, <3>3, <1>14
    <3>4. PICK p \in 1 .. Len(group.puts) :
            group.puts[p].key = key /\ group.puts[p].write = op[writers[j]].id
      BY <3>5, <1>5 DEF PutsOf
    <3> QED
      BY <3>2, <3>3, <3>4, <1>8
  <2> QED
    BY <2>1, <2>2
<1>15. ASSUME NEW e \in entries, NEW f \in entries,
              NEW i \in 1 .. Len(committed'), NEW j \in 1 .. Len(committed'),
              e.seq <= f.seq, committed'[i].id = e.write, committed'[j].id = f.write
       PROVE  i <= j
  <2>1. CASE e.seq <= lastSequence
    <3>1. PICK a \in 1 .. Len(committed) : committed[a].id = e.write
      BY <2>1, <1>11
    <3>5. a \in 1 .. Len(committed') /\ committed'[a].id = committed'[i].id
      BY <3>1, <1>2, <1>15
    <3>2. i = a
      BY <3>5, <1>2
    <3>3. CASE f.seq <= lastSequence
      <4>1. PICK b \in 1 .. Len(committed) : committed[b].id = f.write
        BY <3>3, <1>11
      <4>3. b \in 1 .. Len(committed') /\ committed'[b].id = committed'[j].id
        BY <4>1, <1>2, <1>15
      <4>2. j = b
        BY <4>3, <1>2
      <4> QED
        BY <3>1, <3>2, <3>3, <4>1, <4>2, <1>15 DEF SInv, Memtable
    <3>4. CASE ~(f.seq <= lastSequence)
      <4>1. PICK b \in 1 .. group.n : f.write = op[writers[b]].id
        BY <3>4, <1>10
      <4>2. j \notin 1 .. Len(committed)
        BY <4>1, <1>2, <1>15 DEF IsCommitted
      <4> QED
        BY <3>1, <3>2, <4>2, <1>2
    <3> QED
      BY <3>3, <3>4
  <2>2. CASE ~(e.seq <= lastSequence)
    <3>1. ~(f.seq <= lastSequence)
      BY <2>2, <1>4, <1>15
    <3>2. PICK p \in 1 .. Len(group.puts) : e = group.puts[p]
      BY <2>2, <1>7
    <3>3. PICK q \in 1 .. Len(group.puts) : f = group.puts[q]
      BY <3>1, <1>7
    <3>4. p <= q
      BY <3>2, <3>3, <1>3, <1>4, <1>5, <1>15
    <3>5. PICK a \in 1 .. group.n : e.write = op[writers[a]].id
      BY <2>2, <1>10
    <3>6. PICK b \in 1 .. group.n : f.write = op[writers[b]].id
      BY <3>1, <1>10
    <3>7. a <= b
      BY <3>2, <3>3, <3>4, <3>5, <3>6, <1>5 DEF PutsOf
    <3>8. PICK k \in 1 .. Len(new) : new[k].id = e.write
      BY <2>2, <1>12
    <3>9. PICK l \in 1 .. Len(new) : new[l].id = f.write
      BY <3>1, <1>12
    <3>10. ~(l < k)
      <4> SUFFICES ASSUME l < k PROVE FALSE
        OBVIOUS
      <4>1. b < a
        BY <3>5, <3>6, <3>8, <3>9 DEF NewlyCompleted
      <4> QED
        BY <4>1, <3>7, <1>3
    <3>11. /\ Len(committed) + k \in 1 .. Len(committed')
           /\ Len(committed) + l \in 1 .. Len(committed')
      BY <1>2
    <3>13. /\ committed'[Len(committed) + k] = new[k]
           /\ committed'[Len(committed) + l] = new[l]
      BY <1>2
    <3>12. i = Len(committed) + k /\ j = Len(committed) + l
      <4>1. /\ committed'[Len(committed) + k].id = committed'[i].id
            /\ committed'[Len(committed) + l].id = committed'[j].id
        BY <3>8, <3>9, <3>13, <1>15
      <4> QED
        BY <4>1, <3>11, <1>2
    <3> QED
      BY <3>10, <3>12, <1>2
  <2> QED
    BY <2>1, <2>2
<1>16. \A e, f \in entries : e.seq = f.seq => e = f
  BY DEF SInv, Memtable
<1>17. Memtable'
  <2>1. entries' = entries
    BY <1>1
  <2>2. \A i \in 1 .. Len(committed') : \A key \in committed'[i].keys :
          \E e \in entries' :
            e.key = key /\ e.write = committed'[i].id /\ e.seq <= lastSequence'
    BY <2>1, <1>9, <1>14
  <2>3. \A e \in entries' : e.seq <= lastSequence' =>
          \E i \in 1 .. Len(committed') :
            committed'[i].id = e.write /\ e.key \in committed'[i].keys
    BY <2>1, <1>13
  <2>4. \A e, f \in entries' : \A i, j \in 1 .. Len(committed') :
          /\ e.seq <= f.seq /\ f.seq <= lastSequence'
          /\ committed'[i].id = e.write /\ committed'[j].id = f.write
          => i <= j
    BY <2>1, <1>15
  <2>5. /\ lastSequence' \in Nat /\ \A e \in entries' : e.seq \in Nat
        /\ \A e, f \in entries' : e.seq = f.seq => e = f
    BY <2>1, <1>4, <1>16
  <2> QED
    BY <2>2, <2>3, <2>4, <2>5 DEF Memtable
<1> QED
  BY <1>4, <1>9, <1>17

LEMMA FinishKeepsS ==
  ASSUME IInv, SInv, NEW t \in Threads, Finish(t) PROVE SInv'
<1>1. /\ pc[t] = "finish" /\ pc' = [pc EXCEPT ![t] = "queued"]
      /\ Dequeue(group.n, group.status)
      /\ UNCHANGED <<op, log, synced, entries, returned, started>>
  BY DEF Finish, Go
<1>2. PICK new : NewlyCompleted(new) /\ committed' = committed \o new
  BY FinishCompletes
<1>3. /\ Ops' /\ Commits' /\ Outcome' /\ \A u \in Threads : pc'[u] \notin Working
  BY <1>2, FinishAnswers
<1>4. /\ Memtable' /\ lastSequence' >= lastSequence
      /\ \A e \in entries : e.seq <= lastSequence'
  BY <1>2, FinishMemtable
<1>5. Group' /\ Progress'
  BY <1>3 DEF Group, Progress
<1>6. lastSequence \in Nat /\ lastSequence' \in Nat /\ \A e \in entries : e.seq \in Nat
  BY <1>4 DEF SInv, Memtable
<1>7. Inserted'
  <2>1. \A e \in entries : ~(e.seq > lastSequence')
    BY <1>4, <1>6
  <2> QED
    BY <2>1, <1>1, <1>3 DEF Inserted
<1>8. Snapshots'
  <2>1. \A u \in Threads : pc'[u] = "reading" => pc[u] = "reading" /\ op'[u] = op[u]
    BY <1>1, LabelsAfter
  <2>2. /\ lastSequence <= lastSequence' /\ entries \subseteq entries'
        /\ \A e \in entries' : (e \in entries \/ e.seq > lastSequence) /\ e.seq \in Nat
    BY <1>1, <1>4, <1>6
  <2> QED
    BY <2>1, <2>2, <1>6, SnapshotsStay
<1>9. Logs'
  <2>1. \A u \in Threads : ~LoggedBy(u)'
    BY <1>3 DEF LoggedBy, Working
  <2>2. SyncedWhenAnswered'
    BY <1>1 DEF SInv, Logs, SyncedWhenAnswered, Answers
  <2>3. ASSUME NEW u \in Threads, done'[u] # None, done'[u] = "ok", op[u].sync,
               op[u].keys # {}
        PROVE  op[u].id \in synced
    <3>1. CASE done'[u] = done[u]
      BY <2>3, <3>1 DEF SInv, Logs
    <3>2. CASE (\E j \in 1 .. group.n : writers[j] = u) /\ done'[u] = group.status
      <4>1. PICK j \in 1 .. group.n : writers[j] = u
        BY <3>2
      <4>2. group.n \in 1 .. Len(writers) /\ GroupOf(t)
        BY <1>1, LeaderAtWork DEF Working
      <4>3. op[u].id \in Logged
        BY <4>1, <4>2, <2>3, LoggedWrites DEF GroupOf, SInv
      <4>4. op[t].sync
        BY <4>1, <4>2, <2>3 DEF GroupOf
      <4>5. LoggedBy(t) /\ pc[t] # "sync"
        BY <2>3, <3>2, <1>1 DEF LoggedBy
      <4>6. Logged \subseteq synced
        BY <4>4, <4>5 DEF SInv, Logs
      <4> QED
        BY <4>3, <4>6
    <3> QED
      BY <3>1, <3>2, <1>1, DequeueAnswers
  <2> QED
    BY <2>1, <2>2, <2>3, <1>1 DEF SInv, Logs
<1> QED
  BY <1>3, <1>4, <1>5, <1>7, <1>8, <1>9 DEF SInv

-----------------------------------------------------------------------------
(* Calls and returns.                                                      *)
LEMMA LogsSame ==
  ASSUME SInv, UNCHANGED <<log, synced, group>>, SyncedWhenAnswered',
         1 .. started \subseteq 1 .. started',
         \A u \in Threads : done'[u] # None => done[u] = done'[u] /\ op'[u] = op[u],
         \A u \in Threads : pc'[u] \in Working => pc[u] = pc'[u] /\ op'[u] = op[u]
  PROVE  Logs'
<1>1. Logged' = Logged
  BY DEF Logged
<1>2. \A u \in Threads : LoggedBy(u)' => LoggedBy(u) /\ pc[u] = pc'[u] /\ op'[u] = op[u]
  BY DEF LoggedBy, Working
<1>3. \A u \in Threads : LoggedBy(u)' =>
        /\ Logged' \subseteq log'
        /\ pc'[u] # "sync" /\ op'[u].sync => Logged' \subseteq synced'
  BY <1>1, <1>2 DEF SInv, Logs
<1>4. ASSUME NEW u \in Threads, done'[u] # None, done'[u] = "ok", op'[u].sync,
             op'[u].keys # {}
      PROVE  op'[u].id \in synced'
  BY <1>4 DEF SInv, Logs
<1>5. log' \cup synced' \subseteq 1 .. started'
  BY DEF SInv, Logs
<1> QED
  BY <1>3, <1>4, <1>5 DEF Logs

(* Entries, completed writes and the leader's work as they are.            *)
LEMMA OthersWork ==
  ASSUME IInv, SInv, NEW t \in Threads, pc[t] \notin Working, pc'[t] \notin Working,
         \A u \in Threads \ {t} : pc'[u] = pc[u] /\ op'[u] = op[u],
         \A i \in 1 .. Len(writers) : writers[i] # t /\ writers'[i] = writers[i],
         UNCHANGED <<group, log, synced, entries, lastSequence, committed>>,
         started' \in Nat, started <= started'
  PROVE  /\ Group' /\ Progress' /\ Inserted'
         /\ \A u \in Threads : pc'[u] \in Working => pc[u] = pc'[u] /\ op'[u] = op[u]
<1>1. \A u \in Threads : pc'[u] \in Working <=> pc[u] \in Working
  OBVIOUS
<1>2. \A u \in Threads : pc'[u] \in Working => pc[u] = pc'[u] /\ op'[u] = op[u]
  OBVIOUS
<1>3. Progress'
  BY <1>2 DEF SInv, Progress
<1>4. Inserted'
  BY <1>1 DEF SInv, Inserted
<1>5. ASSUME NEW u \in Threads, pc'[u] \in Working PROVE GroupOf(u)'
  <2>1. pc[u] \in Working /\ op'[u] = op[u]
    BY <1>2, <1>5
  <2>2. GroupOf(u) /\ group.n \in 1 .. Len(writers) /\ Len(writers) \in Nat
    BY <2>1, LeaderAtWork
  <2>3. \A j \in 1 .. group.n : j \in 1 .. Len(writers)
    BY <2>2
  <2>4. \A j \in 1 .. group.n : writers[j] \in Threads \ {t}
    BY <2>3, QueueOps DEF SInv
  <2>5. \A j \in 1 .. group.n : writers'[j] = writers[j] /\ op'[writers[j]] = op[writers[j]]
    BY <2>3, <2>4
  <2> QED
    BY <2>1, <2>2, <2>5, GroupStays DEF SInv
<1>6. Group'
  BY <1>5 DEF Group
<1> QED
  BY <1>2, <1>3, <1>4, <1>6

LEMMA EnterKeepsS ==
  ASSUME IInv, SInv, NEW t \in Threads, NEW keys \in Batches, NEW sync,
         Enter(t, keys, sync)
  PROVE  SInv'
<1> DEFINE o == [id |-> started + 1, keys |-> keys, sync |-> sync, late |-> syncFailed]
<1>1. /\ pc[t] = "idle" /\ started' = started + 1
      /\ op' = [op EXCEPT ![t] = o] /\ pc' = [pc EXCEPT ![t] = "queued"]
      /\ writers' = Append(writers, t)
      /\ UNCHANGED <<log, synced, entries, lastSequence, committed, done, group, returned>>
  BY DEF Enter, db
<1>2. o.id = started + 1 /\ o.keys = keys
  OBVIOUS
<1> HIDE DEF o
<1>3. pc'[t] = "queued" /\ \A u \in Threads \ {t} : pc'[u] = pc[u]
  BY <1>1, LabelsAfter
<1>4. op'[t] = o /\ \A u \in Threads \ {t} : op'[u] = op[u]
  BY <1>1 DEF IInv, Types
<1>5. started \in Nat /\ started' \in Nat /\ started <= started'
      /\ started + 1 \in 1 .. started' /\ \A i \in 1 .. started : i \in 1 .. started' /\ i # started + 1
  BY <1>1 DEF SInv, Ops
<1>6. \A i \in 1 .. Len(writers) : writers[i] # t /\ writers'[i] = writers[i]
  BY <1>1 DEF IInv, Types, Queue, Working
<1>7. done[t] = None
  BY <1>1 DEF IInv, Answered
<1>8. \A u \in Threads : Writing(u)' <=> (u = t \/ Writing(u))
  BY <1>3 DEF Writing
<1>9. ~Writing(t) /\ pc[t] \notin Working /\ pc'[t] \notin Working
  BY <1>1, <1>3 DEF Writing, Working
<1>10. \A id : IsCommitted(id)' = IsCommitted(id)
  BY <1>1 DEF IsCommitted
<1>11. Ops'
  <2>1. \A u \in Threads : Writing(u)' => op'[u].id \in 1 .. started' /\ op'[u].keys \in Batches
    BY <1>2, <1>4, <1>5, <1>8 DEF SInv, Ops
  <2>2. ASSUME NEW u \in Threads, NEW v \in Threads, Writing(u)', Writing(v)',
               op'[u].id = op'[v].id
        PROVE  u = v
    BY <2>2, <1>2, <1>4, <1>5, <1>8 DEF SInv, Ops
  <2>3. \A r \in returned : /\ r.write.id \in 1 .. started'
                            /\ \A u \in Threads : Writing(u)' => op'[u].id # r.write.id
    BY <1>2, <1>4, <1>5, <1>8 DEF SInv, Ops
  <2> QED
    BY <2>1, <2>2, <2>3, <1>1, <1>5 DEF Ops
<1>12. Commits'
  <2>1. CommitRecords(started) \subseteq CommitRecords(started')
    BY <1>5 DEF CommitRecords
  <2>2. committed \in Seq(CommitRecords(started))
    BY DEF SInv, Commits
  <2>3. committed' \in Seq(CommitRecords(started'))
    BY <2>1, <2>2, <1>1, SeqMonotonic
  <2>4. ~IsCommitted(started + 1)
    <3> SUFFICES ASSUME NEW i \in 1 .. Len(committed), committed[i].id = started + 1
                 PROVE  FALSE
      BY DEF IsCommitted
    <3>1. committed[i] \in CommitRecords(started)
      BY <2>2, ElementOfSeq
    <3> QED
      BY <3>1, <1>5 DEF CommitRecords
  <2>5. ASSUME NEW u \in Threads, Writing(u)', done'[u] = None
        PROVE  ~(IsCommitted(op[u].id)')
    <3>1. PICK id : id = op'[u].id
      OBVIOUS
    <3>2. ~IsCommitted(id)
      BY <2>4, <2>5, <3>1, <1>1, <1>2, <1>4, <1>8 DEF SInv, Commits
    <3> QED
      BY <3>1, <3>2, <1>10 DEF IsCommitted
  <2> QED
    BY <2>3, <2>5, <1>1 DEF SInv, Commits
<1>13. Outcome'
  <2> SUFFICES ASSUME NEW u \in Threads, done'[u] # None
               PROVE  /\ done'[u] \in {"ok", "error"}
                      /\ op'[u].keys # {} => (done'[u] = "ok" <=> IsCommitted(op[u].id)')
    BY DEF Outcome
  <2>1. op'[u] = op[u]
    BY <1>1, <1>4, <1>7
  <2> QED
    BY <2>1, <1>1 DEF SInv, Outcome, IsCommitted
<1>14. /\ Group' /\ Progress' /\ Inserted'
       /\ \A u \in Threads : pc'[u] \in Working => pc[u] = pc'[u] /\ op'[u] = op[u]
  BY <1>1, <1>3, <1>4, <1>5, <1>6, <1>9, OthersWork
<1>15. Memtable' /\ Snapshots'
  BY <1>1, <1>3, <1>4, SameEntries
<1>16. Logs'
  <2>1. SyncedWhenAnswered'
    BY <1>1 DEF SInv, Logs, SyncedWhenAnswered, Answers
  <2> QED
    BY <2>1, <1>1, <1>4, <1>5, <1>7, <1>14, LogsSame
<1> QED
  BY <1>11, <1>12, <1>13, <1>14, <1>15, <1>16 DEF SInv

LEMMA ReturnKeepsS ==
  ASSUME IInv, SInv, NEW t \in Threads, Return(t) PROVE SInv'
<1>1. /\ pc[t] = "queued" /\ pc' = [pc EXCEPT ![t] = "idle"] /\ done[t] # None
      /\ op' = [op EXCEPT ![t] = None] /\ done' = [done EXCEPT ![t] = None]
      /\ returned' = returned \cup {[write |-> op[t], status |-> done[t]]}
      /\ UNCHANGED <<log, synced, entries, lastSequence, committed, writers, group, started>>
  BY DEF Return, Go, db
<1>2. pc'[t] = "idle" /\ \A u \in Threads \ {t} : pc'[u] = pc[u]
  BY <1>1, LabelsAfter
<1>3. done'[t] = None /\ \A u \in Threads \ {t} : op'[u] = op[u] /\ done'[u] = done[u]
  BY <1>1 DEF IInv, Types
<1>4. \A u \in Threads : Writing(u)' <=> (u # t /\ Writing(u))
  BY <1>2 DEF Writing, Working
<1>5. Writing(t) /\ pc[t] \notin Working /\ pc'[t] \notin Working
  BY <1>1, <1>2 DEF Writing, Working
<1>6. \A i \in 1 .. Len(writers) : writers[i] # t /\ writers'[i] = writers[i]
  BY <1>1 DEF IInv, Queue
<1>7. \A id : IsCommitted(id)' = IsCommitted(id)
  BY <1>1 DEF IsCommitted
<1>8. started \in Nat /\ started <= started
  BY DEF SInv, Ops
<1>9. Ops'
  <2>1. \A r \in returned' : r \in returned \/ r.write.id = op[t].id
    BY <1>1
  <2>2. \A r \in returned' : /\ r.write.id \in 1 .. started
                             /\ \A u \in Threads : Writing(u)' => op'[u].id # r.write.id
    BY <2>1, <1>3, <1>4, <1>5 DEF SInv, Ops
  <2>3. \A u, v \in Threads : Writing(u)' /\ Writing(v)' /\ op'[u].id = op'[v].id => u = v
    BY <1>3, <1>4 DEF SInv, Ops
  <2>4. \A u \in Threads : Writing(u)' => op'[u].id \in 1 .. started /\ op'[u].keys \in Batches
    BY <1>3, <1>4 DEF SInv, Ops
  <2> QED
    BY <2>2, <2>3, <2>4, <1>1, <1>8 DEF Ops
<1>10. Commits'
  <2>1. ASSUME NEW u \in Threads, Writing(u)', done'[u] = None
        PROVE  ~(IsCommitted(op[u].id)')
    <3>1. PICK id : id = op'[u].id
      OBVIOUS
    <3>2. ~IsCommitted(id)
      BY <2>1, <3>1, <1>3, <1>4 DEF SInv, Commits
    <3> QED
      BY <3>1, <3>2, <1>7 DEF IsCommitted
  <2> QED
    BY <2>1, <1>1 DEF SInv, Commits
<1>11. Outcome'
  <2> SUFFICES ASSUME NEW u \in Threads, done'[u] # None
               PROVE  /\ done'[u] \in {"ok", "error"}
                      /\ op'[u].keys # {} => (done'[u] = "ok" <=> IsCommitted(op[u].id)')
    BY DEF Outcome
  <2>1. op'[u] = op[u] /\ done'[u] = done[u]
    BY <1>3
  <2> QED
    BY <2>1, <1>1 DEF SInv, Outcome, IsCommitted
<1>12. /\ Group' /\ Progress' /\ Inserted'
       /\ \A u \in Threads : pc'[u] \in Working => pc[u] = pc'[u] /\ op'[u] = op[u]
  BY <1>1, <1>2, <1>3, <1>5, <1>6, <1>8, OthersWork
<1>13. Memtable' /\ Snapshots'
  BY <1>1, <1>2, <1>3, SameEntries
<1>14. Logs'
  <2>1. SyncedWhenAnswered'
    <3> SUFFICES ASSUME NEW w \in Answers("ok")', w.sync, w.keys # {}
                 PROVE  w.id \in synced
      BY <1>1 DEF SyncedWhenAnswered
    <3>1. CASE w \in Answers("ok")
      BY <3>1 DEF SInv, Logs, SyncedWhenAnswered
    <3>2. CASE w = op[t] /\ done[t] = "ok"
      BY <3>2, <1>1 DEF SInv, Logs
    <3> QED
      BY <3>1, <3>2, <1>1 DEF Answers
  <2>2. \A u \in Threads : done'[u] # None => done[u] = done'[u] /\ op'[u] = op[u]
    BY <1>3
  <2> QED
    BY <2>1, <2>2, <1>1, <1>12, LogsSame
<1> QED
  BY <1>9, <1>10, <1>11, <1>12, <1>13, <1>14 DEF SInv

(* A bounded set of numbers has a greatest element.                        *)
LEMMA GreatestNumber ==
  ASSUME NEW n \in Nat, NEW S \in SUBSET (0 .. n), S # {}
  PROVE  \E m \in S : \A x \in S : x <= m
<1> DEFINE Greatest(X) == \E m \in X : \A x \in X : x <= m
           T == {k \in Nat : \A X \in SUBSET (0 .. k) : X # {} => Greatest(X)}
<1>1. 0 \in T
  <2> SUFFICES ASSUME NEW X \in SUBSET (0 .. 0), X # {} PROVE Greatest(X)
    OBVIOUS
  <2>1. PICK y \in X : TRUE
    OBVIOUS
  <2>2. \A x \in X : x <= y
    <3>1. \A x \in X : x \in 0 .. 0
      OBVIOUS
    <3> QED
      BY <3>1
  <2> QED
    BY <2>2
<1>2. ASSUME NEW k \in Nat, k \in T PROVE k + 1 \in T
  <2> SUFFICES ASSUME NEW X \in SUBSET (0 .. k + 1), X # {} PROVE Greatest(X)
    BY <1>2
  <2>1. CASE k + 1 \in X
    BY <2>1
  <2>2. CASE k + 1 \notin X
    <3>1. X \in SUBSET (0 .. k)
      BY <2>2
    <3> QED
      BY <3>1, <1>2
  <2> QED
    BY <2>1, <2>2
<1>3. Nat \subseteq T
  <2> HIDE DEF T
  <2> QED
    BY <1>1, <1>2, SetInduction
<1> QED
  BY <1>3

(* What is found with the last sequence number is the last write.          *)
LEMMA LookupFindsLast ==
  ASSUME SInv, NEW key
  PROVE  Lookup(key, lastSequence) = LastWrite(key)
<1> DEFINE found == {e \in entries : e.key = key /\ e.seq <= lastSequence}
           writing == {i \in DOMAIN committed : key \in committed[i].keys}
           newest == CHOOSE e \in found : \A f \in found : f.seq <= e.seq
           latest == CHOOSE i \in writing : \A j \in writing : j <= i
<1>1. /\ Lookup(key, lastSequence) = IF found = {} THEN None ELSE newest.write
      /\ LastWrite(key) = IF writing = {} THEN None ELSE committed[latest].id
  BY Zenon DEF Lookup, LastWrite
<1>2. /\ committed \in Seq(CommitRecords(started)) /\ Len(committed) \in Nat
      /\ DOMAIN committed = 1 .. Len(committed)
      /\ \A i, j \in 1 .. Len(committed) : committed[i].id = committed[j].id => i = j
  BY DEF SInv, Commits
<1>3. \A i : i \in writing <=> i \in 1 .. Len(committed) /\ key \in committed[i].keys
  BY <1>2
<1>4. \A e : e \in found <=> e \in entries /\ e.key = key /\ e.seq <= lastSequence
  OBVIOUS
<1> HIDE DEF found, writing
<1>5. \A e \in found : \E i \in writing : committed[i].id = e.write
  <2> SUFFICES ASSUME NEW e \in found PROVE \E i \in writing : committed[i].id = e.write
    OBVIOUS
  <2>1. PICK i \in 1 .. Len(committed) :
          committed[i].id = e.write /\ e.key \in committed[i].keys
    BY <1>4 DEF SInv, Memtable
  <2> QED
    BY <2>1, <1>3, <1>4
<1>6. \A i \in writing : \E e \in found : e.write = committed[i].id
  <2> SUFFICES ASSUME NEW i \in writing PROVE \E e \in found : e.write = committed[i].id
    OBVIOUS
  <2>1. PICK e \in entries :
          e.key = key /\ e.write = committed[i].id /\ e.seq <= lastSequence
    BY <1>3 DEF SInv, Memtable
  <2> QED
    BY <2>1, <1>4
<1>7. CASE found = {}
  <2>1. writing = {}
    BY <1>6, <1>7
  <2> QED
    BY <2>1, <1>1, <1>7
<1>8. CASE found # {}
  <2>1. writing # {}
    BY <1>5, <1>8
  <2>2. \E e \in found : \A f \in found : f.seq <= e.seq
    <3> DEFINE S == {e.seq : e \in found}
    <3>1. lastSequence \in Nat /\ \A e \in entries : e.seq \in Nat
      BY DEF SInv, Memtable
    <3>2. S \in SUBSET (0 .. lastSequence) /\ S # {}
      BY <3>1, <1>4, <1>8
    <3>3. PICK m \in S : \A x \in S : x <= m
      <4> HIDE DEF S
      <4> QED
        BY <3>1, <3>2, GreatestNumber
    <3>4. PICK e \in found : m = e.seq
      OBVIOUS
    <3>5. \A f \in found : f.seq \in S
      OBVIOUS
    <3> QED
      BY <3>3, <3>4, <3>5
  <2>3. \E i \in writing : \A j \in writing : j <= i
    <3>1. writing \in SUBSET (0 .. Len(committed))
      BY <1>2, <1>3
    <3> QED
      BY <3>1, <2>1, <1>2, GreatestNumber
  <2>4. newest \in found /\ \A f \in found : f.seq <= newest.seq
    BY <2>2
  <2>5. latest \in writing /\ \A j \in writing : j <= latest
    BY <2>3
  <2> HIDE DEF newest, latest
  <2>6. PICK i \in writing : committed[i].id = newest.write
    BY <2>4, <1>5
  <2>7. PICK f \in found : f.write = committed[latest].id
    BY <2>5, <1>6
  <2>8. latest <= i
    <3>1. f.seq <= newest.seq /\ newest.seq <= lastSequence
          /\ f \in entries /\ newest \in entries
      BY <2>4, <1>4
    <3>2. latest \in 1 .. Len(committed) /\ i \in 1 .. Len(committed)
      BY <2>5, <1>3
    <3> QED
      BY <3>1, <3>2, <2>6, <2>7 DEF SInv, Memtable
  <2>9. i <= latest
    BY <2>5
  <2>10. i = latest
    BY <2>5, <2>8, <2>9, <1>2, <1>3
  <2> QED
    BY <2>1, <2>6, <2>10, <1>1, <1>8
<1> QED
  BY <1>7, <1>8

(* Readers do not disturb the writers.                                     *)
LEMMA ReaderKeepsS ==
  ASSUME IInv, SInv, NEW t \in Threads,
         pc[t] \in {"idle", "reading"}, pc'[t] \in {"idle", "reading"},
         \A u \in Threads \ {t} : pc'[u] = pc[u] /\ op'[u] = op[u],
         UNCHANGED <<log, synced, entries, lastSequence, committed, writers, done, group,
                     started, returned>>,
         pc'[t] = "reading" => /\ op'[t].snapshot = lastSequence
                               /\ op'[t].expected = LastWrite(op'[t].key)
  PROVE  SInv'
<1>3. /\ ~Writing(t) /\ pc[t] \notin Working /\ pc'[t] \notin Working /\ done[t] = None
      /\ \A i \in 1 .. Len(writers) : writers[i] # t /\ writers'[i] = writers[i]
  BY DEF Writing, Working, IInv, Queue, Answered
<1>4. \A u \in Threads : Writing(u)' <=> Writing(u)
  BY <1>3 DEF Writing, Working
<1>5. started \in Nat /\ started <= started
  BY DEF SInv, Ops
<1>6. \A u \in Threads : Writing(u) => op'[u] = op[u]
  BY <1>3
<1>7. Ops'
  BY <1>4, <1>6 DEF SInv, Ops
<1>8. Commits'
  BY <1>4, <1>6 DEF SInv, Commits, IsCommitted
<1>9. Outcome'
  BY <1>3 DEF SInv, Outcome, IsCommitted
<1>10. /\ Group' /\ Progress' /\ Inserted'
       /\ \A u \in Threads : pc'[u] \in Working => pc[u] = pc'[u] /\ op'[u] = op[u]
  BY <1>3, <1>5, OthersWork
<1>11. Memtable'
  BY DEF SInv, Memtable
<1>12. Snapshots'
  <2> SUFFICES ASSUME NEW u \in Threads, pc'[u] = "reading"
               PROVE  /\ op'[u].snapshot \in 0 .. lastSequence'
                      /\ (Lookup(op[u].key, op[u].snapshot) = op[u].expected)'
    BY DEF Snapshots, ReadsAreStable
  <2>1. PICK key, s, x : op'[u].key = key /\ op'[u].snapshot = s /\ op'[u].expected = x
    OBVIOUS
  <2>2. s \in 0 .. lastSequence /\ Lookup(key, s) = x
    <3>1. CASE u # t
      BY <2>1, <3>1 DEF SInv, Snapshots, ReadsAreStable
    <3>2. CASE u = t
      <4>1. s = lastSequence /\ x = LastWrite(key) /\ lastSequence \in Nat
        BY <2>1, <3>2 DEF SInv, Memtable
      <4> QED
        BY <4>1, LookupFindsLast
    <3> QED
      BY <3>1, <3>2
  <2>3. Lookup(key, s)' = Lookup(key, s)
    BY LookupStays
  <2>4. (Lookup(op[u].key, op[u].snapshot))' = Lookup(key, s)'
    BY <2>1 DEF Lookup
  <2> QED
    BY <2>1, <2>2, <2>3, <2>4
<1>13. Logs'
  <2>1. SyncedWhenAnswered'
    BY DEF SInv, Logs, SyncedWhenAnswered, Answers
  <2> QED
    BY <2>1, <1>3, <1>10, LogsSame
<1> QED
  BY <1>7, <1>8, <1>9, <1>10, <1>11, <1>12, <1>13 DEF SInv

(* The background thread leaves all of this alone.                         *)
LEMMA BackgroundKeepsS ==
  ASSUME SInv,
         UNCHANGED <<pc, op, writers, done, group, log, synced, entries, lastSequence,
                     committed, returned, started>>
  PROVE  SInv'
<1>1. Ops' /\ Commits' /\ Outcome'
  BY DEF SInv, Ops, Commits, Outcome, Writing, IsCommitted
<1>2. /\ PutRecords' = PutRecords
      /\ \A puts, n : PutsOf(puts, n)' = PutsOf(puts, n)
  BY DEF PutsOf, PutRecords
<1>6. \A t \in Threads : GroupOf(t)' = GroupOf(t)
  BY <1>2 DEF GroupOf, PutsOf
<1>7. Group'
  BY <1>6 DEF SInv, Group
<1>8. Progress'
  BY DEF SInv, Progress
<1>9. Inserted'
  BY DEF SInv, Inserted
<1>3. Memtable' /\ Snapshots'
  BY SameEntries
<1>4. SyncedWhenAnswered'
  BY DEF SInv, Logs, SyncedWhenAnswered, Answers
<1>5. Logs'
  BY <1>4, LogsSame
<1> QED
  BY <1>1, <1>3, <1>5, <1>7, <1>8, <1>9 DEF SInv

LEMMA StepKeepsSInv == IInv /\ SInv /\ [Next]_vars => SInv'
<1> SUFFICES ASSUME IInv, SInv, [Next]_vars PROVE SInv'
  OBVIOUS
<1>1. ASSUME NEW t \in Threads, NEW keys \in Batches, NEW sync, Enter(t, keys, sync)
      PROVE  SInv'
  BY <1>1, EnterKeepsS
<1>2. ASSUME NEW t \in Threads, NEW key, StartGet(t, key) PROVE SInv'
  <2> DEFINE o == [key |-> key, snapshot |-> lastSequence, expected |-> LastWrite(key)]
  <2>1. /\ pc[t] = "idle" /\ pc' = [pc EXCEPT ![t] = "reading"]
        /\ op' = [op EXCEPT ![t] = o]
        /\ UNCHANGED <<log, synced, entries, lastSequence, committed, writers, done, group,
                       started, returned>>
    BY <1>2 DEF StartGet, Go, db
  <2>2. o.key = key /\ o.snapshot = lastSequence /\ o.expected = LastWrite(key)
    OBVIOUS
  <2> HIDE DEF o
  <2>3. /\ pc'[t] = "reading" /\ op'[t] = o
        /\ \A u \in Threads \ {t} : pc'[u] = pc[u] /\ op'[u] = op[u]
    BY <2>1 DEF IInv, Types
  <2> QED
    BY <2>1, <2>2, <2>3, ReaderKeepsS
<1>3. ASSUME NEW t \in Threads, EndGet(t) PROVE SInv'
  <2>1. /\ pc[t] = "reading" /\ pc' = [pc EXCEPT ![t] = "idle"]
        /\ op' = [op EXCEPT ![t] = None]
        /\ UNCHANGED <<log, synced, entries, lastSequence, committed, writers, done, group,
                       started, returned>>
    BY <1>3 DEF EndGet, Go, db
  <2>3. /\ pc'[t] = "idle"
        /\ \A u \in Threads \ {t} : pc'[u] = pc[u] /\ op'[u] = op[u]
    BY <2>1 DEF IInv, Types
  <2> QED
    BY <2>1, <2>3, ReaderKeepsS
<1>4. ASSUME NEW t \in Threads, MakeRoomFails(t) PROVE SInv'
  BY <1>4, AnswerFirstKeepsS DEF MakeRoomFails, db
<1>5. ASSUME NEW t \in Threads, LeadNull(t) PROVE SInv'
  BY <1>5, AnswerFirstKeepsS DEF LeadNull, MakeRoomForWrite
<1>6. CASE CompactMemTable
  BY <1>6, BackgroundKeepsS DEF CompactMemTable
<1>7. CASE UNCHANGED vars
  BY <1>7, BackgroundKeepsS DEF vars
<1> QED
  BY <1>1, <1>2, <1>3, <1>4, <1>5, <1>6, <1>7, LeadKeepsS, AddRecordKeepsS,
     AddRecordFailsKeepsS, SyncKeepsS, SyncFailsKeepsS, InsertKeepsS, FinishKeepsS,
     ReturnKeepsS DEF Next, Proceed

(* It holds in every state.                                                *)
LEMMA SInvAlways == Spec => [](IInv /\ SInv)
<1>1. IInv /\ SInv /\ [Next]_vars => IInv' /\ SInv'
  BY StepKeepsIInv, StepKeepsSInv
<1> QED
  BY InitIInv, InitSInv, <1>1, PTL DEF Spec
-----------------------------------------------------------------------------
(* A set without two different elements has one element at most.          *)
LEMMA AtMostOne ==
  ASSUME NEW S, \A x, y \in S : x = y
  PROVE  Cardinality(S) <= 1
<1>1. CASE S = {}
  BY <1>1, FS_EmptySet
<1>2. CASE S # {}
  <2>1. PICK x \in S : TRUE
    BY <1>2
  <2>2. S = {x}
    BY <2>1
  <2>3. Cardinality({x}) = 1
    BY FS_Singleton
  <2> QED
    BY <2>2, <2>3
<1> QED
  BY <1>1, <1>2

(* What the invariant says of the properties.                              *)
LEMMA SInvTypes == IInv /\ SInv => TypeOK
<1> SUFFICES ASSUME IInv, SInv PROVE TypeOK
  OBVIOUS
<1>1. writers \in Seq(Threads) /\ DOMAIN writers = 1 .. Len(writers)
  BY DEF IInv, Types
<1>2. ASSUME NEW t \in Threads
      PROVE  Cardinality({i \in DOMAIN writers : writers[i] = t}) <= 1
  <2> DEFINE P == {i \in DOMAIN writers : writers[i] = t}
  <2>1. \A i, j \in P : i = j
    BY <1>1 DEF IInv, Queue
  <2> HIDE DEF P
  <2>2. Cardinality(P) <= 1
    BY <2>1, AtMostOne
  <2> QED
    BY <2>2 DEF P
<1>3. ASSUME NEW e \in entries
      PROVE  e.seq <= lastSequence <=> \E i \in DOMAIN committed : committed[i].id = e.write
  <2>1. DOMAIN committed = 1 .. Len(committed)
    BY DEF SInv, Commits
  <2>2. CASE e.seq <= lastSequence
    BY <2>1, <2>2 DEF SInv, Memtable
  <2>3. CASE ~(e.seq <= lastSequence)
    <3>1. e.seq > lastSequence
      BY <2>3 DEF SInv, Memtable
    <3>2. PICK t \in Threads, i \in 1 .. group.left - 1 :
            pc[t] \in Working /\ e = group.puts[i]
      BY <3>1 DEF SInv, Inserted
    <3>3. /\ GroupOf(t) /\ group.n \in 1 .. Len(writers) /\ Len(writers) \in Nat
          /\ Len(group.puts) \in Nat /\ group.left \in 1 .. Len(group.puts) + 1
      BY <3>2, LeaderAtWork DEF SInv, Progress
    <3>4. i \in 1 .. Len(group.puts)
      BY <3>3
    <3>5. PICK j \in 1 .. group.n : group.puts[i].write = op[writers[j]].id
      BY <3>3, <3>4 DEF GroupOf, PutsOf
    <3>6. j \in 1 .. Len(writers)
      BY <3>3
    <3>7. writers[j] \in Threads /\ Writing(writers[j]) /\ done[writers[j]] = None
      BY <3>6, QueueOps DEF SInv, IInv, Queue
    <3>8. ~IsCommitted(op[writers[j]].id)
      BY <3>7 DEF SInv, Commits
    <3>9. e.write = op[writers[j]].id
      BY <3>2, <3>5
    <3> QED
      BY <2>1, <2>3, <3>8, <3>9 DEF IsCommitted
  <2> QED
    BY <2>2, <2>3
<1>4. Cardinality({t \in Threads : pc[t] \in {"append", "sync", "insert", "finish"}}) <= 1
  <2> DEFINE P == {t \in Threads : pc[t] \in {"append", "sync", "insert", "finish"}}
  <2>1. \A t, u \in P : t = u
    BY DEF IInv, Leader, Working
  <2> HIDE DEF P
  <2>2. Cardinality(P) <= 1
    BY <2>1, AtMostOne
  <2> QED
    BY <2>2 DEF P
<1>5. /\ \A e, f \in entries : e.seq = f.seq => e = f
      /\ log \cup synced \subseteq 1 .. started
  BY DEF SInv, Memtable, Logs
<1> QED
  BY <1>1, <1>2, <1>3, <1>4, <1>5 DEF TypeOK

(* The queue, the memtable, the log and the number of threads that work    *)
(* with the mutex released are as db_impl.cc needs them, in every state.   *)
THEOREM WriterQueueTypes == Spec => []TypeOK
<1>1. IInv /\ SInv => TypeOK
  BY SInvTypes
<1> QED
  BY SInvAlways, <1>1, PTL

(* Get needs no mutex while it searches: what it finds with the sequence   *)
(* number it took is what had been written when it took it, however many   *)
(* groups are inserted meanwhile.                                          *)
THEOREM GetsReadTheirSnapshot == Spec => []ReadsAreStable
<1>1. IInv /\ SInv => ReadsAreStable
  BY DEF SInv, Snapshots
<1> QED
  BY SInvAlways, <1>1, PTL

(* A write with sync set that Write answered ok is in a record of the log  *)
(* that was synced, though another thread may have logged it.              *)
THEOREM SyncWritesAreOnDisk == Spec => []SyncedWhenAnswered
<1>1. IInv /\ SInv => SyncedWhenAnswered
  BY DEF SInv, Logs
<1> QED
  BY SInvAlways, <1>1, PTL

-----------------------------------------------------------------------------
(* The refinement: Pending, Applied and Answered are what AtomicStore calls*)
(* pending, applied and answered.                                          *)
PendingIds ==
  {op[t].id : t \in {u \in Threads : pc[u] \notin {"idle", "reading"} /\ op[u].keys # {}}}

(* The completed writes, in their order.                                   *)
AppliedIds == [i \in DOMAIN committed |-> committed[i].id]

(* The writes with something to put that were answered, and whether ok.    *)
AnsweredIds ==
  {<<r.write.id, r.status = "ok">> : r \in {x \in returned : x.write.keys # {}}}

(* Who is pending, said with the labels of the threads.                    *)
IdsPending ==
  \A id : id \in PendingIds <=>
            \E t \in Threads : Writing(t) /\ op[t].keys # {} /\ op[t].id = id

LEMMA WhoIsPending == IInv => IdsPending
<1> SUFFICES ASSUME IInv PROVE IdsPending
  OBVIOUS
<1>1. \A t \in Threads : pc[t] \notin {"idle", "reading"} <=> Writing(t)
  BY DEF IInv, Types, Writing, Working
<1> QED
  BY <1>1 DEF IdsPending, PendingIds

LEMMA WhoIsPendingNext == IInv' => IdsPending'
BY WhoIsPending, PTL

(* What is applied, said with the completed writes.                        *)
IdsApplied ==
  /\ AppliedIds \in Seq(Nat) /\ Len(AppliedIds) = Len(committed)
  /\ DOMAIN AppliedIds = 1 .. Len(committed) /\ Len(committed) \in Nat
  /\ \A i \in 1 .. Len(committed) : AppliedIds[i] = committed[i].id
  /\ \A i \in 1 .. Len(committed) : committed[i].id \in 1 .. started
  /\ \A id : (\E i \in DOMAIN AppliedIds : AppliedIds[i] = id) <=> IsCommitted(id)

LEMMA WhatIsApplied == SInv => IdsApplied
<1> SUFFICES ASSUME SInv PROVE IdsApplied
  OBVIOUS
<1>1. /\ committed \in Seq(CommitRecords(started)) /\ Len(committed) \in Nat
      /\ DOMAIN committed = 1 .. Len(committed)
  BY DEF SInv, Commits
<1>2. \A i \in 1 .. Len(committed) : committed[i] \in CommitRecords(started)
  BY <1>1
<1>3. \A i \in 1 .. Len(committed) : committed[i].id \in 1 .. started
  BY <1>2 DEF CommitRecords
<1>4. \A i \in 1 .. Len(committed) : committed[i].id \in Nat
  BY <1>3 DEF SInv, Ops
<1>5. AppliedIds \in [1 .. Len(committed) -> Nat]
  BY <1>1, <1>4 DEF AppliedIds
<1>6. AppliedIds \in Seq(Nat) /\ Len(AppliedIds) = Len(committed)
  BY <1>1, <1>5
<1>7. /\ DOMAIN AppliedIds = 1 .. Len(committed)
      /\ \A i \in 1 .. Len(committed) : AppliedIds[i] = committed[i].id
  BY <1>1 DEF AppliedIds
<1> QED
  BY <1>1, <1>3, <1>6, <1>7 DEF IdsApplied, IsCommitted

LEMMA WhatIsAppliedNext == SInv' => IdsApplied'
BY WhatIsApplied, PTL

(* A step that does not concern the store.                                 *)
LEMMA PendingSame ==
  ASSUME IInv, IInv',
         \A t \in Threads :
           /\ Writing(t)' /\ op'[t].keys # {} <=> Writing(t) /\ op[t].keys # {}
           /\ Writing(t) /\ op[t].keys # {} => op'[t] = op[t]
  PROVE  PendingIds' = PendingIds
<1>1. \A id : id \in PendingIds' <=>
        \E t \in Threads : Writing(t)' /\ op'[t].keys # {} /\ op'[t].id = id
  BY WhoIsPendingNext DEF IdsPending
<1>2. \A id : id \in PendingIds' <=> id \in PendingIds
  BY <1>1, WhoIsPending DEF IdsPending
<1> QED
  BY <1>2

(* A step of the store, or one that does not concern it.                   *)
Refined == [Store!Next]_<<PendingIds, AppliedIds, AnsweredIds>>

LEMMA EnterRefines ==
  ASSUME IInv, SInv, IInv', NEW t \in Threads, NEW keys \in Batches, NEW sync,
         Enter(t, keys, sync)
  PROVE  Refined
<1> DEFINE o == [id |-> started + 1, keys |-> keys, sync |-> sync, late |-> syncFailed]
<1>1. /\ pc[t] = "idle" /\ started < MaxWrites
      /\ op' = [op EXCEPT ![t] = o] /\ pc' = [pc EXCEPT ![t] = "queued"]
      /\ UNCHANGED <<committed, returned>>
  BY DEF Enter, db
<1>2. o.id = started + 1 /\ o.keys = keys
  OBVIOUS
<1> HIDE DEF o
<1>3. pc'[t] = "queued" /\ \A u \in Threads \ {t} : pc'[u] = pc[u]
  BY <1>1, LabelsAfter
<1>4. op'[t] = o /\ \A u \in Threads \ {t} : op'[u] = op[u]
  BY <1>1 DEF IInv, Types
<1>5. /\ ~Writing(t) /\ Writing(t)'
      /\ \A u \in Threads \ {t} : Writing(u)' <=> Writing(u)
  BY <1>1, <1>3 DEF Writing, Working
<1>6. AppliedIds' = AppliedIds /\ AnsweredIds' = AnsweredIds
  BY <1>1 DEF AppliedIds, AnsweredIds
<1>7. CASE keys = {}
  <2>1. PendingIds' = PendingIds
    BY <1>2, <1>4, <1>5, <1>7, PendingSame
  <2> QED
    BY <2>1, <1>6 DEF Refined
<1>8. CASE keys # {}
  <2>0. PICK w : w = started + 1
    OBVIOUS
  <2>1. started \in Nat /\ MaxWrites \in Nat
    BY WritesAssumption DEF SInv, Ops
  <2>2. w \in Ids /\ w \notin 1 .. started
    BY <2>0, <2>1, <1>1 DEF Ids
  <2>3. w \notin PendingIds
    BY <2>2, WhoIsPending DEF SInv, Ops, IdsPending
  <2>4. ~(\E i \in DOMAIN AppliedIds : AppliedIds[i] = w)
    BY <2>2, WhatIsApplied DEF IdsApplied
  <2>5. \A a \in AnsweredIds : a[1] # w
    BY <2>2 DEF SInv, Ops, AnsweredIds
  <2>6. PendingIds' = PendingIds \cup {w}
    <3>1. \A id : id \in PendingIds' <=>
            \E u \in Threads : Writing(u)' /\ op'[u].keys # {} /\ op'[u].id = id
      BY WhoIsPendingNext DEF IdsPending
    <3>2. \A id : id \in PendingIds' <=> id \in PendingIds \/ id = w
      BY <3>1, <1>2, <1>4, <1>5, <1>8, <2>0, WhoIsPending DEF IdsPending
    <3> QED
      BY <3>2
  <2>7. Store!Invoke(w)
    BY <2>3, <2>4, <2>5, <2>6, <1>6
       DEF Store!Invoke, Store!Applied, PendingIds, AppliedIds, AnsweredIds
  <2> QED
    BY <2>2, <2>7 DEF Store!Next, Refined
<1> QED
  BY <1>7, <1>8

LEMMA ReturnRefines ==
  ASSUME IInv, SInv, IInv', started <= MaxWrites, NEW t \in Threads, Return(t)
  PROVE  Refined
<1>1. /\ pc[t] = "queued" /\ pc' = [pc EXCEPT ![t] = "idle"] /\ done[t] # None
      /\ op' = [op EXCEPT ![t] = None]
      /\ returned' = returned \cup {[write |-> op[t], status |-> done[t]]}
      /\ committed' = committed
  BY DEF Return, Go, db
<1>2. pc'[t] = "idle" /\ \A u \in Threads \ {t} : pc'[u] = pc[u]
  BY <1>1, LabelsAfter
<1>3. \A u \in Threads \ {t} : op'[u] = op[u]
  BY <1>1 DEF IInv, Types
<1>4. /\ Writing(t) /\ ~(Writing(t)')
      /\ \A u \in Threads \ {t} : Writing(u)' <=> Writing(u)
  BY <1>1, <1>2 DEF Writing, Working
<1>5. AppliedIds' = AppliedIds
  BY <1>1 DEF AppliedIds
<1> DEFINE r == [write |-> op[t], status |-> done[t]]
<1>6. r.write = op[t] /\ r.status = done[t] /\ returned' = returned \cup {r}
  BY <1>1
<1> HIDE DEF r
<1>7. CASE op[t].keys = {}
  <2>1. PendingIds' = PendingIds
    BY <1>3, <1>4, <1>7, PendingSame
  <2>2. AnsweredIds' = AnsweredIds
    BY <1>6, <1>7 DEF AnsweredIds
  <2> QED
    BY <2>1, <2>2, <1>5 DEF Refined
<1>8. CASE op[t].keys # {}
  <2>1. PICK w : w = op[t].id
    OBVIOUS
  <2>2. w \in Ids
    <3>1. w \in 1 .. started /\ started \in Nat /\ MaxWrites \in Nat
      BY <2>1, <1>4, WritesAssumption DEF SInv, Ops
    <3> QED
      BY <3>1 DEF Ids
  <2>3. w \in PendingIds
    BY <2>1, <1>4, <1>8, WhoIsPending DEF IdsPending
  <2>4. PendingIds' = PendingIds \ {w}
    <3>1. \A id : id \in PendingIds' <=>
            \E u \in Threads : Writing(u)' /\ op'[u].keys # {} /\ op'[u].id = id
      BY WhoIsPendingNext DEF IdsPending
    <3>2. \A u \in Threads \ {t} : Writing(u) => op[u].id # w
      BY <2>1, <1>4 DEF SInv, Ops
    <3>3. \A id : id \in PendingIds' <=> id \in PendingIds /\ id # w
      BY <3>1, <3>2, <2>1, <1>3, <1>4, WhoIsPending DEF IdsPending
    <3> QED
      BY <3>3
  <2>5. (r.status = "ok") = (\E i \in DOMAIN AppliedIds : AppliedIds[i] = w)
    BY <2>1, <1>1, <1>6, <1>8, WhatIsApplied DEF SInv, Outcome, IdsApplied
  <2>6. AnsweredIds' = AnsweredIds \cup
                       {<<w, \E i \in DOMAIN AppliedIds : AppliedIds[i] = w>>}
    <3>1. AnsweredIds' = AnsweredIds \cup {<<r.write.id, r.status = "ok">>}
      BY <1>6, <1>8 DEF AnsweredIds
    <3>2. r.write.id = w
      BY <2>1, <1>6
    <3> QED
      BY <3>1, <3>2, <2>5, Zenon
  <2>7. Store!Answer(w)
    BY <2>3, <2>4, <2>6, <1>5
       DEF Store!Answer, Store!Applied, PendingIds, AppliedIds, AnsweredIds
  <2> QED
    BY <2>2, <2>7 DEF Store!Next, Refined
<1> QED
  BY <1>7, <1>8

LEMMA FinishRefines ==
  ASSUME IInv, SInv, IInv', SInv', NEW t \in Threads, Finish(t)
  PROVE  Refined
<1>1. op' = op /\ returned' = returned /\ pc[t] = "finish"
  BY DEF Finish
<1>2. PICK new : NewlyCompleted(new) /\ committed' = committed \o new
  BY FinishCompletes
<1>3. \A u \in Threads : Writing(u)' = Writing(u)
  BY <1>2, FinishAnswers
<1>4. /\ Len(committed) \in Nat /\ Len(new) \in Nat
      /\ Len(committed') = Len(committed) + Len(new)
      /\ \A i \in 1 .. Len(committed) : committed'[i] = committed[i]
      /\ \A i \in 1 .. Len(new) : committed'[Len(committed) + i] = new[i]
      /\ \A i, j \in 1 .. Len(committed') : committed'[i].id = committed'[j].id => i = j
  BY <1>2, FinishAdds
<1>5. PendingIds' = PendingIds /\ AnsweredIds' = AnsweredIds
  BY <1>1, <1>3, PendingSame DEF AnsweredIds
<1>6. /\ AppliedIds \in Seq(Nat) /\ Len(AppliedIds) = Len(committed)
      /\ DOMAIN AppliedIds = 1 .. Len(committed)
      /\ \A i \in 1 .. Len(committed) : AppliedIds[i] = committed[i].id
  BY WhatIsApplied DEF IdsApplied
<1>7. /\ AppliedIds' \in Seq(Nat) /\ Len(AppliedIds') = Len(committed')
      /\ DOMAIN AppliedIds' = 1 .. Len(committed')
      /\ \A i \in 1 .. Len(committed') : AppliedIds'[i] = committed'[i].id
  BY WhatIsAppliedNext DEF IdsApplied
<1>8. SubSeq(AppliedIds', 1, Len(AppliedIds)) = AppliedIds
  <2>1. PICK a, b, n : a = AppliedIds /\ b = AppliedIds' /\ n = Len(committed)
    OBVIOUS
  <2>2. /\ a \in Seq(Nat) /\ b \in Seq(Nat) /\ Len(a) = n /\ n \in Nat /\ n <= Len(b)
        /\ \A i \in 1 .. n : b[i] = a[i]
    BY <2>1, <1>4, <1>6, <1>7
  <2>3. SubSeq(b, 1, n) = a
    BY <2>2
  <2> QED
    BY <2>1, <2>2, <2>3
<1>9. \A i, j \in DOMAIN AppliedIds' : AppliedIds'[i] = AppliedIds'[j] => i = j
  BY <1>4, <1>7
<1>10. ASSUME NEW i \in (Len(AppliedIds) + 1) .. Len(AppliedIds')
       PROVE  AppliedIds'[i] \in PendingIds
  <2> DEFINE k == i - Len(committed)
  <2>1. k \in 1 .. Len(new) /\ i = Len(committed) + k
    <3>1. i \in (Len(committed) + 1) .. (Len(committed) + Len(new))
      BY <1>4, <1>6, <1>7
    <3> QED
      BY <3>1, <1>4
  <2> HIDE DEF k
  <2>2. i \in 1 .. Len(committed') /\ committed'[i] = new[k]
    BY <2>1, <1>4
  <2>3. PICK j \in 1 .. group.n : new[k].id = op[writers[j]].id /\ op[writers[j]].keys # {}
    BY <1>2, <2>1 DEF NewlyCompleted
  <2>4. group.n \in 1 .. Len(writers) /\ Len(writers) \in Nat
    BY <1>1, LeaderAtWork DEF Working
  <2>5. writers[j] \in Threads /\ Writing(writers[j])
    BY <2>4, QueueOps DEF SInv
  <2>6. op[writers[j]].id \in PendingIds
    BY <2>3, <2>5, WhoIsPending DEF IdsPending
  <2> QED
    BY <2>2, <2>3, <2>6, <1>7
<1>11. Store!Take
  <2>1. /\ SubSeq(AppliedIds', 1, Len(AppliedIds)) = AppliedIds
        /\ \A i \in DOMAIN AppliedIds' : \A j \in DOMAIN AppliedIds' :
             AppliedIds'[i] = AppliedIds'[j] => i = j
        /\ \A i \in (Len(AppliedIds) + 1) .. Len(AppliedIds') : AppliedIds'[i] \in PendingIds
        /\ UNCHANGED <<PendingIds, AnsweredIds>>
    BY <1>5, <1>8, <1>9, <1>10
  <2> QED
    BY <2>1 DEF Store!Take, PendingIds, AppliedIds, AnsweredIds
<1> QED
  BY <1>11 DEF Store!Next, Refined

(* A step that neither calls, nor completes, nor returns.                  *)
LEMMA OthersStutter ==
  ASSUME IInv, IInv', UNCHANGED <<committed, returned>>,
         \A t \in Threads :
           /\ Writing(t)' = Writing(t)
           /\ Writing(t) => op'[t] = op[t]
  PROVE  UNCHANGED <<PendingIds, AppliedIds, AnsweredIds>>
<1>1. PendingIds' = PendingIds
  BY PendingSame
<1>2. AppliedIds' = AppliedIds /\ AnsweredIds' = AnsweredIds
  BY DEF AppliedIds, AnsweredIds
<1> QED
  BY <1>1, <1>2

LEMMA StoreStep ==
  ASSUME IInv, SInv, IInv', SInv', started <= MaxWrites, [Next]_vars
  PROVE  Refined
<1>0. ASSUME NEW t \in Threads, NEW label, pc' = [pc EXCEPT ![t] = label],
             pc[t] \in Working, label \in Working, UNCHANGED <<op, committed, returned>>
      PROVE  Refined
  <2>1. pc'[t] = label /\ \A u \in Threads \ {t} : pc'[u] = pc[u]
    BY <1>0, LabelsAfter
  <2>2. \A u \in Threads : Writing(u)' = Writing(u)
    BY <2>1, <1>0 DEF Writing
  <2> QED
    BY <2>2, <1>0, OthersStutter DEF Refined
<1>1. ASSUME NEW t \in Threads, NEW keys \in Batches, NEW sync, Enter(t, keys, sync)
      PROVE  Refined
  BY <1>1, EnterRefines
<1>2. ASSUME NEW t \in Threads, NEW key, StartGet(t, key) PROVE Refined
  <2> DEFINE o == [key |-> key, snapshot |-> lastSequence, expected |-> LastWrite(key)]
  <2>1. /\ pc[t] = "idle" /\ pc' = [pc EXCEPT ![t] = "reading"]
        /\ op' = [op EXCEPT ![t] = o] /\ UNCHANGED <<committed, returned>>
    BY <1>2 DEF StartGet, Go, db
  <2> HIDE DEF o
  <2>2. /\ pc'[t] = "reading"
        /\ \A u \in Threads \ {t} : pc'[u] = pc[u] /\ op'[u] = op[u]
    BY <2>1 DEF IInv, Types
  <2>3. \A u \in Threads : /\ Writing(u)' = Writing(u)
                           /\ Writing(u) => op'[u] = op[u]
    BY <2>1, <2>2 DEF Writing, Working
  <2> QED
    BY <2>1, <2>3, OthersStutter DEF Refined
<1>3. ASSUME NEW t \in Threads, EndGet(t) PROVE Refined
  <2>1. /\ pc[t] = "reading" /\ pc' = [pc EXCEPT ![t] = "idle"]
        /\ op' = [op EXCEPT ![t] = None] /\ UNCHANGED <<committed, returned>>
    BY <1>3 DEF EndGet, Go, db
  <2>2. /\ pc'[t] = "idle"
        /\ \A u \in Threads \ {t} : pc'[u] = pc[u] /\ op'[u] = op[u]
    BY <2>1 DEF IInv, Types
  <2>3. \A u \in Threads : /\ Writing(u)' = Writing(u)
                           /\ Writing(u) => op'[u] = op[u]
    BY <2>1, <2>2 DEF Writing, Working
  <2> QED
    BY <2>1, <2>3, OthersStutter DEF Refined
<1>4. ASSUME UNCHANGED <<pc, op, committed, returned>> PROVE Refined
  BY <1>4, OthersStutter DEF Writing, Refined
<1>5. ASSUME NEW t \in Threads, MakeRoomFails(t) PROVE Refined
  BY <1>4, <1>5 DEF MakeRoomFails, db
<1>6. ASSUME NEW t \in Threads, LeadNull(t) PROVE Refined
  BY <1>4, <1>6 DEF LeadNull
<1>7. CASE CompactMemTable
  BY <1>4, <1>7 DEF CompactMemTable
<1>8. CASE UNCHANGED vars
  BY <1>4, <1>8 DEF vars
<1>9. ASSUME NEW t \in Threads, Lead(t) PROVE Refined
  <2>1. /\ pc[t] = "queued" /\ pc' = [pc EXCEPT ![t] = "append"]
        /\ UNCHANGED <<op, committed, returned>>
    BY <1>9 DEF Lead, MyTurn
  <2>2. pc'[t] = "append" /\ \A u \in Threads \ {t} : pc'[u] = pc[u]
    BY <2>1, LabelsAfter
  <2>3. \A u \in Threads : Writing(u)' = Writing(u)
    BY <2>1, <2>2 DEF Writing, Working
  <2> QED
    BY <2>1, <2>3, OthersStutter DEF Refined
<1>10. ASSUME NEW t \in Threads, AddRecord(t) PROVE Refined
  BY <1>0, <1>10 DEF AddRecord, Go, Working
<1>11. ASSUME NEW t \in Threads, AddRecordFails(t) PROVE Refined
  BY <1>0, <1>11 DEF AddRecordFails, Go, Working
<1>12. ASSUME NEW t \in Threads, Sync(t) PROVE Refined
  BY <1>0, <1>12 DEF Sync, Go, Working
<1>13. ASSUME NEW t \in Threads, SyncFails(t) PROVE Refined
  BY <1>0, <1>13 DEF SyncFails, Go, Working
<1>14. ASSUME NEW t \in Threads, InsertInto(t) PROVE Refined
  BY <1>0, <1>14 DEF InsertInto, Go, Working
<1>16. ASSUME NEW t \in Threads, Finish(t) PROVE Refined
  BY <1>16, FinishRefines
<1>17. ASSUME NEW t \in Threads, Return(t) PROVE Refined
  BY <1>17, ReturnRefines
<1> QED
  BY <1>1, <1>2, <1>3, <1>5, <1>6, <1>7, <1>8, <1>9, <1>10, <1>11, <1>12, <1>13, <1>14,
     <1>16, <1>17 DEF Next, Proceed

(* No more writes are started than the bound allows.                       *)
Bounded == started \in 0 .. MaxWrites

LEMMA BoundedAlways == Spec => []Bounded
<1>1. Init => Bounded
  BY WritesAssumption DEF Init, Bounded
<1>2. Bounded /\ [Next]_vars => Bounded'
  <2> SUFFICES ASSUME Bounded, [Next]_vars PROVE Bounded'
    OBVIOUS
  <2>1. ASSUME NEW t \in Threads, NEW keys, NEW sync, Enter(t, keys, sync) PROVE Bounded'
    BY <2>1, WritesAssumption DEF Enter, Bounded
  <2>2. ASSUME started' = started PROVE Bounded'
    BY <2>2 DEF Bounded
  <2>3. CASE ~(\E t \in Threads, keys \in Batches, sync \in SyncOptions : Enter(t, keys, sync))
    <3>1. started' = started
      BY <2>3, Zenon
         DEF Next, Proceed, StartGet, EndGet, MakeRoomFails, Lead, LeadNull, AddRecord,
             AddRecordFails, Sync, SyncFails, InsertInto, Finish, Return, CompactMemTable,
             vars
    <3> QED
      BY <3>1, <2>2
  <2> QED
    BY <2>1, <2>3
<1> QED
  BY <1>1, <1>2, PTL DEF Spec

LEMMA StoreInit == Init => Store!Init
<1> SUFFICES ASSUME Init PROVE Store!Init
  OBVIOUS
<1>1. /\ \A t \in Threads : pc[t] = "idle"
      /\ committed = <<>> /\ returned = {}
  BY DEF Init
<1>2. PendingIds = {} /\ AnsweredIds = {}
  BY <1>1 DEF PendingIds, AnsweredIds
<1>3. AppliedIds = <<>>
  BY <1>1 DEF AppliedIds
<1> QED
  BY <1>2, <1>3 DEF Store!Init, PendingIds, AppliedIds, AnsweredIds

(* Write is atomic: each write with something to put takes effect as a     *)
(* whole between its call and its return, in one order with all others,    *)
(* and is answered ok exactly if it did, though its puts are inserted one  *)
(* by one, with the mutex released, mostly by another thread.              *)
THEOREM WritesAreAtomicAlways == Spec => WritesAreAtomic
<1>1. Init => Store!Init
  BY StoreInit
<1>2. /\ IInv /\ SInv /\ Bounded /\ IInv' /\ SInv' /\ [Next]_vars
      => [Store!Next]_(Store!vars)
  <2> SUFFICES ASSUME IInv, SInv, Bounded, IInv', SInv', [Next]_vars
               PROVE  [Store!Next]_(Store!vars)
    OBVIOUS
  <2>1. started <= MaxWrites
    BY WritesAssumption DEF Bounded
  <2>2. Refined
    BY <2>1, StoreStep
  <2> QED
    BY <2>2 DEF Refined, Store!vars, PendingIds, AppliedIds, AnsweredIds
<1> QED
  BY <1>1, <1>2, SInvAlways, BoundedAlways, PTL DEF Spec, WritesAreAtomic, Store!Spec
=============================================================================
