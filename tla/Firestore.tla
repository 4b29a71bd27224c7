----------------------------- MODULE Firestore -----------------------------
(***************************************************************************)
(* What the Firestore client library does with the writes the app hands    *)
(* it: EXTERNAL code, modelled from how the app uses it and from the       *)
(* headers shipped with the app.  Writes are shown locally at once, are    *)
(* persisted in a FIFO queue, and reach the server later, one by one.      *)
(*                                                                         *)
(* A document is [input, grade]: what a form wrote, and the grade field    *)
(* derived from it (Absent in a course that never had one).  A write is    *)
(* [doc, op, input, grade] with op                                         *)
(*   "set"     addDocument: the whole document, under a fresh id;          *)
(*   "update"  updateData: only the fields that are not Keep, and only of  *)
(*             a document that exists;                                     *)
(*   "delete"  the document, not the collections below it.                 *)
(***************************************************************************)
LOCAL INSTANCE Integers
LOCAL INSTANCE Sequences

CONSTANTS Keep,      \* in an update: a field the update does not name
          Missing    \* no such document

Set(k, input, grade) ==
  [doc |-> k, op |-> "set", input |-> input, grade |-> grade]

Update(k, input, grade) ==
  [doc |-> k, op |-> "update", input |-> input, grade |-> grade]

Delete(k) == [doc |-> k, op |-> "delete", input |-> Keep, grade |-> Keep]

(* The write w performed on the copy x of the document it names.           *)
Apply(w, x) ==
  CASE w.op = "set"    -> [input |-> w.input, grade |-> w.grade]
    [] w.op = "delete" -> Missing
    [] w.op = "update" ->
         IF x = Missing THEN Missing
         ELSE [input |-> IF w.input = Keep THEN x.input ELSE w.input,
               grade |-> IF w.grade = Keep THEN x.grade ELSE w.grade]

(* The server refuses to update what does not exist.                       *)
Applicable(w, x) == w.op = "update" => x # Missing

LastOf(S) == CHOOSE i \in S : \A j \in S : j <= i

(* The writes of the queue q that decide whether k exists, and those that  *)
(* decide its input and its grade.                                         *)
Replacing(q, k) == {i \in DOMAIN q : q[i].doc = k /\ q[i].op # "update"}

Inputting(q, k) ==
  {i \in DOMAIN q : q[i].doc = k /\ (q[i].op # "update" \/ q[i].input # Keep)}

Grading(q, k) ==
  {i \in DOMAIN q : q[i].doc = k /\ (q[i].op # "update" \/ q[i].grade # Keep)}

(***************************************************************************)
(* Latency compensation: the document k as the app sees it, the queued     *)
(* writes q over the last synchronised copy x.  Field by field, the last   *)
(* queued write that names the field decides.  It is the fold of Apply     *)
(* over q (an assumption of MCGradeKeep has TLC compare the two), written  *)
(* without recursion.                                                      *)
(***************************************************************************)
Overlay(q, x, k) ==
  LET R == Replacing(q, k)
      I == Inputting(q, k)
      G == Grading(q, k)
  IN  IF IF R = {} THEN x = Missing ELSE q[LastOf(R)].op = "delete"
      THEN Missing
      ELSE [input |-> IF I = {} THEN x.input ELSE q[LastOf(I)].input,
            grade |-> IF G = {} THEN x.grade ELSE q[LastOf(G)].grade]
=============================================================================
