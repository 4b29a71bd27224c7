-------------------------- MODULE GradeKeepProofs --------------------------
EXTENDS GradeKeep, SequenceTheorems, FiniteSetTheorems, WellFoundedInduction, TLAPS

(* A non-empty set of positions in a sequence has a last one.              *)
LEMMA LastOfIsLast ==
  ASSUME NEW n \in Nat, NEW S \in SUBSET (1 .. n), S # {}
  PROVE  LastOf(S) \in S /\ \A j \in S : j <= LastOf(S)
<1> DEFINE T == {n - i : i \in S}
<1>1. T # {} /\ T \subseteq Nat
  <2>1. PICK i \in S : TRUE
    OBVIOUS
  <2>2. n - i \in T
    BY <2>1
  <2>3. \A j \in S : n - j \in Nat
    OBVIOUS
  <2> QED
    BY <2>2, <2>3
<1>2. PICK m \in T : \A y \in T : ~(<<y, m>> \in OpToRel(<, Nat))
  <2> HIDE DEF T
  <2> QED
    BY <1>1, WFMin, NatLessThanWellFounded
<1>3. PICK i \in S : m = n - i
  OBVIOUS
<1>4. ASSUME NEW j \in S PROVE j <= i
  <2>1. n - j \in T
    OBVIOUS
  <2>2. ~(<<n - j, m>> \in OpToRel(<, Nat))
    BY <1>2, <2>1
  <2>3. n - j \in Nat /\ m \in Nat
    BY <1>3
  <2>4. ~(n - j < m)
    BY <2>2, <2>3 DEF OpToRel
  <2> QED
    BY <2>4, <1>3
<1> QED
  BY <1>4 DEF LastOf

-----------------------------------------------------------------------------
(* The tree: what is listed at each level, and what a document there holds. *)
LEMMA Levels ==
  /\ \A k \in Courses : Doc(k) = CourseDoc
  /\ \A k \in Categories : Doc(k) = CategoryDoc
  /\ \A k \in Assignments : Doc(k) = AssignmentDoc
  /\ \A list \in Lists : \A k \in Children[list] :
       k \in Docs /\ Parent[k] = list /\ Doc(k) = DocIn(list)
  /\ \A list \in Courses : Children[list] \subseteq Categories
  /\ \A list \in Categories : Children[list] \subseteq Assignments
BY DocsAssumption, ParentAssumption DEF Docs, Lists, Children, Doc, DocIn

(* What the fields of a document of k may be.                              *)
Inputs(k) == {x.input : x \in Doc(k)}
GradesOf(k) == {x.grade : x \in Doc(k)}

(* A set of records with independent fields is the product of its fields.  *)
LEMMA RecordsOfFields ==
  ASSUME NEW A, NEW B, NEW D, D = [input : A, grade : B]
  PROVE  D = [input : {x.input : x \in D}, grade : {x.grade : x \in D}]
<1> DEFINE I == {x.input : x \in D}
           G == {x.grade : x \in D}
<1>1. I \subseteq A /\ G \subseteq B
  OBVIOUS
<1>2. ASSUME NEW x \in D PROVE x \in [input : I, grade : G]
  <2>1. x.input \in I /\ x.grade \in G
    OBVIOUS
  <2>2. x = [input |-> x.input, grade |-> x.grade]
    OBVIOUS
  <2> QED
    BY <2>1, <2>2
<1>3. ASSUME NEW r \in [input : I, grade : G] PROVE r \in D
  <2>1. r = [input |-> r.input, grade |-> r.grade] /\ r.input \in I /\ r.grade \in G
    OBVIOUS
  <2> HIDE DEF I, G
  <2> QED
    BY <1>1, <2>1
<1> QED
  BY <1>2, <1>3

(* Above the assignments any input goes with any grade.                    *)
LEMMA FieldsAreIndependent ==
  ASSUME NEW k \in Docs \ Assignments
  PROVE  Doc(k) = [input : Inputs(k), grade : GradesOf(k)]
<1>1. Doc(k) \in {CourseDoc, CategoryDoc}
  BY Levels DEF Docs
<1>2. \E A, B : Doc(k) = [input : A, grade : B]
  BY <1>1, Zenon DEF CourseDoc, CategoryDoc
<1>3. PICK A, B : Doc(k) = [input : A, grade : B]
  BY <1>2
<1> QED
  BY <1>3, RecordsOfFields, Zenon DEF Inputs, GradesOf

(* Every document is a record of an input and a grade.                     *)
LEMMA DocShape ==
  ASSUME NEW k \in Docs, NEW x \in Doc(k)
  PROVE  x = [input |-> x.input, grade |-> x.grade]
<1>1. CASE k \in Assignments
  <2>1. PICK m \in Marks : x = [input |-> m, grade |-> AssignmentGrade(m)]
    BY <1>1, Levels DEF AssignmentDoc
  <2> QED
    BY <2>1
<1>2. CASE k \notin Assignments
  <2>1. x \in [input : Inputs(k), grade : GradesOf(k)]
    BY <1>2, FieldsAreIndependent
  <2> QED
    BY <2>1
<1> QED
  BY <1>1, <1>2

(* Keep, the mark of a field an update leaves alone, is never written.     *)
LEMMA KeepIsNoValue ==
  ASSUME NEW k \in Docs
  PROVE  Keep \notin Inputs(k) /\ Keep \notin GradesOf(k)
BY SentinelAssumption DEF Inputs, GradesOf, Documents

(* The three kinds of writes.                                              *)
LEMMA WriteShape ==
  ASSUME NEW k \in Docs, NEW w \in Writes(k)
  PROVE  /\ w.doc = k
         /\ \/ w.op = "delete"
            \/ /\ w.op = "set"
               /\ w.input \in Inputs(k)
               /\ w.grade \in GradesOf(k)
               /\ [input |-> w.input, grade |-> w.grade] \in Doc(k)
            \/ /\ w.op = "update"
               /\ w.input \in Inputs(k) \cup {Keep}
               /\ w.grade \in GradesOf(k) \cup {Keep}
               /\ k \in Assignments =>
                    [input |-> w.input, grade |-> w.grade] \in Doc(k)
<1>1. CASE w = Delete(k)
  BY <1>1 DEF Delete
<1>2. CASE \E x \in Doc(k) : w = Set(k, x.input, x.grade)
  BY <1>2, DocShape DEF Set, Inputs, GradesOf
<1>3. CASE \E x \in Doc(k) : w = Update(k, x.input, x.grade)
  BY <1>3, DocShape DEF Update, Inputs, GradesOf
<1>4. CASE k \notin Assignments /\ \E x \in Doc(k) : w = Update(k, x.input, Keep)
  BY <1>4 DEF Update, Inputs
<1>5. CASE k \notin Assignments /\ \E x \in Doc(k) : w = Update(k, Keep, x.grade)
  BY <1>5 DEF Update, GradesOf
<1> QED
  BY <1>1, <1>2, <1>3, <1>4, <1>5, DocsAssumption DEF Writes, Docs

(* A write belongs to the document it names.                               *)
LEMMA WriteOf ==
  ASSUME NEW w \in AllWrites
  PROVE  w.doc \in Docs /\ w \in Writes(w.doc)
BY WriteShape DEF AllWrites

-----------------------------------------------------------------------------
(* An update of a document keeps it well formed.                           *)
LEMMA UpdateType ==
  ASSUME NEW k \in Docs, NEW w \in Writes(k), NEW x \in Doc(k), w.op = "update"
  PROVE  Apply(w, x) \in Doc(k)
<1> DEFINE i == IF w.input = Keep THEN x.input ELSE w.input
           g == IF w.grade = Keep THEN x.grade ELSE w.grade
<1>1. Apply(w, x) = [input |-> i, grade |-> g]
  BY SentinelAssumption DEF Apply, Documents
<1>2. CASE k \in Assignments
  <2>1. [input |-> w.input, grade |-> w.grade] \in Doc(k)
    BY <1>2, WriteShape
  <2>2. w.input # Keep /\ w.grade # Keep
    BY <2>1, KeepIsNoValue DEF Inputs, GradesOf
  <2> QED
    BY <1>1, <2>1, <2>2
<1>3. CASE k \notin Assignments
  <2>1. x.input \in Inputs(k) /\ x.grade \in GradesOf(k)
    BY DEF Inputs, GradesOf
  <2>2. i \in Inputs(k) /\ g \in GradesOf(k)
    BY <2>1, WriteShape
  <2> HIDE DEF i, g
  <2> QED
    BY <1>1, <1>3, <2>2, FieldsAreIndependent
<1> QED
  BY <1>2, <1>3

(* A write keeps a copy of its document well formed.                       *)
LEMMA ApplyType ==
  ASSUME NEW k \in Docs, NEW w \in Writes(k), NEW x \in Doc(k) \cup {Missing}
  PROVE  Apply(w, x) \in Doc(k) \cup {Missing}
<1>1. CASE w.op = "delete"
  BY <1>1 DEF Apply
<1>2. CASE w.op = "set"
  BY <1>2, WriteShape DEF Apply
<1>3. CASE w.op = "update" /\ x = Missing
  BY <1>3 DEF Apply
<1>4. CASE w.op = "update" /\ x # Missing
  BY <1>4, UpdateType
<1> QED
  BY <1>1, <1>2, <1>3, <1>4, WriteShape

(* A document seen through queued writes is well formed: an input and a    *)
(* grade from two different writes still go together.                      *)
LEMMA OverlayType ==
  ASSUME NEW q \in Seq(AllWrites), NEW k \in Docs, NEW x \in Doc(k) \cup {Missing}
  PROVE  Overlay(q, x, k) \in Doc(k) \cup {Missing}
<1> DEFINE R == Replacing(q, k)
           I == Inputting(q, k)
           G == Grading(q, k)
           i == IF I = {} THEN x.input ELSE q[LastOf(I)].input
           g == IF G = {} THEN x.grade ELSE q[LastOf(G)].grade
<1>0. Len(q) \in Nat /\ DOMAIN q = 1 .. Len(q)
  OBVIOUS
<1>1. \A j \in DOMAIN q : q[j].doc = k => q[j] \in Writes(k)
  BY WriteOf
<1>2. /\ R \subseteq I /\ R \subseteq G
      /\ I \in SUBSET (1 .. Len(q)) /\ G \in SUBSET (1 .. Len(q))
      /\ R \in SUBSET (1 .. Len(q))
  BY <1>0 DEF Replacing, Inputting, Grading
<1>3. /\ R # {} => LastOf(R) \in R /\ \A j \in R : j <= LastOf(R)
      /\ I # {} => LastOf(I) \in I /\ \A j \in I : j <= LastOf(I)
      /\ G # {} => LastOf(G) \in G /\ \A j \in G : j <= LastOf(G)
  <2> HIDE DEF R, I, G
  <2> QED
    BY <1>0, <1>2, LastOfIsLast
<1>4. CASE IF R = {} THEN x = Missing ELSE q[LastOf(R)].op = "delete"
  BY <1>4 DEF Overlay
<1>5. CASE ~(IF R = {} THEN x = Missing ELSE q[LastOf(R)].op = "delete")
  <2>1. Overlay(q, x, k) = [input |-> i, grade |-> g]
    BY <1>5 DEF Overlay
  <2>2. I # {} => q[LastOf(I)] \in Writes(k) /\ q[LastOf(I)].op # "delete"
    <3> SUFFICES ASSUME I # {}, q[LastOf(I)].op = "delete" PROVE FALSE
      BY <1>0, <1>1, <1>3 DEF Inputting
    <3>1. LastOf(I) \in R
      BY <1>3 DEF Inputting, Replacing
    <3>2. LastOf(R) = LastOf(I)
      <4> HIDE DEF R, I, G
      <4>1. LastOf(R) \in 1 .. Len(q) /\ LastOf(I) \in 1 .. Len(q)
        BY <1>2, <1>3, <3>1
      <4>2. LastOf(R) <= LastOf(I) /\ LastOf(I) <= LastOf(R)
        BY <1>2, <1>3, <3>1
      <4> QED
        BY <1>0, <4>1, <4>2
    <3> QED
      BY <1>5, <3>1, <3>2
  <2>3. G # {} => q[LastOf(G)] \in Writes(k) /\ q[LastOf(G)].op # "delete"
    <3> SUFFICES ASSUME G # {}, q[LastOf(G)].op = "delete" PROVE FALSE
      BY <1>0, <1>1, <1>3 DEF Grading
    <3>1. LastOf(G) \in R
      BY <1>3 DEF Grading, Replacing
    <3>2. LastOf(R) = LastOf(G)
      <4> HIDE DEF R, I, G
      <4>1. LastOf(R) \in 1 .. Len(q) /\ LastOf(G) \in 1 .. Len(q)
        BY <1>2, <1>3, <3>1
      <4>2. LastOf(R) <= LastOf(G) /\ LastOf(G) <= LastOf(R)
        BY <1>2, <1>3, <3>1
      <4> QED
        BY <1>0, <4>1, <4>2
    <3> QED
      BY <1>5, <3>1, <3>2
  <2>4. I = {} \/ G = {} => x \in Doc(k)
    BY <1>2, <1>5
  <2>5. CASE k \in Assignments
    <3>1. I = G
      <4>1. ASSUME NEW j \in DOMAIN q, q[j].doc = k, q[j].op = "update"
            PROVE  q[j].input # Keep /\ q[j].grade # Keep
        <5>1. [input |-> q[j].input, grade |-> q[j].grade] \in Doc(k)
          BY <1>1, <2>5, <4>1, WriteShape
        <5> QED
          BY <5>1, KeepIsNoValue DEF Inputs, GradesOf
      <4> QED
        BY <4>1 DEF Inputting, Grading
    <3>2. CASE I = {}
      BY <2>1, <2>4, <3>1, <3>2, DocShape
    <3>3. CASE I # {}
      <4>1. [input |-> q[LastOf(I)].input, grade |-> q[LastOf(I)].grade] \in Doc(k)
        BY <2>2, <2>5, <3>3, WriteShape
      <4> QED
        BY <2>1, <3>1, <3>3, <4>1
    <3> QED
      BY <3>2, <3>3
  <2>6. CASE k \notin Assignments
    <3>1. i \in Inputs(k)
      <4>1. CASE I = {}
        BY <2>4, <4>1 DEF Inputs
      <4>2. CASE I # {}
        <5>1. q[LastOf(I)].op = "set" \/ q[LastOf(I)].input # Keep
          BY <1>3, <2>2, <4>2, WriteShape DEF Inputting
        <5> QED
          BY <2>2, <4>2, <5>1, WriteShape
      <4> QED
        BY <4>1, <4>2
    <3>2. g \in GradesOf(k)
      <4>1. CASE G = {}
        BY <2>4, <4>1 DEF GradesOf
      <4>2. CASE G # {}
        <5>1. q[LastOf(G)].op = "set" \/ q[LastOf(G)].grade # Keep
          BY <1>3, <2>3, <4>2, WriteShape DEF Grading
        <5> QED
          BY <2>3, <4>2, <5>1, WriteShape
      <4> QED
        BY <4>1, <4>2
    <3> HIDE DEF i, g
    <3> QED
      BY <2>1, <2>6, <3>1, <3>2, FieldsAreIndependent
  <2> QED
    BY <2>5, <2>6
<1> QED
  BY <1>4, <1>5

-----------------------------------------------------------------------------
(* A database stays one when a document is replaced by a well formed one.  *)
LEMMA DatabaseUpdate ==
  ASSUME NEW db \in Databases, NEW k \in Docs, NEW x \in Doc(k) \cup {Missing}
  PROVE  [db EXCEPT ![k] = x] \in Databases
<1>1. x \in Documents \cup {Missing}
  BY DEF Documents
<1> QED
  BY <1>1 DEF Databases

(* The rows a device sees in a collection are a snapshot of it.            *)
LEMMA SnapshotType ==
  ASSUME NEW q \in Seq(AllWrites), NEW c \in Databases, NEW list \in Lists
  PROVE  Snapshot(q, c, list) \in Snapshots(list)
<1> DEFINE rows == {k \in Children[list] : Overlay(q, c[k], k) # Missing}
<1>1. \A k \in rows : Overlay(q, c[k], k) \in DocIn(list)
  <2> TAKE k \in rows
  <2>1. k \in Docs /\ Doc(k) = DocIn(list)
    BY Levels
  <2>2. c[k] \in Doc(k) \cup {Missing}
    BY <2>1 DEF Databases
  <2> QED
    BY <2>1, <2>2, OverlayType
<1>2. Snapshot(q, c, list) = [k \in rows |-> Overlay(q, c[k], k)]
  <2> DEFINE seen == [k \in Children[list] |-> Overlay(q, c[k], k)]
  <2>1. {j \in DOMAIN seen : seen[j] # Missing} = rows
    OBVIOUS
  <2>2. Snapshot(q, c, list) = [k \in {j \in DOMAIN seen : seen[j] # Missing} |-> seen[k]]
    BY DEF Snapshot
  <2>3. \A k \in rows : seen[k] = Overlay(q, c[k], k)
    OBVIOUS
  <2> HIDE DEF seen
  <2> QED
    BY <2>1, <2>2, <2>3
<1>3. Snapshot(q, c, list) \in [rows -> DocIn(list)]
  BY <1>1, <1>2
<1> QED
  BY <1>3 DEF Snapshots, Tables

(* The roll-up an assignments listener issues is a write of its category.  *)
LEMMA CategoryRollUpType ==
  ASSUME NEW list \in Categories, NEW rows \in Snapshots(list)
  PROVE  /\ Update(list, Keep, CategoryGrade(MarksOf(rows))) \in AllWrites
         /\ CategoryGrade(MarksOf(rows)) # Keep
<1>1. PICK S \in SUBSET Children[list] : rows \in [S -> DocIn(list)]
  BY DEF Snapshots, Tables
<1>2. S \subseteq Assignments /\ DocIn(list) = AssignmentDoc
  BY Levels, DocsAssumption DEF DocIn, Docs
<1>3. \A a \in S : rows[a].input \in Marks
  BY <1>1, <1>2 DEF AssignmentDoc
<1>4. MarksOf(rows) \in [S -> Marks]
  BY <1>1, <1>3 DEF MarksOf
<1>5. CategoryGrade(MarksOf(rows)) \in CategoryGrades
  BY <1>2, <1>4 DEF CategoryGrades, Tables
<1>6. PICK w \in Weights : TRUE
  BY InputAssumption
<1> DEFINE x == [input |-> [weight |-> w], grade |-> CategoryGrade(MarksOf(rows))]
<1>7. x \in Doc(list) /\ x.grade = CategoryGrade(MarksOf(rows))
  BY <1>5, <1>6, Levels DEF CategoryDoc
<1>8. Update(list, Keep, x.grade) \in Writes(list)
  <2> HIDE DEF x
  <2> QED
    BY <1>7, DocsAssumption DEF Writes
<1>9. CategoryGrade(MarksOf(rows)) # Keep
  <2> HIDE DEF x
  <2> QED
    BY <1>7, SentinelAssumption DEF Documents, Docs
<1> QED
  BY <1>7, <1>8, <1>9 DEF AllWrites, Docs

(* The roll-up a categories listener issues is a write of its course.      *)
LEMMA CourseRollUpType ==
  ASSUME NEW list \in Courses, NEW rows \in Snapshots(list)
  PROVE  /\ Update(list, Keep, CourseGrade(ShareOf(rows))) \in AllWrites
         /\ CourseGrade(ShareOf(rows)) # Keep
<1>1. PICK S \in SUBSET Children[list] : rows \in [S -> DocIn(list)]
  BY DEF Snapshots, Tables
<1>2. S \subseteq Categories /\ DocIn(list) = CategoryDoc
  BY Levels, DocsAssumption DEF DocIn, Docs
<1>3. \A k \in S : rows[k].input.weight \in Weights /\ rows[k].grade \in CategoryGrades
  BY <1>1, <1>2 DEF CategoryDoc
<1>4. ShareOf(rows) \in [S -> [weight : Weights, grade : CategoryGrades]]
  BY <1>1, <1>3 DEF ShareOf
<1>5. CourseGrade(ShareOf(rows)) \in CourseGrades
  BY <1>2, <1>4 DEF CourseGrades, Tables
<1> DEFINE x == [input |-> [course_grade |-> 0], grade |-> CourseGrade(ShareOf(rows))]
<1>6. x \in Doc(list) /\ x.grade = CourseGrade(ShareOf(rows))
  BY <1>5, Levels DEF CourseDoc
<1>7. Update(list, Keep, x.grade) \in Writes(list)
  <2> HIDE DEF x
  <2> QED
    BY <1>6, DocsAssumption DEF Writes
<1>8. CourseGrade(ShareOf(rows)) # Keep
  <2> HIDE DEF x
  <2> QED
    BY <1>6, SentinelAssumption DEF Documents, Docs
<1> QED
  BY <1>6, <1>7, <1>8 DEF AllWrites, Docs

-----------------------------------------------------------------------------
(* Any order of a set of controllers is a sequence of them.                *)
LEMMA OrderType ==
  ASSUME NEW S \in SUBSET Views, NEW order \in SetToSeqs(S)
  PROVE  order \in Seq(S) /\ Len(order) \in Nat /\ DOMAIN order = 1 .. Len(order)
<1>1. Cardinality(S) \in Nat
  BY FinitenessAssumption, FS_Subset, FS_CardinalityType
<1>2. order \in [1 .. Cardinality(S) -> S]
  BY DEF SetToSeqs
<1> QED
  BY <1>1, <1>2

(* What a step of the client library leaves behind is well typed: its      *)
(* queue, its copies, and the snapshots it raises.                         *)
LEMMA ClientStepType ==
  ASSUME TypeOK, live' = live,
         NEW d \in Devices, NEW q \in Seq(AllWrites), NEW c \in Databases,
         NEW pending \in Seq(Events(d)), NEW due,
         ClientStep(d, q, c, pending, due)
  PROVE  /\ queue' \in [Devices -> Seq(AllWrites)]
         /\ cache' \in [Devices -> Databases]
         /\ DOMAIN mainq' = Devices
         /\ \A e \in Devices : mainq'[e] \in Seq(Events(e)')
<1> DEFINE raised == {v \in live :
              /\ v.device = d
              /\ RowsChange(d, q, c, v.list) \/ v \in due}
           event(v) == Event(v, Snapshot(q, c, v.list))
<1>1. /\ queue' = [queue EXCEPT ![d] = q]
      /\ cache' = [cache EXCEPT ![d] = c]
  BY DEF ClientStep
<1>2. PICK order \in SetToSeqs(raised) :
        mainq' = [mainq EXCEPT ![d] = pending \o [i \in DOMAIN order |-> event(order[i])]]
  BY DEF ClientStep
<1>3. raised \in SUBSET Views
  BY DEF TypeOK
<1>4. order \in Seq(raised) /\ Len(order) \in Nat /\ DOMAIN order = 1 .. Len(order)
  <2> HIDE DEF raised
  <2> QED
    BY <1>3, OrderType
<1>5. \A v \in raised : event(v) \in Events(d)
  <2> TAKE v \in raised
  <2>1. v \in live /\ v.device = d /\ v.list \in Lists
    BY DEF TypeOK, Views
  <2>2. Snapshot(q, c, v.list) \in Snapshots(v.list)
    BY <2>1, SnapshotType
  <2> QED
    BY <2>1, <2>2 DEF Events, Event
<1>6. [i \in DOMAIN order |-> event(order[i])] \in Seq(Events(d))
  <2>1. \A i \in 1 .. Len(order) : order[i] \in raised
    BY <1>4
  <2> HIDE DEF event, raised
  <2>2. \A i \in 1 .. Len(order) : event(order[i]) \in Events(d)
    BY <1>5, <2>1
  <2> QED
    BY <1>4, <2>2
<1>7. \A e \in Devices : Events(e)' = Events(e)
  BY DEF Events
<1>8. /\ DOMAIN mainq' = Devices
      /\ \A e \in Devices : mainq'[e] \in Seq(Events(e))
  <2> DEFINE new == [i \in DOMAIN order |-> event(order[i])]
  <2>1. new \in Seq(Events(d))
    BY <1>6
  <2>2. mainq' = [mainq EXCEPT ![d] = pending \o new]
    BY <1>2
  <2> HIDE DEF new
  <2>3. pending \o new \in Seq(Events(d))
    BY <2>1
  <2> QED
    BY <2>2, <2>3 DEF TypeOK
<1> QED
  BY <1>1, <1>7, <1>8 DEF TypeOK

(* A write a device issues is queued, and the rest as above.               *)
LEMMA IssueType ==
  ASSUME TypeOK, live' = live,
         NEW d \in Devices, NEW w \in AllWrites, NEW pending \in Seq(Events(d)),
         Issue(d, w, pending)
  PROVE  /\ queue' \in [Devices -> Seq(AllWrites)]
         /\ cache' \in [Devices -> Databases]
         /\ DOMAIN mainq' = Devices
         /\ \A e \in Devices : mainq'[e] \in Seq(Events(e)')
<1>1. Append(queue[d], w) \in Seq(AllWrites) /\ cache[d] \in Databases
  BY DEF TypeOK
<1>2. ClientStep(d, Append(queue[d], w), cache[d], pending, {})
  BY DEF Issue
<1> QED
  BY <1>1, <1>2, ClientStepType

(* The snapshot a handler is given is one of its controller's collection.  *)
LEMMA HandlerInput ==
  ASSUME TypeOK, NEW d \in Devices, mainq[d] # <<>>
  PROVE  /\ Head(mainq[d]).view \in live
         /\ Head(mainq[d]).view \in Views
         /\ Head(mainq[d]).view.list \in Lists
         /\ Head(mainq[d]).rows \in Snapshots(Head(mainq[d]).view.list)
         /\ Tail(mainq[d]) \in Seq(Events(d))
<1>1. mainq[d] \in Seq(Events(d))
  BY DEF TypeOK
<1>2. Head(mainq[d]) \in Events(d) /\ Tail(mainq[d]) \in Seq(Events(d))
  <2> HIDE DEF Events
  <2> QED
    BY <1>1
<1>3. PICK v \in live : Head(mainq[d]) \in [view : {v}, rows : Snapshots(v.list)]
  BY <1>2 DEF Events
<1>4. v \in Views /\ v.list \in Lists
  BY DEF TypeOK, Views
<1> QED
  BY <1>2, <1>3, <1>4

(* A controller is one of the views, and so is its list.                   *)
LEMMA LiveView ==
  ASSUME TypeOK, NEW v \in live
  PROVE  v \in Views /\ v.list \in Lists
BY DEF TypeOK, Views

-----------------------------------------------------------------------------
(* The seed is the only database at first, and nothing is under way.       *)
LEMMA InitType == Init => TypeOK
<1> SUFFICES ASSUME Init PROVE TypeOK
  OBVIOUS
<1>1. server \in Databases
  BY SeedAssumption DEF Init
<1>2. [k \in Docs |-> Missing] \in Databases
  BY DEF Databases
<1>3. cache \in [Devices -> Databases]
  BY <1>2 DEF Init
<1>4. queue \in [Devices -> Seq(AllWrites)]
  BY DEF Init
<1>5. stack \in [Devices -> Seq(Views)]
  BY DEF Init
<1>6. DOMAIN mainq = Devices /\ \A d \in Devices : mainq[d] \in Seq(Events(d))
  BY DEF Init
<1>7. DOMAIN table = Views /\ \A v \in Views : table[v] = NotLoaded
  BY DEF Init
<1>8. edits \in 0 .. MaxEdits
  BY BoundsAssumption DEF Init
<1>9. /\ restarts \in [Devices -> Nat]
      /\ \A d \in Devices : restarts[d] <= MaxRestarts[d]
  BY BoundsAssumption DEF Init
<1>10. form \in [Devices -> Docs \cup {Closed}] /\ live = {} /\ used \subseteq Docs
  BY DEF Init
<1> QED
  BY <1>1, <1>3, <1>4, <1>5, <1>6, <1>7, <1>8, <1>9, <1>10 DEF TypeOK

(* A new controller adds to what may be on the main queue.                 *)
LEMMA PushType ==
  ASSUME TypeOK, NEW d \in Devices, NEW v, Push(d, v)
  PROVE  TypeOK'
<1> DEFINE rows == Snapshot(queue[d], cache[d], v.list)
<1>1. v \in Views /\ v.device = d /\ live' = live \cup {v}
  BY DEF Push
<1>2. v.list \in Lists
  BY <1>1 DEF Views
<1>3. rows \in Snapshots(v.list)
  BY <1>2, SnapshotType DEF TypeOK
<1>4. \A e \in Devices : Events(e) \subseteq Events(e)'
  BY <1>1 DEF Events
<1>5. Event(v, rows) \in Events(d)'
  BY <1>1, <1>3 DEF Events, Event
<1>6. /\ DOMAIN mainq' = Devices
      /\ \A e \in Devices : mainq'[e] \in Seq(Events(e)')
  <2>1. \A e \in Devices : mainq[e] \in Seq(Events(e)')
    <3> TAKE e \in Devices
    <3>1. mainq[e] \in Seq(Events(e)) /\ Events(e) \subseteq Events(e)'
      BY <1>4 DEF TypeOK
    <3> HIDE DEF Events
    <3> QED
      BY <3>1
  <2>2. CASE mainq' = [mainq EXCEPT ![d] = Append(@, Event(v, rows))]
    <3>1. Append(mainq[d], Event(v, rows)) \in Seq(Events(d)')
      <4> HIDE DEF rows
      <4> QED
        BY <1>5, <2>1
    <3> QED
      BY <2>1, <2>2, <3>1 DEF TypeOK
  <2>3. CASE mainq' = mainq
    BY <2>1, <2>3 DEF TypeOK
  <2> QED
    BY <2>2, <2>3 DEF Push
<1>7. stack' \in [Devices -> Seq(Views)]
  BY <1>1 DEF Push, TypeOK
<1> QED
  BY <1>1, <1>6, <1>7 DEF Push, TypeOK

(* The back button pops a controller and touches nothing else.             *)
LEMMA BackType ==
  ASSUME TypeOK, NEW d \in Devices, Back(d)
  PROVE  TypeOK'
<1>1. stack[d] \in Seq(Views) /\ stack[d] # <<>>
  BY DEF Back, Visible, Running, TypeOK
<1>2. Len(stack[d]) - 1 \in 0 .. Len(stack[d])
  BY <1>1
<1>3. SubSeq(stack[d], 1, Len(stack[d]) - 1) \in Seq(Views)
  BY <1>1, <1>2
<1>4. stack' \in [Devices -> Seq(Views)]
  BY <1>3 DEF Back, TypeOK
<1>5. \A e \in Devices : Events(e)' = Events(e)
  BY DEF Events, Back
<1> QED
  BY <1>4, <1>5 DEF Back, TypeOK

-----------------------------------------------------------------------------
(* A handler puts a snapshot of its collection into its array, and rolls   *)
(* up into grades that the formula yields on such a snapshot.              *)
LEMMA ListenerType ==
  ASSUME TypeOK, NEW d \in Devices, Listener(d)
  PROVE  TypeOK'
<1> DEFINE v == Head(mainq[d]).view
           rows == Head(mainq[d]).rows
<1>1. mainq[d] # <<>> /\ live' = live
  BY DEF Listener, CoursesListener, CategoriesListener, AssignmentsListener
<1>2. /\ v \in live /\ v \in Views /\ v.list \in Lists
      /\ rows \in Snapshots(v.list)
      /\ Tail(mainq[d]) \in Seq(Events(d))
  BY <1>1, HandlerInput
<1>3. /\ table' = [table EXCEPT ![v] = rows]
      /\ UNCHANGED <<server, live, stack, form, used, edits, restarts>>
  BY DEF Listener, CoursesListener, CategoriesListener, AssignmentsListener
<1>4. DOMAIN table' = Views
      /\ \A u \in Views : table'[u] \in Snapshots(u.list) \cup {NotLoaded}
  <2> HIDE DEF v, rows
  <2> QED
    BY <1>2, <1>3 DEF TypeOK
<1>5. /\ queue' \in [Devices -> Seq(AllWrites)]
      /\ cache' \in [Devices -> Databases]
      /\ DOMAIN mainq' = Devices
      /\ \A e \in Devices : mainq'[e] \in Seq(Events(e)')
  <2>1. CASE CoursesListener(d)
    <3>1. mainq' = [mainq EXCEPT ![d] = Tail(@)] /\ UNCHANGED <<queue, cache>>
      BY <2>1 DEF CoursesListener
    <3>2. \A e \in Devices : Events(e)' = Events(e)
      BY <1>1 DEF Events
    <3> HIDE DEF v, rows
    <3> QED
      BY <1>2, <3>1, <3>2 DEF TypeOK
  <2>2. CASE CategoriesListener(d)
    <3>1. /\ v.list \in Courses
          /\ Issue(d, Update(v.list, Keep, CourseGrade(ShareOf(rows))), Tail(mainq[d]))
      BY <2>2 DEF CategoriesListener
    <3> HIDE DEF v, rows
    <3>2. Update(v.list, Keep, CourseGrade(ShareOf(rows))) \in AllWrites
      BY <1>2, <3>1, CourseRollUpType
    <3> QED
      BY <1>1, <1>2, <3>1, <3>2, IssueType
  <2>3. CASE AssignmentsListener(d)
    <3>1. /\ v.list \in Categories
          /\ Issue(d, Update(v.list, Keep, CategoryGrade(MarksOf(rows))), Tail(mainq[d]))
      BY <2>3 DEF AssignmentsListener
    <3> HIDE DEF v, rows
    <3>2. Update(v.list, Keep, CategoryGrade(MarksOf(rows))) \in AllWrites
      BY <1>2, <3>1, CategoryRollUpType
    <3> QED
      BY <1>1, <1>2, <3>1, <3>2, IssueType
  <2> QED
    BY <2>1, <2>2, <2>3 DEF Listener
<1> QED
  BY <1>3, <1>4, <1>5 DEF TypeOK

-----------------------------------------------------------------------------
(* The writes of the forms.  A new document, an edited one.                *)
LEMMA FormWrites ==
  /\ \A k \in Courses : Set(k, [course_grade |-> 0], Missing) \in AllWrites
  /\ \A k \in Categories, w \in Weights :
       /\ Set(k, [weight |-> w], 0) \in AllWrites
       /\ Update(k, [weight |-> w], Keep) \in AllWrites
  /\ \A k \in Assignments, m \in Marks :
       /\ Set(k, m, AssignmentGrade(m)) \in AllWrites
       /\ Update(k, m, AssignmentGrade(m)) \in AllWrites
  /\ \A k \in Docs : Delete(k) \in AllWrites
<1>1. ASSUME NEW k \in Courses
      PROVE  Set(k, [course_grade |-> 0], Missing) \in AllWrites
  <2> DEFINE x == [input |-> [course_grade |-> 0], grade |-> Missing]
  <2>1. x \in Doc(k)
    BY Levels DEF CourseDoc
  <2>2. Set(k, x.input, x.grade) \in Writes(k)
    <3> HIDE DEF x
    <3> QED
      BY <2>1 DEF Writes
  <2> QED
    BY <2>2 DEF AllWrites, Docs
<1>2. ASSUME NEW k \in Categories, NEW w \in Weights
      PROVE  /\ Set(k, [weight |-> w], 0) \in AllWrites
             /\ Update(k, [weight |-> w], Keep) \in AllWrites
  <2> DEFINE x == [input |-> [weight |-> w], grade |-> 0]
  <2>1. x \in Doc(k)
    BY Levels DEF CategoryDoc, CategoryGrades
  <2>2. Set(k, x.input, x.grade) \in Writes(k) /\ Update(k, x.input, Keep) \in Writes(k)
    <3> HIDE DEF x
    <3> QED
      BY <2>1, DocsAssumption DEF Writes
  <2> QED
    BY <2>2 DEF AllWrites, Docs
<1>3. ASSUME NEW k \in Assignments, NEW m \in Marks
      PROVE  /\ Set(k, m, AssignmentGrade(m)) \in AllWrites
             /\ Update(k, m, AssignmentGrade(m)) \in AllWrites
  <2> DEFINE x == [input |-> m, grade |-> AssignmentGrade(m)]
  <2>1. x \in Doc(k)
    BY Levels DEF AssignmentDoc
  <2>2. /\ Set(k, x.input, x.grade) \in Writes(k)
        /\ Update(k, x.input, x.grade) \in Writes(k)
    <3> HIDE DEF x
    <3> QED
      BY <2>1, DocsAssumption DEF Writes
  <2> QED
    BY <2>2 DEF AllWrites, Docs
<1>4. ASSUME NEW k \in Docs PROVE Delete(k) \in AllWrites
  BY DEF Writes, AllWrites
<1> QED
  BY <1>1, <1>2, <1>3, <1>4

(* A write a user's action issues keeps the types.                         *)
LEMMA UserWriteType ==
  ASSUME TypeOK, NEW d \in Devices, NEW w \in AllWrites,
         Issue(d, w, mainq[d]),
         UNCHANGED <<server, live, stack, table, restarts>>,
         form' \in [Devices -> Docs \cup {Closed}],
         used' \subseteq Docs, edits' \in 0 .. MaxEdits
  PROVE  TypeOK'
<1>1. mainq[d] \in Seq(Events(d))
  BY DEF TypeOK
<1>2. /\ queue' \in [Devices -> Seq(AllWrites)]
      /\ cache' \in [Devices -> Databases]
      /\ DOMAIN mainq' = Devices
      /\ \A e \in Devices : mainq'[e] \in Seq(Events(e)')
  BY <1>1, IssueType
<1> QED
  BY <1>2 DEF TypeOK

(* Operations are counted up to the bound.                                 *)
LEMMA OperationType ==
  ASSUME TypeOK, Operation
  PROVE  edits' \in 0 .. MaxEdits
BY BoundsAssumption DEF TypeOK, Operation

(* Each operation of a user: adding, opening a form, closing it, storing    *)
(* what it says, deleting a row.                                           *)
LEMMA AddDocumentType ==
  ASSUME TypeOK, NEW d \in Devices, NEW k \in Docs,
         NEW input, NEW grade, Set(k, input, grade) \in AllWrites,
         AddDocument(d, k, input, grade)
  PROVE  TypeOK'
<1>1. /\ Issue(d, Set(k, input, grade), mainq[d])
      /\ UNCHANGED <<server, live, stack, table, restarts>>
      /\ form' = form /\ used' = used \cup {k} /\ Operation
  BY DEF AddDocument
<1>2. edits' \in 0 .. MaxEdits
  BY <1>1, OperationType
<1>3. form' \in [Devices -> Docs \cup {Closed}] /\ used' \subseteq Docs
  BY <1>1 DEF TypeOK
<1> QED
  BY <1>1, <1>2, <1>3, UserWriteType

LEMMA OpenFormType ==
  ASSUME TypeOK, NEW d \in Devices, NEW k \in Docs,
         OpenForm(d, k)
  PROVE  TypeOK'
<1>1. edits' \in 0 .. MaxEdits
  BY OperationType DEF OpenForm
<1>2. form' \in [Devices -> Docs \cup {Closed}]
  BY DEF OpenForm, TypeOK
<1>3. \A e \in Devices : Events(e)' = Events(e)
  BY DEF Events, OpenForm
<1> QED
  BY <1>1, <1>2, <1>3 DEF OpenForm, TypeOK

LEMMA CloseFormType ==
  ASSUME TypeOK, NEW d \in Devices, CloseForm(d)
  PROVE  TypeOK'
<1>1. form' \in [Devices -> Docs \cup {Closed}]
  BY DEF CloseForm, TypeOK
<1>2. \A e \in Devices : Events(e)' = Events(e)
  BY DEF Events, CloseForm
<1> QED
  BY <1>1, <1>2 DEF CloseForm, TypeOK

LEMMA UpdateDataType ==
  ASSUME TypeOK, NEW d \in Devices, NEW k \in Docs,
         NEW input, NEW grade, Update(k, input, grade) \in AllWrites,
         UpdateData(d, k, input, grade)
  PROVE  TypeOK'
<1>1. /\ Issue(d, Update(k, input, grade), mainq[d])
      /\ UNCHANGED <<server, live, stack, table, restarts>>
      /\ form' = [form EXCEPT ![d] = Closed] /\ used' = used /\ edits' = edits
  BY DEF UpdateData
<1>2. /\ form' \in [Devices -> Docs \cup {Closed}]
      /\ used' \subseteq Docs /\ edits' \in 0 .. MaxEdits
  BY <1>1 DEF TypeOK
<1> QED
  BY <1>1, <1>2, UserWriteType

LEMMA DeleteRowType ==
  ASSUME TypeOK, NEW d \in Devices, NEW k \in Docs,
         DeleteRow(d, k)
  PROVE  TypeOK'
<1>1. /\ Issue(d, Delete(k), mainq[d])
      /\ UNCHANGED <<server, live, stack, table, restarts>>
      /\ form' = form /\ used' = used /\ Operation
  BY DEF DeleteRow
<1>2. edits' \in 0 .. MaxEdits
  BY <1>1, OperationType
<1>3. form' \in [Devices -> Docs \cup {Closed}] /\ used' \subseteq Docs
  BY <1>1 DEF TypeOK
<1> QED
  BY <1>1, <1>2, <1>3, FormWrites, UserWriteType

LEMMA EditType ==
  ASSUME TypeOK, NEW d \in Devices, Edit(d)
  PROVE  TypeOK'
<1>1. CASE CloseForm(d)
  BY <1>1, CloseFormType
<1>2. ASSUME NEW k \in Docs, NEW w \in Weights, EditCategory(d, k, w) PROVE TypeOK'
  BY <1>2, FormWrites, UpdateDataType DEF EditCategory
<1>3. ASSUME NEW k \in Docs, NEW m \in Marks, EditAssignment(d, k, m) PROVE TypeOK'
  BY <1>3, FormWrites, UpdateDataType DEF EditAssignment
<1>4. ASSUME NEW k \in Docs, AddCourse(d, k) PROVE TypeOK'
  BY <1>4, FormWrites, AddDocumentType DEF AddCourse
<1>5. ASSUME NEW k \in Docs, NEW w \in Weights, AddCategory(d, k, w)
      PROVE  TypeOK'
  BY <1>5, FormWrites, AddDocumentType DEF AddCategory
<1>6. ASSUME NEW k \in Docs, NEW m \in Marks, AddAssignment(d, k, m)
      PROVE  TypeOK'
  BY <1>6, FormWrites, AddDocumentType DEF AddAssignment
<1>7. ASSUME NEW k \in Docs,
             EditCategoryPressed(d, k) \/ EditAssignmentPressed(d, k)
      PROVE  TypeOK'
  BY <1>7, OpenFormType DEF EditCategoryPressed, EditAssignmentPressed
<1>8. ASSUME NEW k \in Docs,
             DeleteCourse(d, k) \/ DeleteCategory(d, k) \/ DeleteAssignment(d, k)
      PROVE  TypeOK'
  BY <1>8, DeleteRowType DEF DeleteCourse, DeleteCategory, DeleteAssignment
<1> QED
  BY <1>1, <1>2, <1>3, <1>4, <1>5, <1>6, <1>7, <1>8 DEF Edit

-----------------------------------------------------------------------------
(* A step of a device's client that changes nothing above it.              *)
LEMMA ClientTypeOK ==
  ASSUME TypeOK, NEW d \in Devices, NEW q \in Seq(AllWrites),
         NEW c \in Databases, NEW due, ClientStep(d, q, c, mainq[d], due),
         UNCHANGED <<live, stack, table, form, used, edits, restarts>>,
         server' \in Databases
  PROVE  TypeOK'
<1>1. mainq[d] \in Seq(Events(d))
  BY DEF TypeOK
<1>2. /\ queue' \in [Devices -> Seq(AllWrites)]
      /\ cache' \in [Devices -> Databases]
      /\ DOMAIN mainq' = Devices
      /\ \A e \in Devices : mainq'[e] \in Seq(Events(e)')
  BY <1>1, ClientStepType
<1> QED
  BY <1>2 DEF TypeOK

(* The oldest queued write is a write, and so are those behind it.         *)
LEMMA OldestWrite ==
  ASSUME TypeOK, NEW d \in Devices, queue[d] # <<>>
  PROVE  Head(queue[d]) \in AllWrites /\ Tail(queue[d]) \in Seq(AllWrites)
<1>1. queue[d] \in Seq(AllWrites)
  BY DEF TypeOK
<1> QED
  BY <1>1

LEMMA CommitType ==
  ASSUME TypeOK, NEW d \in Devices, Commit(d)
  PROVE  TypeOK'
<1> DEFINE w == Head(queue[d])
           sv == [server EXCEPT ![w.doc] = Apply(w, @)]
           c == [cache[d] EXCEPT ![w.doc] = Apply(w, @)]
<1>1. /\ queue[d] # <<>>
      /\ server' = sv
      /\ ClientStep(d, Tail(queue[d]), c, mainq[d], {})
      /\ UNCHANGED <<live, stack, table, form, used, edits, restarts>>
  BY DEF Commit
<1>2. /\ Tail(queue[d]) \in Seq(AllWrites)
      /\ w \in AllWrites /\ w.doc \in Docs /\ w \in Writes(w.doc)
  BY <1>1, OldestWrite, WriteOf
<1>3. server \in Databases /\ cache[d] \in Databases
  BY DEF TypeOK
<1>4. \A db \in Databases : [db EXCEPT ![w.doc] = Apply(w, @)] \in Databases
  <2> TAKE db \in Databases
  <2> HIDE DEF w
  <2>1. db[w.doc] \in Doc(w.doc) \cup {Missing}
    BY <1>2 DEF Databases
  <2>2. Apply(w, db[w.doc]) \in Doc(w.doc) \cup {Missing}
    BY <1>2, <2>1, ApplyType
  <2> QED
    BY <1>2, <2>2, DatabaseUpdate
<1>5. sv \in Databases /\ c \in Databases
  BY <1>3, <1>4
<1> HIDE DEF c, sv, w
<1> QED
  BY <1>1, <1>2, <1>5, ClientTypeOK

LEMMA RejectType ==
  ASSUME TypeOK, NEW d \in Devices, Reject(d)
  PROVE  TypeOK'
<1>1. /\ queue[d] # <<>>
      /\ ClientStep(d, Tail(queue[d]), cache[d], mainq[d], {})
      /\ UNCHANGED <<server, live, stack, table, form, used, edits, restarts>>
  BY DEF Reject
<1>2. cache[d] \in Databases /\ server' \in Databases
  BY <1>1 DEF TypeOK
<1> QED
  BY <1>1, <1>2, OldestWrite, ClientTypeOK

LEMMA SyncType ==
  ASSUME TypeOK, NEW d \in Devices, Sync(d)
  PROVE  TypeOK'
<1> DEFINE due == {v \in live : v.device = d /\ Awaiting(v)}
<1>1. /\ ClientStep(d, queue[d], Fresh(d), mainq[d], due)
      /\ UNCHANGED <<server, live, stack, table, form, used, edits, restarts>>
  BY DEF Sync
<1>2. server \in Databases /\ cache[d] \in Databases /\ queue[d] \in Seq(AllWrites)
  BY DEF TypeOK
<1>3. Fresh(d) \in Databases
  BY <1>2 DEF Fresh, Databases
<1>4. server' \in Databases
  BY <1>1, <1>2
<1> HIDE DEF due
<1> QED
  BY <1>1, <1>2, <1>3, <1>4, ClientTypeOK

(* The end of a process empties its main queue, so that no snapshot of a   *)
(* controller that is gone stays behind.                                   *)
LEMMA TerminateType ==
  ASSUME TypeOK, NEW d \in Devices, Terminate(d)
  PROVE  TypeOK'
<1>1. live' = {v \in live : v.device # d}
  BY DEF Terminate
<1>2. \A e \in Devices \ {d} : Events(e)' = Events(e)
  BY <1>1 DEF Events
<1>3. /\ DOMAIN mainq' = Devices
      /\ \A e \in Devices : mainq'[e] \in Seq(Events(e)')
  <2>1. mainq' = [mainq EXCEPT ![d] = <<>>]
    BY DEF Terminate
  <2>2. \A e \in Devices \ {d} : mainq'[e] \in Seq(Events(e)')
    BY <1>2, <2>1 DEF TypeOK
  <2>3. mainq'[d] \in Seq(Events(d)')
    BY <2>1 DEF TypeOK
  <2> QED
    BY <2>1, <2>2, <2>3 DEF TypeOK
<1>4. /\ DOMAIN table' = Views
      /\ \A v \in Views : table'[v] \in Snapshots(v.list) \cup {NotLoaded}
  BY DEF Terminate, TypeOK
<1>5. /\ restarts' \in [Devices -> Nat]
      /\ \A e \in Devices : restarts'[e] <= MaxRestarts[e]
  <2>1. /\ restarts' = [restarts EXCEPT ![d] = @ + 1]
        /\ restarts[d] < MaxRestarts[d]
    BY DEF Terminate
  <2>2. restarts[d] \in Nat /\ MaxRestarts[d] \in Nat
    BY BoundsAssumption DEF TypeOK
  <2> QED
    BY <2>1, <2>2 DEF TypeOK
<1>6. stack' \in [Devices -> Seq(Views)]
  BY DEF Terminate, TypeOK
<1>7. form' \in [Devices -> Docs \cup {Closed}]
  BY DEF Terminate, TypeOK
<1>8. /\ UNCHANGED <<server, cache, queue, used, edits>>
      /\ live' \subseteq Views
  BY <1>1 DEF Terminate, TypeOK
<1> QED
  BY <1>3, <1>4, <1>5, <1>6, <1>7, <1>8 DEF TypeOK

LEMMA NavigateType ==
  ASSUME TypeOK, NEW d \in Devices, Navigate(d)
  PROVE  TypeOK'
BY PushType, BackType DEF Navigate, Launch, ShowCategories, ShowAssignments

(* Every step keeps the types.                                             *)
LEMMA NextType == TypeOK /\ [Next]_vars => TypeOK'
<1> SUFFICES ASSUME TypeOK, [Next]_vars PROVE TypeOK'
  OBVIOUS
<1>1. ASSUME NEW d \in Devices, Navigate(d) PROVE TypeOK'
  BY <1>1, NavigateType
<1>2. ASSUME NEW d \in Devices, Edit(d) PROVE TypeOK'
  BY <1>2, EditType
<1>3. ASSUME NEW d \in Devices, Listener(d) PROVE TypeOK'
  BY <1>3, ListenerType
<1>4. ASSUME NEW d \in Devices, Commit(d) PROVE TypeOK'
  BY <1>4, CommitType
<1>5. ASSUME NEW d \in Devices, Reject(d) PROVE TypeOK'
  BY <1>5, RejectType
<1>6. ASSUME NEW d \in Devices, Sync(d) PROVE TypeOK'
  BY <1>6, SyncType
<1>7. ASSUME NEW d \in Devices, Terminate(d) PROVE TypeOK'
  BY <1>7, TerminateType
<1>8. CASE UNCHANGED vars
  <2>1. \A d \in Devices : Events(d)' = Events(d)
    BY <1>8 DEF Events, vars
  <2> QED
    BY <1>8, <2>1 DEF TypeOK, vars
<1> QED
  BY <1>1, <1>2, <1>3, <1>4, <1>5, <1>6, <1>7, <1>8 DEF Next

(* Every reachable state is well typed.  In particular every assignment,   *)
(* on the server, on a device or in a row, shows the assgrade of its own   *)
(* credit and totalcredit (addAssignment, editAssignment), every catgrade  *)
(* and cgrade is one the listeners' formulas yield, and each controller    *)
(* only ever shows documents of its own collection.                        *)
THEOREM TypeCorrect == Spec => []TypeOK
<1>1. Init => TypeOK
  BY InitType
<1>2. TypeOK /\ [Next]_vars => TypeOK'
  BY NextType
<1> QED
  BY <1>1, <1>2, PTL DEF Spec

-----------------------------------------------------------------------------
(***************************************************************************)
(* The entries of the users.  What follows needs of a step only what it    *)
(* does to the server, the queues and the ids that were handed out.        *)
(***************************************************************************)
Quiet == UNCHANGED <<server, queue, used>>

Issues(d, w) ==
  /\ queue' = [queue EXCEPT ![d] = Append(@, w)]
  /\ UNCHANGED server
  /\ \/ w.op = "set" /\ w.doc \notin used /\ used' = used \cup {w.doc}
     \/ w.op # "set" /\ UNCHANGED used

Takes(d) ==
  /\ queue[d] # <<>>
  /\ Applicable(Head(queue[d]), server[Head(queue[d]).doc])
  /\ server' = [server EXCEPT ![Head(queue[d]).doc] = Apply(Head(queue[d]), @)]
  /\ queue' = [queue EXCEPT ![d] = Tail(@)]
  /\ UNCHANGED used

Drops(d) ==
  /\ queue[d] # <<>>
  /\ Head(queue[d]).op # "set"
  /\ queue' = [queue EXCEPT ![d] = Tail(@)]
  /\ UNCHANGED <<server, used>>

(* Every step is one of these.                                             *)
LEMMA WriteSteps ==
  ASSUME TypeOK, [Next]_vars
  PROVE  \/ Quiet
         \/ \E d \in Devices : \/ \E w \in AllWrites : Issues(d, w)
                               \/ Takes(d) \/ Drops(d)
<1>1. \A d \in Devices : \A w, pending :
        Issue(d, w, pending) => queue' = [queue EXCEPT ![d] = Append(@, w)]
  BY DEF Issue, ClientStep
<1>2. ASSUME NEW d \in Devices, Navigate(d) PROVE Quiet
  BY <1>2 DEF Navigate, Launch, Push, Back, ShowCategories, ShowAssignments, Quiet
<1>3. ASSUME NEW d \in Devices, Listener(d) PROVE Quiet \/ \E w \in AllWrites : Issues(d, w)
  <2> DEFINE v == Head(mainq[d]).view
             rows == Head(mainq[d]).rows
  <2>1. CASE CoursesListener(d)
    BY <2>1 DEF CoursesListener, Quiet
  <2>2. CASE CategoriesListener(d)
    <3> DEFINE w == Update(v.list, Keep, CourseGrade(ShareOf(rows)))
    <3>1. /\ mainq[d] # <<>> /\ v.list \in Courses
          /\ Issue(d, w, Tail(mainq[d])) /\ UNCHANGED <<server, used>>
      BY <2>2 DEF CategoriesListener
    <3>2. w \in AllWrites
      BY <3>1, HandlerInput, CourseRollUpType
    <3>3. w.op # "set"
      BY DEF Update
    <3> HIDE DEF w
    <3> QED
      BY <1>1, <3>1, <3>2, <3>3 DEF Issues
  <2>3. CASE AssignmentsListener(d)
    <3> DEFINE w == Update(v.list, Keep, CategoryGrade(MarksOf(rows)))
    <3>1. /\ mainq[d] # <<>> /\ v.list \in Categories
          /\ Issue(d, w, Tail(mainq[d])) /\ UNCHANGED <<server, used>>
      BY <2>3 DEF AssignmentsListener
    <3>2. w \in AllWrites
      BY <3>1, HandlerInput, CategoryRollUpType
    <3>3. w.op # "set"
      BY DEF Update
    <3> HIDE DEF w
    <3> QED
      BY <1>1, <3>1, <3>2, <3>3 DEF Issues
  <2> QED
    BY <1>3, <2>1, <2>2, <2>3 DEF Listener
<1>4. ASSUME NEW d \in Devices, NEW k, NEW input, NEW grade,
             Set(k, input, grade) \in AllWrites, AddDocument(d, k, input, grade)
      PROVE  \E w \in AllWrites : Issues(d, w)
  <2> DEFINE w == Set(k, input, grade)
  <2>1. /\ Issue(d, w, mainq[d]) /\ k \notin used
        /\ used' = used \cup {k} /\ UNCHANGED server
    BY <1>4 DEF AddDocument
  <2>2. w.op = "set" /\ w.doc = k /\ w \in AllWrites
    BY <1>4 DEF Set
  <2> HIDE DEF w
  <2> QED
    BY <1>1, <2>1, <2>2 DEF Issues
<1>5. ASSUME NEW d \in Devices, NEW k, NEW input, NEW grade,
             Update(k, input, grade) \in AllWrites, UpdateData(d, k, input, grade)
      PROVE  \E w \in AllWrites : Issues(d, w)
  <2> DEFINE w == Update(k, input, grade)
  <2>1. Issue(d, w, mainq[d]) /\ UNCHANGED <<server, used>>
    BY <1>5 DEF UpdateData
  <2>2. w.op # "set" /\ w \in AllWrites
    BY <1>5 DEF Update
  <2> HIDE DEF w
  <2> QED
    BY <1>1, <2>1, <2>2 DEF Issues
<1>6. ASSUME NEW d \in Devices, NEW k \in Docs, DeleteRow(d, k)
      PROVE  \E w \in AllWrites : Issues(d, w)
  <2> DEFINE w == Delete(k)
  <2>1. Issue(d, w, mainq[d]) /\ UNCHANGED <<server, used>>
    BY <1>6 DEF DeleteRow
  <2>2. w.op # "set" /\ w \in AllWrites
    BY FormWrites DEF Delete
  <2> HIDE DEF w
  <2> QED
    BY <1>1, <2>1, <2>2 DEF Issues
<1>7. ASSUME NEW d \in Devices, Edit(d) PROVE Quiet \/ \E w \in AllWrites : Issues(d, w)
  <2>1. CASE CloseForm(d)
    BY <2>1 DEF CloseForm, Quiet
  <2>2. CASE \E k \in Docs : \/ \E w \in Weights : EditCategory(d, k, w)
                             \/ \E m \in Marks : EditAssignment(d, k, m)
    BY <1>5, <2>2, FormWrites DEF EditCategory, EditAssignment
  <2>3. CASE \E k \in Docs :
               \/ AddCourse(d, k)
               \/ \E w \in Weights : AddCategory(d, k, w)
               \/ \E m \in Marks : AddAssignment(d, k, m)
    BY <1>4, <2>3, FormWrites DEF AddCourse, AddCategory, AddAssignment
  <2>4. CASE \E k \in Docs :
               EditCategoryPressed(d, k) \/ EditAssignmentPressed(d, k)
    BY <2>4 DEF EditCategoryPressed, EditAssignmentPressed, OpenForm, Quiet
  <2>5. CASE \E k \in Docs :
               DeleteCourse(d, k) \/ DeleteCategory(d, k) \/ DeleteAssignment(d, k)
    BY <1>6, <2>5 DEF DeleteCourse, DeleteCategory, DeleteAssignment
  <2> QED
    BY <1>7, <2>1, <2>2, <2>3, <2>4, <2>5 DEF Edit
<1>8. ASSUME NEW d \in Devices, Commit(d) PROVE Takes(d)
  BY <1>8 DEF Commit, ClientStep, Takes, TypeOK
<1>9. ASSUME NEW d \in Devices, Reject(d) PROVE Drops(d)
  BY <1>9 DEF Reject, ClientStep, Applicable, Drops, TypeOK
<1>10. ASSUME NEW d \in Devices, Sync(d) PROVE Quiet
  BY <1>10 DEF Sync, ClientStep, Quiet, TypeOK
<1>11. ASSUME NEW d \in Devices, Terminate(d) PROVE Quiet
  BY <1>11 DEF Terminate, Quiet
<1> QED
  BY <1>2, <1>3, <1>7, <1>8, <1>9, <1>10, <1>11 DEF Next, vars, Quiet

(* The writes of a queue after one was put in or taken out.                *)
LEMMA QueueAfter ==
  ASSUME TypeOK, NEW d \in Devices
  PROVE  /\ \A w : LET q == Append(queue[d], w)
                   IN  /\ DOMAIN q = (DOMAIN queue[d]) \cup {Len(queue[d]) + 1}
                       /\ Len(queue[d]) + 1 \notin DOMAIN queue[d]
                       /\ \A i \in DOMAIN queue[d] : q[i] = queue[d][i]
                       /\ q[Len(queue[d]) + 1] = w
         /\ queue[d] # <<>> =>
              /\ 1 \in DOMAIN queue[d] /\ queue[d][1] = Head(queue[d])
              /\ \A i \in DOMAIN Tail(queue[d]) :
                   /\ i + 1 \in DOMAIN queue[d] \ {1}
                   /\ Tail(queue[d])[i] = queue[d][i + 1]
              /\ \A i \in DOMAIN queue[d] \ {1} :
                   /\ i - 1 \in DOMAIN Tail(queue[d])
                   /\ Tail(queue[d])[i - 1] = queue[d][i]
<1>1. queue[d] \in Seq(AllWrites)
  BY DEF TypeOK
<1> DEFINE q == queue[d]
<1> SUFFICES ASSUME q \in Seq(AllWrites) PROVE
       /\ \A w : /\ DOMAIN Append(q, w) = (DOMAIN q) \cup {Len(q) + 1}
                 /\ Len(q) + 1 \notin DOMAIN q
                 /\ \A i \in DOMAIN q : Append(q, w)[i] = q[i]
                 /\ Append(q, w)[Len(q) + 1] = w
       /\ q # <<>> =>
            /\ 1 \in DOMAIN q /\ q[1] = Head(q)
            /\ \A i \in DOMAIN Tail(q) : i + 1 \in DOMAIN q \ {1} /\ Tail(q)[i] = q[i + 1]
            /\ \A i \in DOMAIN q \ {1} :
                 i - 1 \in DOMAIN Tail(q) /\ Tail(q)[i - 1] = q[i]
  BY <1>1
<1> HIDE DEF q
<1>2. ASSUME NEW w
      PROVE  /\ DOMAIN Append(q, w) = (DOMAIN q) \cup {Len(q) + 1}
             /\ Len(q) + 1 \notin DOMAIN q
             /\ \A i \in DOMAIN q : Append(q, w)[i] = q[i]
             /\ Append(q, w)[Len(q) + 1] = w
  OBVIOUS
<1>3. ASSUME q # <<>>
      PROVE  /\ 1 \in DOMAIN q /\ q[1] = Head(q)
             /\ \A i \in DOMAIN Tail(q) : i + 1 \in DOMAIN q \ {1} /\ Tail(q)[i] = q[i + 1]
             /\ \A i \in DOMAIN q \ {1} :
                  i - 1 \in DOMAIN Tail(q) /\ Tail(q)[i - 1] = q[i]
  BY <1>3
<1> QED
  BY <1>2, <1>3

(* k is being added: the write that creates it is queued at place i of d.  *)
Adding(d, i, k) ==
  i \in DOMAIN queue[d] /\ queue[d][i].op = "set" /\ queue[d][i].doc = k

(* An id is put to use once: what exists was added, and what is still      *)
(* being added does not exist yet and is added by one write only.          *)
AddedOnce ==
  /\ \A k \in Docs : server[k] # Missing => k \in used
  /\ \A d \in Devices : \A k \in Docs : \A i : Adding(d, i, k) =>
       k \in used /\ server[k] = Missing
  /\ \A d, e \in Devices : \A k \in Docs : \A i, j :
       Adding(d, i, k) /\ Adding(e, j, k) => d = e /\ i = j

(* Who is being added after a write was queued, or taken off the queue.    *)
LEMMA AddingAfterIssue ==
  ASSUME TypeOK, NEW d \in Devices, NEW w \in AllWrites, Issues(d, w)
  PROVE  \A e \in Devices : \A k \in Docs : \A i :
           Adding(e, i, k)' <=>
             \/ Adding(e, i, k)
             \/ e = d /\ i = Len(queue[d]) + 1 /\ w.op = "set" /\ w.doc = k
<1>1. queue' = [queue EXCEPT ![d] = Append(queue[d], w)] /\ DOMAIN queue = Devices
  BY DEF Issues, TypeOK
<1> TAKE e \in Devices
<1>2. CASE e # d
  <2>1. queue'[e] = queue[e]
    BY <1>1, <1>2
  <2> QED
    BY <1>2, <2>1 DEF Adding
<1>3. CASE e = d
  <2>1. queue'[d] = Append(queue[d], w)
    BY <1>1
  <2> QED
    BY <1>3, <2>1, QueueAfter DEF Adding
<1> QED
  BY <1>2, <1>3

LEMMA AddingAfterTail ==
  ASSUME TypeOK, NEW d \in Devices, queue[d] # <<>>,
         queue' = [queue EXCEPT ![d] = Tail(@)]
  PROVE  \A e \in Devices : \A k \in Docs : \A i :
           Adding(e, i, k)' <=>
             IF e = d THEN i + 1 \in DOMAIN queue[d] \ {1} /\ Adding(d, i + 1, k) /\ i \in Int
                      ELSE Adding(e, i, k)
<1>1. queue' = [queue EXCEPT ![d] = Tail(queue[d])] /\ DOMAIN queue = Devices
  BY DEF TypeOK
<1> TAKE e \in Devices
<1>2. CASE e # d
  <2>1. queue'[e] = queue[e]
    BY <1>1, <1>2
  <2> QED
    BY <1>2, <2>1 DEF Adding
<1>3. CASE e = d
  <2>1. queue'[d] = Tail(queue[d])
    BY <1>1
  <2>2. DOMAIN Tail(queue[d]) \subseteq Int
    <3>1. queue[d] \in Seq(AllWrites)
      BY DEF TypeOK
    <3> QED
      BY <3>1
  <2> TAKE k \in Docs
  <2> TAKE i
  <2>3. ASSUME Adding(d, i, k)' PROVE i + 1 \in DOMAIN queue[d] \ {1} /\ Adding(d, i + 1, k) /\ i \in Int
    <3>1. /\ i \in DOMAIN Tail(queue[d])
          /\ Tail(queue[d])[i].op = "set" /\ Tail(queue[d])[i].doc = k
      BY <2>1, <2>3 DEF Adding
    <3>2. i + 1 \in DOMAIN queue[d] \ {1} /\ Tail(queue[d])[i] = queue[d][i + 1]
      BY <3>1, QueueAfter
    <3> QED
      BY <2>2, <3>1, <3>2 DEF Adding
  <2>4. ASSUME i + 1 \in DOMAIN queue[d] \ {1}, Adding(d, i + 1, k), i \in Int PROVE Adding(d, i, k)'
    <3>1. PICK j : j = i + 1 /\ j - 1 = i
      BY <2>4
    <3>2. j \in DOMAIN queue[d] \ {1} /\ queue[d][j].op = "set" /\ queue[d][j].doc = k
      BY <2>4, <3>1 DEF Adding
    <3>3. i \in DOMAIN Tail(queue[d]) /\ Tail(queue[d])[i] = queue[d][j]
      BY <3>1, <3>2, QueueAfter
    <3> QED
      BY <2>1, <3>2, <3>3 DEF Adding
  <2> QED
    BY <1>3, <2>3, <2>4
<1> QED
  BY <1>2, <1>3

(* Gone in terms of the writes under way.                                  *)
LEMMA GoneIsNotAdding ==
  ASSUME TypeOK
  PROVE  Gone = {k \in used : /\ server[k] = Missing
                              /\ \A d \in Devices : \A i : ~Adding(d, i, k)}
BY DEF Gone, Adding

(* Nothing but a "set" makes something of what is missing.                 *)
LEMMA TakenWrite ==
  ASSUME TypeOK, NEW d \in Devices, Takes(d)
  PROVE  LET w == Head(queue[d])
         IN  /\ w \in AllWrites /\ w.doc \in Docs /\ w \in Writes(w.doc)
             /\ w.op \in {"set", "update", "delete"}
             /\ w.op = "set" <=> Adding(d, 1, w.doc)
             /\ \A k \in Docs \ {w.doc} : server'[k] = server[k]
             /\ server'[w.doc] = Apply(w, server[w.doc])
             /\ w.op = "set" => server'[w.doc] # Missing
             /\ w.op = "update" => server[w.doc] # Missing /\ server'[w.doc] # Missing
             /\ w.op = "delete" => server'[w.doc] = Missing
             /\ server' \in Databases
<1> DEFINE w == Head(queue[d])
<1>1. queue[d] # <<>>
  BY DEF Takes
<1>2. w \in AllWrites /\ w.doc \in Docs /\ w \in Writes(w.doc)
  BY <1>1, OldestWrite, WriteOf
<1>3. w.op \in {"set", "update", "delete"}
  BY <1>2, WriteShape
<1>4. w.op = "set" <=> Adding(d, 1, w.doc)
  BY <1>1, QueueAfter DEF Adding
<1>5. server \in Databases /\ server[w.doc] \in Doc(w.doc) \cup {Missing}
  BY <1>2 DEF TypeOK, Databases
<1>6. Apply(w, server[w.doc]) \in Doc(w.doc) \cup {Missing}
  BY <1>2, <1>5, ApplyType
<1>7. server' = [server EXCEPT ![w.doc] = Apply(w, server[w.doc])]
  BY DEF Takes
<1>8. server' \in Databases
  BY <1>2, <1>5, <1>6, <1>7, DatabaseUpdate
<1>9. /\ \A k \in Docs \ {w.doc} : server'[k] = server[k]
      /\ server'[w.doc] = Apply(w, server[w.doc])
  BY <1>2, <1>5, <1>7 DEF Databases
<1>10. w.op = "update" => server[w.doc] # Missing
  BY DEF Takes, Applicable
<1>11. w.op = "set" => server'[w.doc] # Missing
  <2> SUFFICES ASSUME w.op = "set" PROVE Apply(w, server[w.doc]) # Missing
    BY <1>9
  <2>1. Apply(w, server[w.doc]) \in Doc(w.doc)
    BY <1>2, WriteShape DEF Apply
  <2> QED
    BY <1>2, <2>1, SentinelAssumption DEF Documents
<1>12. w.op = "update" => server'[w.doc] # Missing
  <2> SUFFICES ASSUME w.op = "update" PROVE Apply(w, server[w.doc]) # Missing
    BY <1>9
  <2>1. server[w.doc] \in Doc(w.doc)
    BY <1>5, <1>10
  <2>2. Apply(w, server[w.doc]) \in Doc(w.doc)
    BY <1>2, <2>1, UpdateType
  <2> QED
    BY <1>2, <2>2, SentinelAssumption DEF Documents
<1>13. w.op = "delete" => server'[w.doc] = Missing
  BY <1>9 DEF Apply
<1> QED
  BY <1>2, <1>3, <1>4, <1>8, <1>9, <1>10, <1>11, <1>12, <1>13

(* AddedOnce is inductive: only addDocument queues a "set", of a new id,   *)
(* and the server can take it only once.                                   *)
LEMMA AddedOnceInit == Init => AddedOnce
BY DEF Init, AddedOnce, Adding

LEMMA AddedOnceStep == TypeOK /\ AddedOnce /\ [Next]_vars => AddedOnce'
<1> SUFFICES ASSUME TypeOK, AddedOnce, [Next]_vars PROVE AddedOnce'
  OBVIOUS
<1>1. CASE Quiet
  <2>1. \A d, i, k : Adding(d, i, k)' <=> Adding(d, i, k)
    BY <1>1 DEF Quiet, Adding
  <2> QED
    BY <1>1, <2>1 DEF Quiet, AddedOnce
<1>2. ASSUME NEW d \in Devices, NEW w \in AllWrites, Issues(d, w) PROVE AddedOnce'
  <2>1. \A e \in Devices : \A k \in Docs : \A i :
          Adding(e, i, k)' <=>
            \/ Adding(e, i, k)
            \/ e = d /\ i = Len(queue[d]) + 1 /\ w.op = "set" /\ w.doc = k
    BY <1>2, AddingAfterIssue
  <2>2. server' = server /\ used \subseteq used' /\ (w.op = "set" => w.doc \in used')
    BY <1>2 DEF Issues
  <2>3. w.op = "set" => w.doc \notin used /\ \A e \in Devices : \A i : ~Adding(e, i, w.doc)
    BY <1>2, WriteOf DEF Issues, AddedOnce
  <2>4. w.op = "set" => server[w.doc] = Missing
    BY <2>3, WriteOf DEF AddedOnce
  <2>5. (\A k \in Docs : server[k] # Missing => k \in used)'
    BY <2>2 DEF AddedOnce
  <2>6. (\A e \in Devices : \A k \in Docs : \A i : Adding(e, i, k) =>
           k \in used /\ server[k] = Missing)'
    BY <2>1, <2>2, <2>4 DEF AddedOnce
  <2>7. (\A e, f \in Devices : \A k \in Docs : \A i, j :
           Adding(e, i, k) /\ Adding(f, j, k) => e = f /\ i = j)'
    BY <2>1, <2>3 DEF AddedOnce
  <2> QED
    BY <2>5, <2>6, <2>7 DEF AddedOnce
<1>3. ASSUME NEW d \in Devices, queue[d] # <<>>, used' = used,
             queue' = [queue EXCEPT ![d] = Tail(@)],
             \A k \in Docs : \/ server'[k] = server[k]
                             \/ server'[k] # Missing /\ Adding(d, 1, k)
                             \/ k \in used /\ \A e \in Devices : \A i : ~Adding(e, i, k)
      PROVE  AddedOnce'
  <2>1. \A e \in Devices : \A k \in Docs : \A i :
          Adding(e, i, k)' =>
            IF e = d THEN i \in Int /\ i + 1 # 1 /\ Adding(d, i + 1, k) ELSE Adding(e, i, k)
    BY <1>3, AddingAfterTail
  <2>2. \A e \in Devices : \A k \in Docs : \A i :
          Adding(e, i, k)' => ~Adding(d, 1, k) /\ \E j : Adding(e, j, k)
    BY <2>1 DEF AddedOnce
  <2>3. (\A k \in Docs : server[k] # Missing => k \in used)'
    BY <1>3 DEF AddedOnce
  <2>4. (\A e \in Devices : \A k \in Docs : \A i : Adding(e, i, k) =>
           k \in used /\ server[k] = Missing)'
    BY <1>3, <2>2 DEF AddedOnce
  <2>5. (\A e, f \in Devices : \A k \in Docs : \A i, j :
           Adding(e, i, k) /\ Adding(f, j, k) => e = f /\ i = j)'
    <3> SUFFICES ASSUME NEW e \in Devices, NEW f \in Devices, NEW k \in Docs,
                        NEW i, NEW j, Adding(e, i, k)', Adding(f, j, k)'
                 PROVE  e = f /\ i = j
      OBVIOUS
    <3>1. e = f
      BY <2>2 DEF AddedOnce
    <3>2. CASE e = d
      <4>1. i \in Int /\ j \in Int /\ Adding(d, i + 1, k) /\ Adding(d, j + 1, k)
        BY <2>1, <3>1, <3>2
      <4>2. i + 1 = j + 1
        BY <4>1 DEF AddedOnce
      <4> QED
        BY <3>1, <4>1, <4>2
    <3>3. CASE e # d
      BY <2>1, <3>1, <3>3 DEF AddedOnce
    <3> QED
      BY <3>2, <3>3
  <2> QED
    BY <2>3, <2>4, <2>5 DEF AddedOnce
<1>4. ASSUME NEW d \in Devices, Takes(d) PROVE AddedOnce'
  <2> DEFINE w == Head(queue[d])
  <2>1. \A k \in Docs : \/ server'[k] = server[k]
                        \/ server'[k] # Missing /\ Adding(d, 1, k)
                        \/ k \in used /\ \A e \in Devices : \A i : ~Adding(e, i, k)
    <3> TAKE k \in Docs
    <3>1. CASE k # w.doc
      BY <1>4, <3>1, TakenWrite
    <3>2. CASE k = w.doc /\ w.op = "set"
      BY <1>4, <3>2, TakenWrite
    <3>3. CASE k = w.doc /\ server[k] # Missing
      BY <3>3 DEF AddedOnce
    <3>4. CASE k = w.doc /\ server[k] = Missing /\ w.op # "set"
      BY <1>4, <3>4, TakenWrite
    <3> QED
      BY <3>1, <3>2, <3>3, <3>4
  <2> QED
    BY <1>3, <1>4, <2>1 DEF Takes
<1>5. ASSUME NEW d \in Devices, Drops(d) PROVE AddedOnce'
  BY <1>3, <1>5 DEF Drops
<1> QED
  BY <1>1, <1>2, <1>4, <1>5, WriteSteps

(* What is gone stays so: it is not added again, and an update of it is    *)
(* refused.                                                                *)
LEMMA GoneStep == TypeOK /\ [Next]_vars => Gone \subseteq Gone'
<1> SUFFICES ASSUME TypeOK, [Next]_vars, NEW k \in Gone PROVE k \in Gone'
  OBVIOUS
<1>1. TypeOK'
  BY NextType
<1>2. k \in used /\ server[k] = Missing /\ \A e \in Devices : \A i : ~Adding(e, i, k)
  BY GoneIsNotAdding
<1>3. k \in Docs
  BY <1>2 DEF TypeOK
<1>4. used \subseteq used' /\ server'[k] = Missing /\ \A e \in Devices : \A i : ~Adding(e, i, k)'
  <2>1. CASE Quiet
    BY <1>2, <2>1 DEF Quiet, Adding
  <2>2. ASSUME NEW d \in Devices, NEW w \in AllWrites, Issues(d, w)
        PROVE  used \subseteq used' /\ server'[k] = Missing
               /\ \A e \in Devices : \A i : ~Adding(e, i, k)'
    <3>1. w.op = "set" => w.doc # k
      BY <1>2, <2>2 DEF Issues
    <3> QED
      BY <1>2, <1>3, <2>2, <3>1, AddingAfterIssue DEF Issues
  <2>3. ASSUME NEW d \in Devices, Takes(d)
        PROVE  used \subseteq used' /\ server'[k] = Missing
               /\ \A e \in Devices : \A i : ~Adding(e, i, k)'
    <3>1. server'[k] = Missing
      BY <1>2, <1>3, <2>3, TakenWrite
    <3> QED
      BY <1>2, <1>3, <2>3, <3>1, AddingAfterTail DEF Takes
  <2>4. ASSUME NEW d \in Devices, Drops(d)
        PROVE  used \subseteq used' /\ server'[k] = Missing
               /\ \A e \in Devices : \A i : ~Adding(e, i, k)'
    BY <1>2, <1>3, <2>4, AddingAfterTail DEF Drops
  <2> QED
    BY <2>1, <2>2, <2>3, <2>4, WriteSteps
<1> QED
  BY <1>2, <1>4 DEF Gone, Adding

(* A deleted document stays deleted (deleteAssignment, deleteCategory, the *)
(* course row), whatever edit form was open on it on another device and    *)
(* whatever roll-up a listener that was left behind still issues.          *)
THEOREM DeletedStaysDeleted == Spec => NoResurrection
<1>1. TypeOK /\ [Next]_vars => Gone \subseteq Gone'
  BY GoneStep
<1>2. TypeOK /\ [Next]_vars => [Gone \subseteq Gone']_vars
  BY <1>1
<1> QED
  BY <1>2, TypeCorrect, PTL DEF Spec, NoResurrection

-----------------------------------------------------------------------------
(***************************************************************************)
(* The app implements Gradebook.                                           *)
(***************************************************************************)
BookOf(db) == [k \in Docs |-> IF db[k] = Missing THEN Missing ELSE db[k].input]

(* At first the book says what the seed says.                              *)
LEMMA BookInit == Init => Book!Init
<1> SUFFICES ASSUME Init PROVE Book!Init
  OBVIOUS
<1>1. server \in Databases
  BY SeedAssumption DEF Init
<1>2. \A k \in Docs : BookOf(server)[k] \in EntryOf(k) \cup {Missing}
  BY <1>1 DEF BookOf, EntryOf, Databases
<1>3. Gone \subseteq {k \in Docs : server[k] = Missing}
  BY DEF Gone, Init
<1> QED
  BY <1>2, <1>3 DEF Book!Init, Book!TypeOK, BookOf

(* Taking a write off a queue that adds nothing leaves unchanged who is    *)
(* being added.                                                            *)
LEMMA AddingMoves ==
  ASSUME TypeOK, NEW d \in Devices, queue[d] # <<>>,
         queue' = [queue EXCEPT ![d] = Tail(@)],
         NEW k \in Docs, ~Adding(d, 1, k)
  PROVE  (\E e \in Devices : \E i : Adding(e, i, k))
           <=> (\E e \in Devices : \E i : Adding(e, i, k)')
<1>1. \A e \in Devices : \A i :
        Adding(e, i, k)' <=>
          IF e = d THEN i + 1 \in DOMAIN queue[d] \ {1} /\ Adding(d, i + 1, k) /\ i \in Int
                   ELSE Adding(e, i, k)
  BY AddingAfterTail
<1>2. ASSUME NEW e \in Devices, NEW i, Adding(e, i, k)
      PROVE  \E f \in Devices : \E j : Adding(f, j, k)'
  <2>1. CASE e = d
    <3>1. i \in DOMAIN queue[d] \ {1} /\ i \in Int
      <4>1. queue[d] \in Seq(AllWrites) /\ i \in DOMAIN queue[d]
        BY <1>2, <2>1 DEF TypeOK, Adding
      <4> QED
        BY <1>2, <2>1, <4>1
    <3>2. PICK j \in Int : j + 1 = i
      <4>1. i - 1 \in Int /\ (i - 1) + 1 = i
        BY <3>1
      <4> QED
        BY <4>1
    <3>3. Adding(d, j, k)'
      BY <1>1, <1>2, <2>1, <3>1, <3>2
    <3> QED
      BY <3>3
  <2>2. CASE e # d
    BY <1>1, <1>2, <2>2
  <2> QED
    BY <2>1, <2>2
<1> QED
  BY <1>1, <1>2

(* Every step puts one entry in, changes one, takes one out, or leaves the *)
(* book alone.                                                             *)
LEMMA BookStep ==
  TypeOK /\ AddedOnce /\ [Next]_vars => [Book!Next]_<<BookOf(server), Gone>>
<1> SUFFICES ASSUME TypeOK, AddedOnce, [Next]_vars
             PROVE  Book!Next \/ (BookOf(server)' = BookOf(server) /\ Gone' = Gone)
  OBVIOUS
<1>0. /\ TypeOK'
      /\ Gone = {k \in used : /\ server[k] = Missing
                              /\ \A e \in Devices : \A i : ~Adding(e, i, k)}
      /\ Gone' = {k \in used' : /\ server'[k] = Missing
                                /\ \A e \in Devices : \A i : ~Adding(e, i, k)'}
  BY NextType DEF Gone, Adding
<1>00. used \subseteq Docs /\ used' \subseteq Docs
  BY <1>0 DEF TypeOK
<1>1. CASE Quiet
  BY <1>1 DEF Quiet, Gone
<1>2. ASSUME NEW d \in Devices, NEW w \in AllWrites, Issues(d, w)
      PROVE  server' = server /\ Gone' = Gone
  <2>1. \A e \in Devices : \A k \in Docs : \A i :
          Adding(e, i, k)' <=>
            \/ Adding(e, i, k)
            \/ e = d /\ i = Len(queue[d]) + 1 /\ w.op = "set" /\ w.doc = k
    BY <1>2, AddingAfterIssue
  <2>2. CASE w.op # "set"
    BY <1>0, <1>00, <1>2, <2>1, <2>2 DEF Issues
  <2>3. CASE w.op = "set"
    <3>1. used' = used \cup {w.doc} /\ w.doc \notin used /\ server' = server
      BY <1>2, <2>3 DEF Issues
    <3>2. \E i : Adding(d, i, w.doc)'
      BY <2>1, <2>3, WriteOf
    <3>3. \A k \in used : \A e \in Devices : \A i : Adding(e, i, k)' <=> Adding(e, i, k)
      BY <1>00, <2>1, <3>1
    <3> QED
      BY <1>0, <3>1, <3>2, <3>3
  <2> QED
    BY <1>2, <2>2, <2>3 DEF Issues
<1>3. ASSUME NEW d \in Devices, Drops(d)
      PROVE  server' = server /\ Gone' = Gone
  <2>1. ~\E k \in Docs : Adding(d, 1, k)
    BY <1>3, QueueAfter DEF Drops, Adding
  <2>2. \A k \in Docs : (\E e \in Devices : \E i : Adding(e, i, k))
                         <=> (\E e \in Devices : \E i : Adding(e, i, k)')
    BY <1>3, <2>1, AddingMoves DEF Drops
  <2> QED
    BY <1>0, <1>00, <1>3, <2>2 DEF Drops
<1>4. ASSUME NEW d \in Devices, Takes(d)
      PROVE  Book!Next \/ (BookOf(server)' = BookOf(server) /\ Gone' = Gone)
  <2> DEFINE w == Head(queue[d])
  <2>1. PICK k \in Docs : k = w.doc
    BY <1>4, TakenWrite
  <2>2. \A j \in Docs : j # k \/ w.op # "set" =>
          ((\E e \in Devices : \E i : Adding(e, i, j))
             <=> (\E e \in Devices : \E i : Adding(e, i, j)'))
    <3>1. \A j \in Docs : j # k \/ w.op # "set" => ~Adding(d, 1, j)
      BY <1>4, <2>1, QueueAfter DEF Takes, Adding
    <3> QED
      BY <1>4, <3>1, AddingMoves DEF Takes
  <2>3. \A j \in Docs \ {k} : server'[j] = server[j]
    BY <1>4, <2>1, TakenWrite
  <2>4. \A j \in Docs \ {k} : j \in Gone' <=> j \in Gone
    BY <1>0, <1>4, <2>2, <2>3 DEF Takes
  <2>5. DOMAIN server = Docs /\ DOMAIN server' = Docs /\ server' \in Databases
    BY <1>0 DEF TypeOK, Databases
  <2>6. server'[k] # Missing =>
          /\ server'[k].input \in EntryOf(k)
          /\ BookOf(server)' = [BookOf(server) EXCEPT ![k] = server'[k].input]
    BY <2>1, <2>3, <2>5 DEF BookOf, EntryOf, Databases
  <2>7. CASE w.op = "set"
    <3>1. Adding(d, 1, k)
      BY <1>4, <2>1, <2>7, TakenWrite
    <3>2. server[k] = Missing /\ k \notin Gone
      BY <1>0, <2>1, <3>1 DEF AddedOnce
    <3>3. server'[k] # Missing /\ k \notin Gone'
      BY <1>0, <1>4, <2>1, <2>7, TakenWrite
    <3>4. Gone' = Gone
      BY <1>0, <1>00, <2>4, <3>2, <3>3
    <3>5. Book!PutIn(k)
      <4>1. BookOf(server)[k] = Missing
        BY <2>1, <3>2 DEF BookOf
      <4> HIDE DEF w
      <4> QED
        BY <2>1, <2>6, <3>2, <3>3, <3>4, <4>1 DEF Book!PutIn, BookOf
    <3> QED
      BY <3>5 DEF Book!Next
  <2>8. CASE w.op = "update"
    <3>1. server[k] # Missing /\ server'[k] # Missing
      BY <1>4, <2>1, <2>8, TakenWrite
    <3>2. Gone' = Gone
      BY <1>0, <1>00, <2>4, <3>1
    <3>3. Book!Change(k)
      <4>1. BookOf(server)[k] # Missing
        <5>1. server[k].input \in EntryOf(k)
          BY <2>1, <3>1 DEF TypeOK, Databases, EntryOf
        <5> QED
          BY <2>1, <3>1, <5>1, SentinelAssumption DEF BookOf, Documents, EntryOf
      <4> HIDE DEF w
      <4> QED
        BY <2>1, <2>6, <3>1, <3>2, <4>1 DEF Book!Change, BookOf
    <3> QED
      BY <3>3 DEF Book!Next
  <2>9. CASE w.op = "delete" /\ server[k] # Missing
    <3>1. server'[k] = Missing
      BY <1>4, <2>1, <2>9, TakenWrite
    <3>2. k \in used /\ \A e \in Devices : \A i : ~Adding(e, i, k)
      BY <2>1, <2>9 DEF AddedOnce
    <3>3. \A e \in Devices : \A i : ~Adding(e, i, k)'
      BY <2>1, <2>2, <2>9, <3>2
    <3>4. k \in Gone'
      BY <1>0, <1>4, <3>1, <3>2, <3>3 DEF Takes
    <3>5. Gone' = Gone \cup {k}
      BY <1>0, <1>00, <2>4, <3>4
    <3>6. Book!TakeOut(k)
      <4>1. BookOf(server)[k] # Missing
        <5>1. server[k].input \in EntryOf(k)
          BY <2>1, <2>9 DEF TypeOK, Databases, EntryOf
        <5> QED
          BY <2>1, <2>9, <5>1, SentinelAssumption DEF BookOf, Documents, EntryOf
      <4>2. BookOf(server)' = [BookOf(server) EXCEPT ![k] = Missing]
        BY <2>1, <2>3, <2>5, <3>1 DEF BookOf
      <4> HIDE DEF w
      <4> QED
        BY <2>1, <3>5, <4>1, <4>2 DEF Book!TakeOut, BookOf
    <3> QED
      BY <3>6 DEF Book!Next
  <2>10. CASE w.op = "delete" /\ server[k] = Missing
    <3>1. server'[k] = Missing
      BY <1>4, <2>1, <2>10, TakenWrite
    <3>2. server' = server
      <4>1. \A j \in Docs : server'[j] = server[j]
        BY <2>3, <2>10, <3>1
      <4>2. server \in Databases /\ server' \in Databases
        BY <2>5 DEF TypeOK
      <4> QED
        BY <4>1, <4>2 DEF Databases
    <3>3. Gone' = Gone
      BY <1>0, <1>00, <1>4, <2>2, <2>10, <3>2 DEF Takes
    <3> QED
      BY <3>2, <3>3 DEF BookOf
  <2> QED
    BY <1>4, <2>7, <2>8, <2>9, <2>10, TakenWrite
<1> QED
  BY <1>1, <1>2, <1>3, <1>4, WriteSteps DEF Quiet, BookOf

(* The users' entries on the server, seen on their own, behave like a      *)
(* Gradebook: only addDocument, the edit forms and the swipe to delete     *)
(* touch them, one entry at a time, and nothing a listener writes does.    *)
THEOREM ImplementsGradebook == Spec => BookKept
<1>1. Init => TypeOK /\ AddedOnce
  BY InitType, AddedOnceInit
<1>2. TypeOK /\ AddedOnce /\ [Next]_vars => TypeOK' /\ AddedOnce'
  BY NextType, AddedOnceStep
<1>3. Init => Book!Init
  BY BookInit
<1>4. TypeOK /\ AddedOnce /\ [Next]_vars => [Book!Next]_<<BookOf(server), Gone>>
  BY BookStep
<1> QED
  BY <1>1, <1>2, <1>3, <1>4, PTL DEF Spec, BookKept, Book!Spec, BookOf
-----------------------------------------------------------------------------
(***************************************************************************)
(* Screens and stored grades of the app agree with the data once there is  *)
(* nothing left to do, for any courses, categories, assignments, devices   *)
(* and bounds.                                                             *)
(*                                                                         *)
(* The argument for the screens: the last snapshot sent to a controller,   *)
(* or else the rows it has, are those its device has now (UpToDate).  For  *)
(* the grades: as long as the stored grade of a document is not the        *)
(* roll-up of what is below it, some device still has a roll-up to issue   *)
(* or to send - and the last roll-up it sends was computed from the rows   *)
(* that it has then (LastRollUp), so that the grade has an author that is  *)
(* up to date, or becomes it (GradeHasAuthor).  That whoever writes below  *)
(* a document listens to it, unless it was restarted (Responsible), rests  *)
(* on what is known to it (Known) and on documents being added above       *)
(* before they are added below (AboveFirst).  A device that is alone with  *)
(* the account need not wait for the server: its copies are current        *)
(* (CopiesAreCurrent), and so GInv says the same of what it shows.         *)
(***************************************************************************)
(* d has a controller that listens to the collection below list.           *)
LiveOn(d, list) == \E v \in live : v.device = d /\ v.list = list

(* The rows d has for list: its copies with its queued writes over them.   *)
Rows(d, list) == Snapshot(queue[d], cache[d], list)

(* The snapshots in s: none for v, and those of which the last for v has   *)
(* the rows r.                                                             *)
NoneFor(s, v) == \A i \in DOMAIN s : s[i].view # v

LastFor(s, v, r) ==
  \E i \in DOMAIN s : /\ s[i].view = v /\ s[i].rows = r
                      /\ \A j \in DOMAIN s : j > i => s[j].view # v

(* Controllers come and go with their stacks and arrays.                   *)
Controllers ==
  /\ \A v \in Views \ live : table[v] = NotLoaded
  /\ \A d \in Devices : \A i \in DOMAIN stack[d] :
       stack[d][i] \in live /\ stack[d][i].device = d
  /\ \A v \in live : v.list # Root => LiveOn(v.device, Parent[v.list])

(* The last rows a controller was sent, or has, are those of its device.   *)
UpToDate ==
  \A v \in live :
    /\ \A r : LastFor(mainq[v.device], v, r) => r = Rows(v.device, v.list)
    /\ NoneFor(mainq[v.device], v) =>
         table[v] \in {NotLoaded, Rows(v.device, v.list)}

(* d may know of k: k was handed out, and not by another device that still *)
(* has it in its queue.                                                    *)
Knows(d, k) == k \in used /\ \A e \in Devices : \A i : Adding(e, i, k) => e = d

(* What a device has copies, snapshots, arrays or controllers of is known  *)
(* to it.                                                                  *)
Known ==
  /\ \A d \in Devices : \A k \in Docs : cache[d][k] # Missing => Knows(d, k)
  /\ \A d \in Devices : \A i \in DOMAIN mainq[d] :
       \A k \in DOMAIN mainq[d][i].rows : Knows(d, k)
  /\ \A v \in live : table[v] # NotLoaded =>
       \A k \in DOMAIN table[v] : Knows(v.device, k)
  /\ \A v \in live : v.list # Root => Knows(v.device, v.list)

(* A document is created before those below it.                            *)
AboveFirst ==
  \A k \in Docs : Parent[k] # Root =>
    /\ server[k] # Missing =>
         Parent[k] \in used /\ \A e \in Devices : \A i : ~Adding(e, i, Parent[k])
    /\ \A d \in Devices : \A j : Adding(d, j, k) =>
         /\ Parent[k] \in used
         /\ \A e \in Devices : \A i : Adding(e, i, Parent[k]) => e = d /\ i < j

(* A new category has the grade 0, a new course none.                      *)
FirstGrades ==
  \A d \in Devices : \A i \in DOMAIN queue[d] : queue[d][i].op = "set" =>
    /\ queue[d][i].doc \in Categories => queue[d][i].grade = 0
    /\ queue[d][i].doc \in Courses => queue[d][i].grade = Missing

(* d listens to p, or may have, before a restart.                          *)
Answers(d, p) == LiveOn(d, p) \/ restarts[d] > 0

(* Whoever wrote to a collection, or a roll-up above one, looks at it, or  *)
(* was restarted.                                                          *)
Owns(d, w) ==
  /\ Parent[w.doc] # Root /\ (w.op = "update" => w.input # Keep)
       => Answers(d, Parent[w.doc])
  /\ w.op = "update" /\ w.grade # Keep /\ w.doc \notin Assignments
       => Answers(d, w.doc)

Responsible ==
  \A d \in Devices : /\ form[d] # Closed => LiveOn(d, Parent[form[d]])
                     /\ \A i \in DOMAIN queue[d] : Owns(d, queue[d][i])

(* The controllers of d on p have all they were sent.                      *)
Shown(d, p) ==
  \A v \in live : v.device = d /\ v.list = p =>
    table[v] # NotLoaded /\ NoneFor(mainq[d], v)

(* Once they have, the last roll-up d has in its queue is that of its rows.*)
LastGrading(q, p) == q[LastOf(Grading(q, p))]

RollsUpTo(w, p, rows) ==
  w.op = "delete" \/ (w.op = "update" /\ w.grade = RollUp(p, rows))

LastRollUp ==
  \A d \in Devices : \A p \in Courses \cup Categories :
    LiveOn(d, p) /\ Shown(d, p) /\ Grading(queue[d], p) # {} =>
      RollsUpTo(LastGrading(queue[d], p), p, Rows(d, p))

(* d will write the grade of p again.                                      *)
Behind(d, p) == Grading(queue[d], p) # {} \/ ~Shown(d, p)

(* Some device that looks at p will write its grade again, or wrote the    *)
(* one on the server.                                                      *)
GradeHasAuthor ==
  \A p \in Courses \cup Categories :
    server[p] # Missing /\ Attended(p) =>
      IF \E d \in Devices : LiveOn(d, p)
      THEN \E d \in Devices :
             /\ LiveOn(d, p)
             /\ Behind(d, p) \/ server[p].grade = RollUp(p, Rows(d, p))
      ELSE RolledUp(server, p)

(* The inductive invariant: no part is inductive without the others.       *)
GInv ==
  /\ TypeOK /\ AddedOnce
  /\ Controllers /\ UpToDate /\ Known /\ AboveFirst /\ FirstGrades
  /\ Responsible /\ LastRollUp /\ GradeHasAuthor
-----------------------------------------------------------------------------
(* What a queue of snapshots has for v, after others were added to it ...   *)
LEMMA ForAfterConcat ==
  ASSUME NEW S, NEW T, NEW s \in Seq(S), NEW t \in Seq(T), NEW v
  PROVE  /\ NoneFor(s \o t, v) <=> NoneFor(s, v) /\ NoneFor(t, v)
         /\ \A r : LastFor(s \o t, v, r) <=>
              LastFor(t, v, r) \/ (NoneFor(t, v) /\ LastFor(s, v, r))
<1> DEFINE m == Len(s)
           n == Len(t)
           u == s \o t
<1>1. /\ m \in Nat /\ n \in Nat /\ DOMAIN s = 1 .. m /\ DOMAIN t = 1 .. n
      /\ DOMAIN u = 1 .. (m + n)
      /\ \A i \in 1 .. m : u[i] = s[i]
      /\ \A i \in 1 .. n : i + m \in 1 .. (m + n) /\ u[i + m] = t[i]
  OBVIOUS
<1> HIDE DEF m, n, u
<1>2. \A i \in 1 .. (m + n) : i \in 1 .. m \/ (i - m \in 1 .. n /\ i = (i - m) + m)
  BY <1>1
<1>3. NoneFor(u, v) <=> NoneFor(s, v) /\ NoneFor(t, v)
  <2>1. ASSUME NoneFor(u, v) PROVE NoneFor(s, v) /\ NoneFor(t, v)
    <3>1. \A i \in 1 .. m : s[i].view # v
      BY <1>1, <2>1 DEF NoneFor
    <3>2. \A i \in 1 .. n : t[i].view # v
      BY <1>1, <2>1 DEF NoneFor
    <3> QED
      BY <1>1, <3>1, <3>2 DEF NoneFor
  <2>2. ASSUME NoneFor(s, v), NoneFor(t, v) PROVE NoneFor(u, v)
    <3> SUFFICES ASSUME NEW i \in 1 .. (m + n) PROVE u[i].view # v
      BY <1>1 DEF NoneFor
    <3>1. CASE i \in 1 .. m
      BY <1>1, <2>2, <3>1 DEF NoneFor
    <3>2. CASE i - m \in 1 .. n /\ i = (i - m) + m
      BY <1>1, <2>2, <3>2 DEF NoneFor
    <3> QED
      BY <1>2, <3>1, <3>2
  <2> QED
    BY <2>1, <2>2
<1>4. ASSUME NEW r, LastFor(u, v, r)
      PROVE  LastFor(t, v, r) \/ (NoneFor(t, v) /\ LastFor(s, v, r))
  <2>1. PICK i \in 1 .. (m + n) : /\ u[i].view = v /\ u[i].rows = r
                                /\ \A j \in 1 .. (m + n) : j > i => u[j].view # v
    BY <1>1, <1>4 DEF LastFor
  <2>2. CASE i \in 1 .. m
    <3>1. \A j \in 1 .. n : t[j].view # v
      <4> TAKE j \in 1 .. n
      <4>1. j + m \in 1 .. (m + n) /\ j + m > i
        BY <1>1, <2>2
      <4> QED
        BY <1>1, <2>1, <4>1
    <3>2. LastFor(s, v, r)
      <4>1. \A j \in 1 .. m : j > i => s[j].view # v
        BY <1>1, <2>1
      <4> QED
        BY <1>1, <2>1, <2>2, <4>1 DEF LastFor
    <3> QED
      BY <1>1, <3>1, <3>2 DEF NoneFor
  <2>3. CASE i - m \in 1 .. n /\ i = (i - m) + m
    <3>1. t[i - m].view = v /\ t[i - m].rows = r
      BY <1>1, <2>1, <2>3
    <3>2. \A j \in 1 .. n : j > i - m => t[j].view # v
      <4> SUFFICES ASSUME NEW j \in 1 .. n, j > i - m PROVE t[j].view # v
        OBVIOUS
      <4>1. j + m \in 1 .. (m + n) /\ j + m > i
        BY <1>1
      <4> QED
        BY <1>1, <2>1, <4>1
    <3> QED
      BY <1>1, <2>3, <3>1, <3>2 DEF LastFor
  <2> QED
    BY <1>2, <2>2, <2>3
<1>5. ASSUME NEW r, LastFor(t, v, r) PROVE LastFor(u, v, r)
  <2>1. PICK i \in 1 .. n : /\ t[i].view = v /\ t[i].rows = r
                           /\ \A j \in 1 .. n : j > i => t[j].view # v
    BY <1>1, <1>5 DEF LastFor
  <2>2. i + m \in 1 .. (m + n) /\ u[i + m].view = v /\ u[i + m].rows = r
    BY <1>1, <2>1
  <2>3. \A j \in 1 .. (m + n) : j > i + m => u[j].view # v
    <3> SUFFICES ASSUME NEW j \in 1 .. (m + n), j > i + m PROVE u[j].view # v
      OBVIOUS
    <3>1. j - m \in 1 .. n /\ j - m > i /\ j = (j - m) + m
      BY <1>1
    <3> QED
      BY <1>1, <2>1, <3>1
  <2> QED
    BY <1>1, <2>2, <2>3 DEF LastFor
<1>6. ASSUME NEW r, NoneFor(t, v), LastFor(s, v, r) PROVE LastFor(u, v, r)
  <2>1. PICK i \in 1 .. m : /\ s[i].view = v /\ s[i].rows = r
                           /\ \A j \in 1 .. m : j > i => s[j].view # v
    BY <1>1, <1>6 DEF LastFor
  <2>2. i \in 1 .. (m + n) /\ u[i].view = v /\ u[i].rows = r
    BY <1>1, <2>1
  <2>3. \A j \in 1 .. (m + n) : j > i => u[j].view # v
    <3> SUFFICES ASSUME NEW j \in 1 .. (m + n), j > i PROVE u[j].view # v
      OBVIOUS
    <3>1. CASE j \in 1 .. m
      BY <1>1, <2>1, <3>1
    <3>2. CASE j - m \in 1 .. n /\ j = (j - m) + m
      BY <1>1, <1>6, <3>2 DEF NoneFor
    <3> QED
      BY <1>2, <3>1, <3>2
  <2> QED
    BY <1>1, <2>2, <2>3 DEF LastFor
<1> QED
  BY <1>3, <1>4, <1>5, <1>6 DEF u

(* ... and after the first of it was taken.                                *)
LEMMA ForAfterTail ==
  ASSUME NEW S, NEW s \in Seq(S), s # <<>>, NEW v
  PROVE  /\ NoneFor(s, v) <=> NoneFor(Tail(s), v) /\ Head(s).view # v
         /\ \A r : LastFor(Tail(s), v, r) => LastFor(s, v, r)
         /\ NoneFor(Tail(s), v) /\ Head(s).view = v => LastFor(s, v, Head(s).rows)
<1>1. PICK h, t : h = Head(s) /\ t = Tail(s)
  OBVIOUS
<1>2. <<h>> \in Seq(S) /\ t \in Seq(S) /\ s = <<h>> \o t
  BY <1>1
<1>3. /\ DOMAIN <<h>> = {1} /\ <<h>>[1] = h
  OBVIOUS
<1>4. NoneFor(<<h>>, v) <=> h.view # v
  BY <1>3 DEF NoneFor
<1>5. h.view = v => LastFor(<<h>>, v, h.rows)
  BY <1>3 DEF LastFor
<1>6. /\ NoneFor(<<h>> \o t, v) <=> NoneFor(<<h>>, v) /\ NoneFor(t, v)
      /\ \A r : LastFor(<<h>> \o t, v, r) <=>
           LastFor(t, v, r) \/ (NoneFor(t, v) /\ LastFor(<<h>>, v, r))
  <2> HIDE <1>1
  <2> QED
    BY <1>2, ForAfterConcat
<1>7. /\ NoneFor(s, v) <=> NoneFor(t, v) /\ h.view # v
      /\ \A r : LastFor(t, v, r) => LastFor(s, v, r)
      /\ NoneFor(t, v) /\ h.view = v => LastFor(s, v, h.rows)
  BY <1>2, <1>4, <1>5, <1>6
<1> QED
  BY <1>1, <1>7

-----------------------------------------------------------------------------
(* Every controller has a place in any order of a set of them.             *)
LEMMA OrderIsOnto ==
  ASSUME NEW S \in SUBSET Views, NEW order \in SetToSeqs(S), NEW v \in S
  PROVE  \E i \in DOMAIN order : order[i] = v
<1>1. IsFiniteSet(S) /\ Cardinality(S) \in Nat
  BY FinitenessAssumption, FS_Subset, FS_CardinalityType
<1> DEFINE D == 1 .. Cardinality(S)
<1>2. order \in Injection(D, S) /\ DOMAIN order = D
  BY DEF SetToSeqs, Injection, IsInjective
<1>3. IsFiniteSet(D) /\ Cardinality(D) = Cardinality(S)
  BY <1>1, FS_Interval
<1>4. order \in Surjection(D, S)
  <2> HIDE DEF D
  <2> QED
    BY <1>1, <1>2, <1>3, FS_Injection
<1> QED
  BY <1>2, <1>4 DEF Surjection

(* If nothing changes in a collection, its rows are what they were.        *)
LEMMA RowsSame ==
  ASSUME NEW d, NEW q, NEW c, NEW list, ~RowsChange(d, q, c, list)
  PROVE  Snapshot(q, c, list) = Rows(d, list)
<1>1. \A k \in Children[list] : Overlay(q, c[k], k) = Overlay(queue[d], cache[d][k], k)
  BY DEF RowsChange
<1>2. [k \in Children[list] |-> Overlay(q, c[k], k)]
        = [k \in Children[list] |-> Overlay(queue[d], cache[d][k], k)]
  BY <1>1, Zenon
<1> QED
  BY <1>2, Zenon DEF Rows, Snapshot

(* What a step of the client library does to the snapshots under way: it   *)
(* raises the new rows of every collection in which something changed.     *)
Raises(d, q, c, pending, due) ==
  /\ queue' = [queue EXCEPT ![d] = q]
  /\ cache' = [cache EXCEPT ![d] = c]
  /\ \A e \in Devices \ {d} : mainq'[e] = mainq[e]
  /\ \A v \in live : v.device = d =>
       \/ /\ ~NoneFor(mainq'[d], v)
          /\ \A r : LastFor(mainq'[d], v, r) => r = Snapshot(q, c, v.list)
       \/ /\ v \notin due
          /\ Snapshot(q, c, v.list) = Rows(d, v.list)
          /\ NoneFor(mainq'[d], v) <=> NoneFor(pending, v)
          /\ \A r : LastFor(mainq'[d], v, r) <=> LastFor(pending, v, r)
  /\ \A i \in DOMAIN mainq'[d] :
       \/ \E j \in DOMAIN pending : mainq'[d][i] = pending[j]
       \/ mainq'[d][i].rows = Snapshot(q, c, mainq'[d][i].view.list)

LEMMA ClientStepRaises ==
  ASSUME TypeOK, NEW d \in Devices, NEW q \in Seq(AllWrites), NEW c \in Databases,
         NEW pending \in Seq(Events(d)), NEW due,
         ClientStep(d, q, c, pending, due)
  PROVE  Raises(d, q, c, pending, due)
<1> DEFINE raised == {v \in live :
              /\ v.device = d
              /\ RowsChange(d, q, c, v.list) \/ v \in due}
<1>1. /\ queue' = [queue EXCEPT ![d] = q]
      /\ cache' = [cache EXCEPT ![d] = c]
  BY DEF ClientStep
<1>2. PICK order \in SetToSeqs(raised) :
        mainq' = [mainq EXCEPT ![d] = pending \o
                    [i \in DOMAIN order |->
                       Event(order[i], Snapshot(q, c, order[i].list))]]
  BY DEF ClientStep
<1>3. raised \in SUBSET Views
  BY DEF TypeOK
<1>4. /\ order \in Seq(raised) /\ Len(order) \in Nat /\ DOMAIN order = 1 .. Len(order)
      /\ \A v \in raised : \E i \in DOMAIN order : order[i] = v
  <2> HIDE DEF raised
  <2> QED
    BY <1>3, OrderType, OrderIsOnto
<1> DEFINE new == [i \in DOMAIN order |->
                     Event(order[i], Snapshot(q, c, order[i].list))]
<1>5. /\ DOMAIN new = 1 .. Len(order)
      /\ \A i \in 1 .. Len(order) :
           /\ order[i] \in raised
           /\ new[i].view = order[i]
           /\ new[i].rows = Snapshot(q, c, order[i].list)
  <2> HIDE DEF raised
  <2> QED
    BY <1>4 DEF Event
<1>6. new \in Seq(Events(d))
  <2>1. \A v \in raised : Event(v, Snapshot(q, c, v.list)) \in Events(d)
    <3> TAKE v \in raised
    <3>1. v \in live /\ v.device = d /\ v.list \in Lists
      BY DEF TypeOK, Views
    <3>2. Snapshot(q, c, v.list) \in Snapshots(v.list)
      BY <3>1, SnapshotType
    <3> QED
      BY <3>1, <3>2 DEF Events, Event
  <2>2. \A i \in 1 .. Len(order) : new[i] \in Events(d)
    <3> HIDE DEF raised
    <3> TAKE i \in 1 .. Len(order)
    <3>1. new[i] = Event(order[i], Snapshot(q, c, order[i].list))
      BY <1>4
    <3>2. order[i] \in raised
      BY <1>5
    <3> QED
      BY <2>1, <3>1, <3>2
  <2> HIDE DEF raised
  <2> QED
    BY <1>4, <2>2
<1>7. mainq' = [mainq EXCEPT ![d] = pending \o new] /\ DOMAIN mainq = Devices
  BY <1>2 DEF TypeOK
<1> HIDE DEF new
<1>8. mainq'[d] = pending \o new /\ \A e \in Devices \ {d} : mainq'[e] = mainq[e]
  BY <1>7
<1>9. ASSUME NEW v \in live, v.device = d
      PROVE  \/ /\ ~NoneFor(mainq'[d], v)
                /\ \A r : LastFor(mainq'[d], v, r) => r = Snapshot(q, c, v.list)
             \/ /\ v \notin due
                /\ Snapshot(q, c, v.list) = Rows(d, v.list)
                /\ NoneFor(mainq'[d], v) <=> NoneFor(pending, v)
                /\ \A r : LastFor(mainq'[d], v, r) <=> LastFor(pending, v, r)
  <2>1. /\ NoneFor(mainq'[d], v) <=> NoneFor(pending, v) /\ NoneFor(new, v)
        /\ \A r : LastFor(mainq'[d], v, r) <=>
             LastFor(new, v, r) \/ (NoneFor(new, v) /\ LastFor(pending, v, r))
    BY <1>6, <1>8, ForAfterConcat
  <2>2. CASE v \in raised
    <3> HIDE DEF raised
    <3>1. ~NoneFor(new, v)
      BY <1>4, <1>5, <2>2 DEF NoneFor
    <3>2. \A r : LastFor(new, v, r) => r = Snapshot(q, c, v.list)
      BY <1>5 DEF LastFor
    <3> QED
      BY <2>1, <3>1, <3>2
  <2>3. CASE v \notin raised
    <3>1. v \notin due /\ Snapshot(q, c, v.list) = Rows(d, v.list)
      BY <1>9, <2>3, RowsSame
    <3> HIDE DEF raised
    <3>2. NoneFor(new, v)
      BY <1>5, <2>3 DEF NoneFor
    <3>3. \A r : ~LastFor(new, v, r)
      BY <3>2 DEF NoneFor, LastFor
    <3> QED
      BY <2>1, <3>1, <3>2, <3>3
  <2> QED
    BY <2>2, <2>3
<1>10. \A i \in DOMAIN mainq'[d] :
         \/ \E j \in DOMAIN pending : mainq'[d][i] = pending[j]
         \/ mainq'[d][i].rows = Snapshot(q, c, mainq'[d][i].view.list)
  <2> TAKE i \in DOMAIN mainq'[d]
  <2>1. (i \in DOMAIN pending /\ mainq'[d][i] = pending[i])
        \/ \E j \in DOMAIN new : mainq'[d][i] = new[j]
    <3>1. i \in DOMAIN pending \/ i - Len(pending) \in DOMAIN new
      BY <1>6, <1>8
    <3> QED
      BY <1>6, <1>8, <3>1
  <2> QED
    BY <1>5, <2>1
<1> QED
  BY <1>1, <1>8, <1>9, <1>10 DEF Raises

-----------------------------------------------------------------------------
(***************************************************************************)
(* The steps, by what they do to the queues, the controllers and their     *)
(* snapshots.                                                              *)
(***************************************************************************)
(* A user looks elsewhere or does nothing.                                 *)
Looks ==
  /\ UNCHANGED <<server, cache, queue, live, mainq, table, used, restarts>>
  /\ \A d \in Devices : \A i \in DOMAIN stack'[d] :
       i \in DOMAIN stack[d] /\ stack'[d][i] = stack[d][i]
  /\ \A d \in Devices :
       form'[d] \in {Closed, form[d]} \/ LiveOn(d, Parent[form'[d]])

(* A controller is created, for what is a row of another one or for Root.  *)
Opens(d, v) ==
  /\ v \in Views \ live /\ v.device = d
  /\ v.list # Root =>
       \E u \in live : /\ u.device = d /\ u.list = Parent[v.list]
                       /\ table[u] # NotLoaded /\ v.list \in DOMAIN table[u]
  /\ live' = live \cup {v}
  /\ stack' = [stack EXCEPT ![d] = Append(@, v)]
  /\ \/ mainq' = [mainq EXCEPT ![d] = Append(@, Event(v, Rows(d, v.list)))]
     \/ UNCHANGED mainq
  /\ UNCHANGED <<server, cache, queue, table, form, used, restarts>>

(* A roll-up is issued.                                                    *)
RollsUp(d) ==
  /\ mainq[d] # <<>>
  /\ LET v == Head(mainq[d]).view
         rows == Head(mainq[d]).rows
         w == Update(v.list, Keep, RollUp(v.list, rows))
     IN  /\ v.list \in Courses \cup Categories
         /\ w \in AllWrites
         /\ table' = [table EXCEPT ![v] = rows]
         /\ Raises(d, Append(queue[d], w), cache[d], Tail(mainq[d]), {})
  /\ UNCHANGED <<server, live, stack, form, used, restarts>>

(* A user writes to a collection d has a controller on.                    *)
UserWrites(d, w) ==
  /\ LiveOn(d, Parent[w.doc])
  /\ IF w.op = "set"
     THEN /\ w.doc \notin used /\ used' = used \cup {w.doc}
          /\ w.doc \in Categories => w.grade = 0
          /\ w.doc \in Courses => w.grade = Missing
     ELSE /\ used' = used
          /\ w.op = "update" => w.grade = Keep \/ w.doc \in Assignments
  /\ Raises(d, Append(queue[d], w), cache[d], mainq[d], {})
  /\ \A e \in Devices : form'[e] \in {Closed, form[e]}
  /\ UNCHANGED <<server, live, stack, table, restarts>>

(* The oldest write of d is taken or dropped.                              *)
Answered(d) ==
  /\ \/ /\ Takes(d)
        /\ Raises(d, Tail(queue[d]),
                  [cache[d] EXCEPT ![Head(queue[d]).doc] = Apply(Head(queue[d]), @)],
                  mainq[d], {})
     \/ /\ Drops(d)
        /\ server[Head(queue[d]).doc] = Missing
        /\ Raises(d, Tail(queue[d]), cache[d], mainq[d], {})
  /\ UNCHANGED <<live, stack, table, form, restarts>>

Syncs(d) ==
  /\ \E due : Raises(d, queue[d], Fresh(d), mainq[d], due)
  /\ UNCHANGED <<server, live, stack, table, form, used, restarts>>

(* What is on top of a stack is a controller of that device.               *)
LEMMA TopIsLive ==
  ASSUME TypeOK, Controllers, NEW d \in Devices, Running(d)
  PROVE  Top(d) \in live /\ Top(d).device = d
<1>1. stack[d] \in Seq(Views) /\ stack[d] # <<>>
  BY DEF TypeOK, Running
<1>2. Len(stack[d]) \in DOMAIN stack[d] /\ Top(d) = stack[d][Len(stack[d])]
  BY <1>1 DEF Top, Last
<1> QED
  BY <1>2 DEF Controllers

(* A row is a document of the collection its controller listens to.        *)
LEMMA RowIsBelow ==
  ASSUME TypeOK, Controllers, NEW d \in Devices, NEW k, HasRow(d, k)
  PROVE  /\ k \in Docs /\ Top(d).list = Parent[k]
         /\ Top(d) \in live /\ Top(d).device = d
         /\ table[Top(d)] # NotLoaded /\ k \in DOMAIN table[Top(d)]
<1>1. /\ Top(d) \in live /\ Top(d).device = d
      /\ table[Top(d)] # NotLoaded /\ k \in DOMAIN table[Top(d)]
  BY TopIsLive DEF HasRow, Visible
<1>2. Top(d).list \in Lists /\ table[Top(d)] \in Snapshots(Top(d).list)
  BY <1>1 DEF TypeOK, Views
<1>3. k \in Children[Top(d).list]
  <2>1. PICK S \in SUBSET Children[Top(d).list] :
               table[Top(d)] \in [S -> DocIn(Top(d).list)]
    BY <1>2 DEF Snapshots, Tables
  <2> QED
    BY <1>1, <2>1
<1> QED
  BY <1>1, <1>2, <1>3, Levels

(* A roll-up writes a grade.                                               *)
LEMMA RollUpIsNotKeep ==
  ASSUME NEW p \in Courses \cup Categories, NEW rows \in Snapshots(p)
  PROVE  RollUp(p, rows) # Keep /\ Update(p, Keep, RollUp(p, rows)) \in AllWrites
<1>1. CASE p \in Categories
  <2>1. RollUp(p, rows) = CategoryGrade(MarksOf(rows))
    BY <1>1, DocsAssumption DEF RollUp
  <2>2. /\ Update(p, Keep, CategoryGrade(MarksOf(rows))) \in AllWrites
        /\ CategoryGrade(MarksOf(rows)) # Keep
    BY <1>1, CategoryRollUpType
  <2> QED
    BY <2>1, <2>2
<1>2. CASE p \in Courses
  <2>1. RollUp(p, rows) = CourseGrade(ShareOf(rows))
    BY <1>2 DEF RollUp
  <2>2. /\ Update(p, Keep, CourseGrade(ShareOf(rows))) \in AllWrites
        /\ CourseGrade(ShareOf(rows)) # Keep
    BY <1>2, CourseRollUpType
  <2> QED
    BY <2>1, <2>2
<1> QED
  BY <1>1, <1>2

-----------------------------------------------------------------------------
(* What a user writes is queued and raises snapshots.                      *)
LEMMA IssueRaises ==
  ASSUME TypeOK, NEW d \in Devices, NEW w \in AllWrites,
         NEW pending \in Seq(Events(d)), Issue(d, w, pending)
  PROVE  Raises(d, Append(queue[d], w), cache[d], pending, {})
<1>1. Append(queue[d], w) \in Seq(AllWrites) /\ cache[d] \in Databases
  BY DEF TypeOK
<1>2. ClientStep(d, Append(queue[d], w), cache[d], pending, {})
  BY DEF Issue
<1> QED
  BY <1>1, <1>2, ClientStepRaises

LEMMA NavigateKinds ==
  ASSUME TypeOK, Controllers, NEW d \in Devices, Navigate(d)
  PROVE  Looks \/ \E v \in Views : Opens(d, v)
<1>1. ASSUME NEW v, Push(d, v),
             v.list # Root =>
               \E u \in live : /\ u.device = d /\ u.list = Parent[v.list]
                               /\ table[u] # NotLoaded /\ v.list \in DOMAIN table[u]
      PROVE  \E u \in Views : Opens(d, u)
  BY <1>1 DEF Push, Opens, Rows
<1>2. CASE Launch(d)
  BY <1>1, <1>2 DEF Launch
<1>3. CASE \E k \in Docs : ShowCategories(d, k) \/ ShowAssignments(d, k)
  <2>1. PICK k \in Docs, n \in 1 .. MaxOpen :
          HasRow(d, k) /\ Push(d, [device |-> d, list |-> k, nr |-> n])
    BY <1>3 DEF ShowCategories, ShowAssignments
  <2> DEFINE v == [device |-> d, list |-> k, nr |-> n]
  <2>2. v.list = k
    OBVIOUS
  <2> HIDE DEF v
  <2>3. \E u \in live : /\ u.device = d /\ u.list = Parent[v.list]
                        /\ table[u] # NotLoaded /\ v.list \in DOMAIN table[u]
    BY <2>1, <2>2, RowIsBelow
  <2>4. Push(d, v)
    BY <2>1 DEF v
  <2> QED
    BY <1>1, <2>3, <2>4
<1>4. CASE Back(d)
  <2>1. /\ stack' = [stack EXCEPT ![d] = SubSeq(@, 1, Len(@) - 1)]
        /\ stack[d] \in Seq(Views) /\ stack[d] # <<>>
        /\ DOMAIN stack = Devices
    BY <1>4 DEF Back, Visible, Running, TypeOK
  <2>2. \A i \in DOMAIN SubSeq(stack[d], 1, Len(stack[d]) - 1) :
          /\ i \in DOMAIN stack[d]
          /\ SubSeq(stack[d], 1, Len(stack[d]) - 1)[i] = stack[d][i]
    BY <2>1
  <2>3. \A e \in Devices : \A i \in DOMAIN stack'[e] :
          i \in DOMAIN stack[e] /\ stack'[e][i] = stack[e][i]
    BY <2>1, <2>2
  <2> QED
    BY <1>4, <2>3 DEF Back, Looks
<1> QED
  BY <1>2, <1>3, <1>4 DEF Navigate

LEMMA EditKinds ==
  ASSUME TypeOK, Controllers, Responsible, NEW d \in Devices, Edit(d)
  PROVE  Looks \/ \E w \in AllWrites : UserWrites(d, w)
<1>0. mainq[d] \in Seq(Events(d))
  BY DEF TypeOK
<1>1. ASSUME NEW k \in Docs, NEW input, NEW grade,
             Set(k, input, grade) \in AllWrites,
             k \in Categories => grade = 0, k \in Courses => grade = Missing,
             AddDocument(d, k, input, grade)
      PROVE  \E w \in AllWrites : UserWrites(d, w)
  <2> DEFINE w == Set(k, input, grade)
  <2>1. w.op = "set" /\ w.doc = k /\ w.grade = grade /\ w \in AllWrites
    BY <1>1 DEF Set
  <2>2. /\ Issue(d, w, mainq[d]) /\ Visible(d) /\ Parent[k] = Top(d).list
        /\ k \notin used /\ used' = used \cup {k}
        /\ UNCHANGED <<server, live, stack, table, form, restarts>>
    BY <1>1 DEF AddDocument
  <2> HIDE DEF w
  <2>3. LiveOn(d, Parent[k])
    BY <2>2, TopIsLive DEF Visible, LiveOn
  <2>4. Raises(d, Append(queue[d], w), cache[d], mainq[d], {})
    BY <1>0, <2>1, <2>2, IssueRaises
  <2>5. UserWrites(d, w)
    BY <1>1, <2>1, <2>2, <2>3, <2>4 DEF UserWrites
  <2> QED
    BY <2>1, <2>5
<1>2. ASSUME NEW k \in Docs, NEW input, NEW grade,
             Update(k, input, grade) \in AllWrites,
             grade = Keep \/ k \in Assignments,
             UpdateData(d, k, input, grade)
      PROVE  \E w \in AllWrites : UserWrites(d, w)
  <2> DEFINE w == Update(k, input, grade)
  <2>1. w.op = "update" /\ w.doc = k /\ w.grade = grade /\ w \in AllWrites
    BY <1>2 DEF Update
  <2>2. /\ Issue(d, w, mainq[d]) /\ form[d] = k
        /\ form' = [form EXCEPT ![d] = Closed]
        /\ UNCHANGED <<server, live, stack, table, used, restarts>>
    BY <1>2 DEF UpdateData
  <2> HIDE DEF w
  <2>3. LiveOn(d, Parent[k])
    BY <2>2, DocsAssumption DEF Responsible
  <2>4. Raises(d, Append(queue[d], w), cache[d], mainq[d], {})
    BY <1>0, <2>1, <2>2, IssueRaises
  <2>5. UserWrites(d, w)
    BY <1>2, <2>1, <2>2, <2>3, <2>4 DEF UserWrites, TypeOK
  <2> QED
    BY <2>1, <2>5
<1>3. ASSUME NEW k \in Docs, DeleteRow(d, k)
      PROVE  \E w \in AllWrites : UserWrites(d, w)
  <2> DEFINE w == Delete(k)
  <2>1. w.op = "delete" /\ w.doc = k /\ w \in AllWrites
    BY FormWrites DEF Delete
  <2>2. /\ Issue(d, w, mainq[d]) /\ HasRow(d, k)
        /\ UNCHANGED <<server, live, stack, table, form, used, restarts>>
    BY <1>3 DEF DeleteRow
  <2> HIDE DEF w
  <2>3. LiveOn(d, Parent[k])
    BY <2>2, RowIsBelow DEF LiveOn
  <2>4. Raises(d, Append(queue[d], w), cache[d], mainq[d], {})
    BY <1>0, <2>1, <2>2, IssueRaises
  <2>5. UserWrites(d, w)
    BY <2>1, <2>2, <2>3, <2>4 DEF UserWrites
  <2> QED
    BY <2>1, <2>5
<1>4. ASSUME NEW k \in Docs, OpenForm(d, k) PROVE Looks
  <2>1. LiveOn(d, Parent[k])
    BY <1>4, RowIsBelow DEF OpenForm, LiveOn
  <2>2. \A e \in Devices : form'[e] \in {Closed, form[e]} \/ LiveOn(e, Parent[form'[e]])
    BY <1>4, <2>1 DEF OpenForm, TypeOK
  <2> QED
    BY <1>4, <2>2 DEF OpenForm, Looks
<1>5. CASE CloseForm(d)
  BY <1>5 DEF CloseForm, Looks, TypeOK
<1>6. CASE \E k \in Docs : EditCategoryPressed(d, k) \/ EditAssignmentPressed(d, k)
  BY <1>4, <1>6 DEF EditCategoryPressed, EditAssignmentPressed
<1>7. CASE \E k \in Docs : AddCourse(d, k)
  BY <1>1, <1>7, FormWrites, DocsAssumption DEF AddCourse
<1>8. CASE \E k \in Docs : \E w \in Weights : AddCategory(d, k, w)
  BY <1>1, <1>8, FormWrites, DocsAssumption DEF AddCategory
<1>9. CASE \E k \in Docs : \E m \in Marks : AddAssignment(d, k, m)
  BY <1>1, <1>9, FormWrites, DocsAssumption DEF AddAssignment
<1>10. CASE \E k \in Docs : \/ \E w \in Weights : EditCategory(d, k, w)
                            \/ \E m \in Marks : EditAssignment(d, k, m)
  BY <1>2, <1>10, FormWrites DEF EditCategory, EditAssignment
<1>11. CASE \E k \in Docs :
              DeleteCourse(d, k) \/ DeleteCategory(d, k) \/ DeleteAssignment(d, k)
  BY <1>3, <1>11 DEF DeleteCourse, DeleteCategory, DeleteAssignment
<1> QED
  BY <1>5, <1>6, <1>7, <1>8, <1>9, <1>10, <1>11 DEF Edit


LEMMA ListenerKinds ==
  ASSUME TypeOK, NEW d \in Devices, Listener(d)
  PROVE  CoursesListener(d) \/ RollsUp(d)
<1> DEFINE v == Head(mainq[d]).view
           rows == Head(mainq[d]).rows
           w == Update(v.list, Keep, RollUp(v.list, rows))
<1>1. CASE CategoriesListener(d)
  <2>1. /\ mainq[d] # <<>> /\ v.list \in Courses
        /\ table' = [table EXCEPT ![v] = rows]
        /\ Issue(d, Update(v.list, Keep, CourseGrade(ShareOf(rows))), Tail(mainq[d]))
        /\ UNCHANGED <<server, live, stack, form, used, restarts>>
    BY <1>1 DEF CategoriesListener
  <2>2. w = Update(v.list, Keep, CourseGrade(ShareOf(rows)))
    BY <2>1 DEF RollUp
  <2>3. rows \in Snapshots(v.list) /\ Tail(mainq[d]) \in Seq(Events(d))
    BY <2>1, HandlerInput
  <2>4. w \in AllWrites
    BY <2>1, <2>3, RollUpIsNotKeep
  <2>5. Raises(d, Append(queue[d], w), cache[d], Tail(mainq[d]), {})
    <3> HIDE DEF w, v, rows
    <3> QED
      BY <2>1, <2>2, <2>3, <2>4, IssueRaises
  <2> QED
    BY <2>1, <2>4, <2>5 DEF RollsUp
<1>2. CASE AssignmentsListener(d)
  <2>1. /\ mainq[d] # <<>> /\ v.list \in Categories
        /\ table' = [table EXCEPT ![v] = rows]
        /\ Issue(d, Update(v.list, Keep, CategoryGrade(MarksOf(rows))), Tail(mainq[d]))
        /\ UNCHANGED <<server, live, stack, form, used, restarts>>
    BY <1>2 DEF AssignmentsListener
  <2>2. w = Update(v.list, Keep, CategoryGrade(MarksOf(rows)))
    BY <2>1, DocsAssumption DEF RollUp
  <2>3. rows \in Snapshots(v.list) /\ Tail(mainq[d]) \in Seq(Events(d))
    BY <2>1, HandlerInput
  <2>4. w \in AllWrites
    BY <2>1, <2>3, RollUpIsNotKeep
  <2>5. Raises(d, Append(queue[d], w), cache[d], Tail(mainq[d]), {})
    <3> HIDE DEF w, v, rows
    <3> QED
      BY <2>1, <2>2, <2>3, <2>4, IssueRaises
  <2> QED
    BY <2>1, <2>4, <2>5 DEF RollsUp
<1> QED
  BY <1>1, <1>2 DEF Listener

LEMMA ServerKinds ==
  ASSUME TypeOK, NEW d \in Devices, Commit(d) \/ Reject(d)
  PROVE  Answered(d)
<1> DEFINE w == Head(queue[d])
<1>1. queue[d] # <<>> /\ mainq[d] \in Seq(Events(d)) /\ cache[d] \in Databases
  BY DEF Commit, Reject, TypeOK
<1>2. /\ w \in AllWrites /\ w.doc \in Docs /\ w \in Writes(w.doc)
      /\ Tail(queue[d]) \in Seq(AllWrites)
  BY <1>1, OldestWrite, WriteOf
<1>3. CASE Commit(d)
  <2> DEFINE c == [cache[d] EXCEPT ![w.doc] = Apply(w, @)]
  <2>1. ClientStep(d, Tail(queue[d]), c, mainq[d], {})
    BY <1>3 DEF Commit
  <2>2. c = [cache[d] EXCEPT ![w.doc] = Apply(w, cache[d][w.doc])]
    OBVIOUS
  <2>3. cache[d][w.doc] \in Doc(w.doc) \cup {Missing}
    BY <1>1, <1>2 DEF Databases
  <2>4. c \in Databases
    BY <1>1, <1>2, <2>2, <2>3, ApplyType, DatabaseUpdate
  <2>5. Raises(d, Tail(queue[d]), c, mainq[d], {})
    <3> HIDE DEF c
    <3> QED
      BY <1>1, <1>2, <2>1, <2>4, ClientStepRaises
  <2>6. Takes(d)
    BY <1>3 DEF Commit, ClientStep, Takes, TypeOK
  <2> QED
    BY <1>3, <2>5, <2>6 DEF Commit, Answered
<1>4. CASE Reject(d)
  <2>1. /\ ClientStep(d, Tail(queue[d]), cache[d], mainq[d], {})
        /\ server[w.doc] = Missing
    BY <1>4 DEF Reject, Applicable
  <2>2. Raises(d, Tail(queue[d]), cache[d], mainq[d], {})
    BY <1>1, <1>2, <2>1, ClientStepRaises
  <2>3. Drops(d)
    BY <1>4 DEF Reject, ClientStep, Applicable, Drops, TypeOK
  <2> QED
    BY <1>4, <2>1, <2>2, <2>3 DEF Reject, Answered
<1> QED
  BY <1>3, <1>4

LEMMA SyncKinds ==
  ASSUME TypeOK, NEW d \in Devices, Sync(d)
  PROVE  Syncs(d)
<1>1. PICK due : ClientStep(d, queue[d], Fresh(d), mainq[d], due)
  BY DEF Sync
<1>2. /\ queue[d] \in Seq(AllWrites) /\ mainq[d] \in Seq(Events(d))
      /\ cache[d] \in Databases /\ server \in Databases
  BY DEF TypeOK
<1>3. Fresh(d) \in Databases
  BY <1>2 DEF Fresh, Databases
<1>4. Raises(d, queue[d], Fresh(d), mainq[d], due)
  BY <1>1, <1>2, <1>3, ClientStepRaises
<1> QED
  BY <1>4 DEF Sync, Syncs

(* Every step is one of these.                                             *)
LEMMA Kinds ==
  ASSUME TypeOK, Controllers, Responsible, [Next]_vars
  PROVE  \/ Looks
         \/ \E d \in Devices :
              \/ \E v \in Views : Opens(d, v)
              \/ CoursesListener(d) \/ RollsUp(d)
              \/ \E w \in AllWrites : UserWrites(d, w)
              \/ Answered(d) \/ Syncs(d) \/ Terminate(d)
<1>1. CASE UNCHANGED vars
  BY <1>1 DEF vars, Looks
<1>2. ASSUME NEW d \in Devices,
             \/ Navigate(d) \/ Edit(d) \/ Listener(d)
             \/ Commit(d) \/ Reject(d) \/ Sync(d)
      PROVE  \/ Looks
             \/ \E v \in Views : Opens(d, v)
             \/ CoursesListener(d) \/ RollsUp(d)
             \/ \E w \in AllWrites : UserWrites(d, w)
             \/ Answered(d) \/ Syncs(d)
  BY <1>2, NavigateKinds, EditKinds, ListenerKinds, ServerKinds, SyncKinds
<1> QED
  BY <1>1, <1>2 DEF Next

-----------------------------------------------------------------------------
(* Controllers is inductive.                                               *)
LEMMA ControllersStep ==
  ASSUME TypeOK, Controllers, Responsible, [Next]_vars
  PROVE  Controllers'
<1>1. CASE Looks
  <2>2. \A d, p : LiveOn(d, p)' <=> LiveOn(d, p)
    BY <1>1 DEF Looks, LiveOn
  <2> QED
    BY <1>1, <2>2 DEF Looks, Controllers
<1>2. ASSUME NEW d \in Devices, NEW v \in Views, Opens(d, v) PROVE Controllers'
  <2>1. live' = live \cup {v} /\ table' = table /\ v.device = d
    BY <1>2 DEF Opens
  <2>2. (\A u \in Views \ live : table[u] = NotLoaded)'
    BY <2>1 DEF Controllers
  <2>3. \A e \in Devices : \A i \in DOMAIN stack'[e] :
          \/ stack'[e][i] = v /\ e = d
          \/ i \in DOMAIN stack[e] /\ stack'[e][i] = stack[e][i]
    <3>1. /\ stack \in [Devices -> Seq(Views)]
          /\ stack' = [stack EXCEPT ![d] = Append(stack[d], v)]
      BY <1>2 DEF Opens, TypeOK
    <3> QED
      BY <3>1
  <2>4. (\A e \in Devices : \A i \in DOMAIN stack[e] :
           stack[e][i] \in live /\ stack[e][i].device = e)'
    BY <2>1, <2>3 DEF Controllers
  <2>5. (\A u \in live : u.list # Root => LiveOn(u.device, Parent[u.list]))'
    BY <1>2, <2>1 DEF Opens, Controllers, LiveOn
  <2> QED
    BY <2>2, <2>4, <2>5 DEF Controllers
<1>3. ASSUME live' = live, stack' = stack,
             \A u \in Views \ live : table'[u] = table[u]
      PROVE  Controllers'
  <2>1. \A d, p : LiveOn(d, p)' <=> LiveOn(d, p)
    BY <1>3 DEF LiveOn
  <2> QED
    BY <1>3, <2>1 DEF Controllers
<1>4. ASSUME NEW d \in Devices, CoursesListener(d) \/ RollsUp(d) PROVE Controllers'
  <2> DEFINE v == Head(mainq[d]).view
  <2>1. v \in live
    BY <1>4, HandlerInput DEF CoursesListener, RollsUp
  <2>2. /\ table' = [table EXCEPT ![v] = Head(mainq[d]).rows]
        /\ live' = live /\ stack' = stack
    BY <1>4 DEF CoursesListener, RollsUp
  <2>3. \A u \in Views \ live : table'[u] = table[u]
    <3> HIDE DEF v
    <3> QED
      BY <2>1, <2>2 DEF TypeOK
  <2> QED
    BY <1>3, <2>2, <2>3
<1>5. ASSUME NEW d \in Devices, NEW w \in AllWrites, UserWrites(d, w) PROVE Controllers'
  BY <1>3, <1>5 DEF UserWrites
<1>6. ASSUME NEW d \in Devices, Answered(d) \/ Syncs(d) PROVE Controllers'
  BY <1>3, <1>6 DEF Answered, Syncs
<1>7. ASSUME NEW d \in Devices, Terminate(d) PROVE Controllers'
  <2>1. /\ live' = {v \in live : v.device # d}
        /\ table' = [v \in Views |-> IF v.device = d THEN NotLoaded ELSE table[v]]
        /\ stack' = [stack EXCEPT ![d] = <<>>]
    BY <1>7 DEF Terminate
  <2>2. (\A u \in Views \ live : table[u] = NotLoaded)'
    BY <2>1 DEF Controllers
  <2>3. (\A e \in Devices : \A i \in DOMAIN stack[e] :
           stack[e][i] \in live /\ stack[e][i].device = e)'
    BY <2>1 DEF Controllers, TypeOK
  <2>4. (\A u \in live : u.list # Root => LiveOn(u.device, Parent[u.list]))'
    BY <2>1 DEF Controllers, LiveOn
  <2> QED
    BY <2>2, <2>3, <2>4 DEF Controllers
<1> QED
  BY <1>1, <1>2, <1>4, <1>5, <1>6, <1>7, Kinds

(* The snapshots of a device stay as they are while another one acts.      *)
LEMMA OthersAfterRaises ==
  ASSUME TypeOK, NEW d \in Devices, NEW q, NEW c, NEW pending, NEW due,
         Raises(d, q, c, pending, due)
  PROVE  /\ queue'[d] = q /\ cache'[d] = c
         /\ \A e \in Devices \ {d} :
              queue'[e] = queue[e] /\ cache'[e] = cache[e] /\ mainq'[e] = mainq[e]
BY DEF Raises, TypeOK

(* The last rows on their way to a controller are its device's.            *)
LEMMA UpToDateStep ==
  ASSUME TypeOK, Controllers, Responsible, UpToDate, [Next]_vars
  PROVE  UpToDate'
<1> DEFINE Right(v) ==
      /\ \A r : LastFor(mainq[v.device], v, r) => r = Rows(v.device, v.list)
      /\ NoneFor(mainq[v.device], v) => table[v] \in {NotLoaded, Rows(v.device, v.list)}
<1>0. UpToDate <=> \A v \in live : Right(v)
  BY DEF UpToDate
<1>a. UpToDate' <=> \A v \in live' : Right(v)'
  BY DEF UpToDate
<1> SUFFICES ASSUME NEW v \in live' PROVE Right(v)'
  BY <1>a
<1>b. v \in Views /\ v.device \in Devices /\ v.list \in Lists
  <2>1. TypeOK'
    BY NextType
  <2>2. v \in Views
    BY <2>1 DEF TypeOK
  <2> QED
    BY <2>2 DEF Views
<1>1. ASSUME v \in live, queue'[v.device] = queue[v.device],
             cache'[v.device] = cache[v.device], mainq'[v.device] = mainq[v.device],
             table'[v] = table[v]
      PROVE  Right(v)'
  <2>1. Right(v)
    BY <1>0, <1>1
  <2> QED
    BY <1>1, <2>1 DEF Rows
<1>2. ASSUME NEW d \in Devices, NEW q, NEW c, NEW due,
             Raises(d, q, c, mainq[d], due), live' = live, table' = table
      PROVE  Right(v)'
  <2>0. v \in live /\ Right(v)
    BY <1>0, <1>2
  <2>1. CASE v.device # d
    BY <1>1, <1>2, <1>b, <2>0, <2>1, OthersAfterRaises
  <2>2. CASE v.device = d
    <3>1. queue'[d] = q /\ cache'[d] = c
      BY <1>2, OthersAfterRaises
    <3>2. Rows(d, v.list)' = Snapshot(q, c, v.list)
      BY <3>1 DEF Rows
    <3>3. \/ /\ ~NoneFor(mainq'[d], v)
             /\ \A r : LastFor(mainq'[d], v, r) => r = Snapshot(q, c, v.list)
          \/ /\ Snapshot(q, c, v.list) = Rows(d, v.list)
             /\ NoneFor(mainq'[d], v) <=> NoneFor(mainq[d], v)
             /\ \A r : LastFor(mainq'[d], v, r) <=> LastFor(mainq[d], v, r)
      BY <1>2, <2>0, <2>2 DEF Raises
    <3> QED
      BY <1>2, <2>0, <2>2, <3>2, <3>3
  <2> QED
    BY <2>1, <2>2
<1>3. CASE Looks
  BY <1>1, <1>3 DEF Looks
<1>4. ASSUME NEW d \in Devices, NEW nv \in Views, Opens(d, nv) PROVE Right(v)'
  <2>1. /\ nv \notin live /\ nv.device = d /\ live' = live \cup {nv}
        /\ queue' = queue /\ cache' = cache /\ table' = table
        /\ \/ mainq' = [mainq EXCEPT ![d] = Append(@, Event(nv, Rows(d, nv.list)))]
           \/ mainq' = mainq
    BY <1>4 DEF Opens
  <2>2. mainq[d] \in Seq(Events(d)) /\ DOMAIN mainq = Devices
    BY DEF TypeOK
  <2>3. NoneFor(mainq[d], nv)
    <3>1. \A x \in Events(d) : x.view \in live
      BY DEF Events
    <3>2. \A i \in DOMAIN mainq[d] : mainq[d][i] \in Events(d)
      <4> HIDE DEF Events
      <4> QED
        BY <2>2
    <3> QED
      BY <2>1, <3>1, <3>2 DEF NoneFor
  <2>4. table[nv] = NotLoaded
    BY <2>1 DEF Controllers
  <2>5. \A u, r : Rows(u, r)' = Rows(u, r)
    BY <2>1 DEF Rows
  <2>6. CASE mainq' = mainq \/ v.device # d
    <3>1. mainq'[v.device] = mainq[v.device]
      BY <1>b, <2>1, <2>2, <2>6
    <3>2. CASE v \in live
      BY <1>1, <2>1, <3>1, <3>2
    <3>3. CASE v = nv
      BY <2>1, <2>3, <2>4, <3>1, <3>3 DEF NoneFor, LastFor
    <3> QED
      BY <2>1, <3>2, <3>3
  <2>7. CASE mainq' = [mainq EXCEPT ![d] = Append(@, Event(nv, Rows(d, nv.list)))] /\ v.device = d
    <3> DEFINE x == Event(nv, Rows(d, nv.list))
    <3>1. x.view = nv /\ x.rows = Rows(d, nv.list)
      BY DEF Event
    <3> HIDE DEF x
    <3>2. mainq'[d] = mainq[d] \o <<x>>
      BY <2>2, <2>7 DEF x
    <3>3. DOMAIN <<x>> = {1} /\ <<x>>[1] = x
      OBVIOUS
    <3>a. PICK S : mainq[d] \in Seq(S) /\ <<x>> \in Seq(S)
      <4> HIDE DEF Events
      <4>1. mainq[d] \in Seq(Events(d) \cup {x}) /\ <<x>> \in Seq(Events(d) \cup {x})
        BY <2>2
      <4> QED
        BY <4>1
    <3>4. /\ NoneFor(mainq'[d], v) <=> NoneFor(mainq[d], v) /\ NoneFor(<<x>>, v)
          /\ \A r : LastFor(mainq'[d], v, r) <=>
               LastFor(<<x>>, v, r) \/ (NoneFor(<<x>>, v) /\ LastFor(mainq[d], v, r))
      <4>1. ASSUME NEW s \in Seq(S), NEW y \in Seq(S)
            PROVE  /\ NoneFor(s \o y, v) <=> NoneFor(s, v) /\ NoneFor(y, v)
                   /\ \A r : LastFor(s \o y, v, r) <=>
                        LastFor(y, v, r) \/ (NoneFor(y, v) /\ LastFor(s, v, r))
        BY ForAfterConcat
      <4> QED
        <5>1. PICK s \in Seq(S), y \in Seq(S) : s = mainq[d] /\ y = <<x>>
          BY <3>a
        <5>2. mainq'[d] = s \o y
          BY <3>2, <5>1
        <5>3. /\ NoneFor(mainq'[d], v) <=> NoneFor(s, v) /\ NoneFor(y, v)
              /\ \A r : LastFor(mainq'[d], v, r) <=>
                   LastFor(y, v, r) \/ (NoneFor(y, v) /\ LastFor(s, v, r))
          BY <4>1, <5>2
        <5> QED
          BY <5>1, <5>3
    <3>5. /\ NoneFor(<<x>>, v) <=> v # nv
          /\ \A r : LastFor(<<x>>, v, r) <=> v = nv /\ r = Rows(d, nv.list)
      BY <3>1, <3>3 DEF NoneFor, LastFor
    <3>6. CASE v = nv
      BY <2>5, <2>7, <3>4, <3>5, <3>6
    <3>7. CASE v # nv
      <4>1. Right(v)
        BY <1>0, <2>1, <3>7
      <4> QED
        BY <2>1, <2>5, <2>7, <3>4, <3>5, <3>7, <4>1
    <3> QED
      BY <3>6, <3>7
  <2> QED
    BY <2>1, <2>6, <2>7
<1>5. ASSUME NEW d \in Devices, mainq[d] # <<>>, live' = live,
             table' = [table EXCEPT ![Head(mainq[d]).view] = Head(mainq[d]).rows],
             \A e \in Devices \ {d} :
               queue'[e] = queue[e] /\ cache'[e] = cache[e] /\ mainq'[e] = mainq[e],
             v.device = d =>
               \/ /\ ~NoneFor(mainq'[d], v)
                  /\ \A r : LastFor(mainq'[d], v, r) => r = Rows(d, v.list)'
               \/ /\ Rows(d, v.list)' = Rows(d, v.list)
                  /\ NoneFor(mainq'[d], v) <=> NoneFor(Tail(mainq[d]), v)
                  /\ \A r : LastFor(mainq'[d], v, r) <=> LastFor(Tail(mainq[d]), v, r)
      PROVE  Right(v)'
  <2> DEFINE h == Head(mainq[d])
             t == Tail(mainq[d])
  <2>0. v \in live /\ Right(v)
    BY <1>0, <1>5
  <2>1. h.view \in live /\ h.view \in Views /\ h.view.device = d
    <3>1. mainq[d] \in Seq(Events(d))
      BY DEF TypeOK
    <3>2. h \in Events(d)
      <4> HIDE DEF Events
      <4> QED
        BY <1>5, <3>1
    <3> QED
      BY <3>2 DEF Events, TypeOK
  <2>2. table'[v] = IF v = h.view THEN h.rows ELSE table[v]
    BY <1>5, <1>b DEF TypeOK
  <2>3. CASE v.device # d
    BY <1>1, <1>5, <1>b, <2>0, <2>1, <2>2, <2>3
  <2>4. CASE v.device = d
    <3>1. /\ NoneFor(mainq[d], v) <=> NoneFor(t, v) /\ h.view # v
          /\ \A r : LastFor(t, v, r) => LastFor(mainq[d], v, r)
          /\ NoneFor(t, v) /\ h.view = v => LastFor(mainq[d], v, h.rows)
      <4>1. mainq[d] \in Seq(Events(d))
        BY DEF TypeOK
      <4> QED
        BY <1>5, <4>1, ForAfterTail
    <3> HIDE DEF h, t
    <3>2. /\ \A r : LastFor(t, v, r) => r = Rows(d, v.list)
          /\ NoneFor(t, v) => table'[v] \in {NotLoaded, Rows(d, v.list)}
      BY <2>0, <2>2, <2>4, <3>1
    <3> QED
      BY <1>5, <2>4, <3>2 DEF t
  <2> QED
    BY <2>3, <2>4
<1>6. ASSUME NEW d \in Devices, CoursesListener(d) PROVE Right(v)'
  <2>1. /\ mainq[d] # <<>> /\ live' = live /\ queue' = queue /\ cache' = cache
        /\ table' = [table EXCEPT ![Head(mainq[d]).view] = Head(mainq[d]).rows]
        /\ mainq' = [mainq EXCEPT ![d] = Tail(mainq[d])]
    BY <1>6 DEF CoursesListener
  <2>2. mainq'[d] = Tail(mainq[d]) /\ \A e \in Devices \ {d} : mainq'[e] = mainq[e]
    BY <2>1 DEF TypeOK
  <2>3. Rows(d, v.list)' = Rows(d, v.list)
    BY <2>1 DEF Rows
  <2> QED
    BY <1>5, <2>1, <2>2, <2>3
<1>7. ASSUME NEW d \in Devices, RollsUp(d) PROVE Right(v)'
  <2>1. PICK q : /\ mainq[d] # <<>> /\ live' = live
                 /\ table' = [table EXCEPT ![Head(mainq[d]).view] = Head(mainq[d]).rows]
                 /\ Raises(d, q, cache[d], Tail(mainq[d]), {})
    BY <1>7 DEF RollsUp
  <2>2. /\ queue'[d] = q /\ cache'[d] = cache[d]
        /\ \A e \in Devices \ {d} :
             queue'[e] = queue[e] /\ cache'[e] = cache[e] /\ mainq'[e] = mainq[e]
    BY <2>1, OthersAfterRaises
  <2>3. Rows(d, v.list)' = Snapshot(q, cache[d], v.list)
    BY <2>2 DEF Rows
  <2>4. v.device = d =>
          \/ /\ ~NoneFor(mainq'[d], v)
             /\ \A r : LastFor(mainq'[d], v, r) => r = Rows(d, v.list)'
          \/ /\ Rows(d, v.list)' = Rows(d, v.list)
             /\ NoneFor(mainq'[d], v) <=> NoneFor(Tail(mainq[d]), v)
             /\ \A r : LastFor(mainq'[d], v, r) <=> LastFor(Tail(mainq[d]), v, r)
    BY <2>1, <2>3 DEF Raises
  <2> QED
    BY <1>5, <2>1, <2>2, <2>4
<1>8. ASSUME NEW d \in Devices, NEW w \in AllWrites, UserWrites(d, w) PROVE Right(v)'
  BY <1>2, <1>8 DEF UserWrites
<1>9. ASSUME NEW d \in Devices, Answered(d) PROVE Right(v)'
  BY <1>2, <1>9 DEF Answered
<1>10. ASSUME NEW d \in Devices, Syncs(d) PROVE Right(v)'
  BY <1>2, <1>10 DEF Syncs
<1>11. ASSUME NEW d \in Devices, Terminate(d) PROVE Right(v)'
  <2>1. /\ v \in live /\ v.device # d
        /\ queue' = queue /\ cache' = cache
        /\ mainq' = [mainq EXCEPT ![d] = <<>>]
        /\ table' = [u \in Views |-> IF u.device = d THEN NotLoaded ELSE table[u]]
    BY <1>11 DEF Terminate
  <2>2. mainq'[v.device] = mainq[v.device] /\ table'[v] = table[v]
    BY <1>b, <2>1 DEF TypeOK
  <2> QED
    BY <1>1, <2>1, <2>2
<1> QED
  BY <1>3, <1>4, <1>6, <1>7, <1>8, <1>9, <1>10, <1>11, Kinds

-----------------------------------------------------------------------------
(* What a device knows of it goes on knowing of.                           *)
LEMMA StillKnown ==
  ASSUME TypeOK, [Next]_vars
  PROVE  \A d \in Devices : \A k : Knows(d, k) => Knows(d, k)'
<1> SUFFICES ASSUME NEW d \in Devices, NEW k, Knows(d, k) PROVE Knows(d, k)'
  OBVIOUS
<1>0. k \in used /\ k \in Docs
  BY DEF Knows, TypeOK
<1>1. CASE Quiet
  BY <1>1 DEF Quiet, Knows, Adding
<1>2. ASSUME NEW e \in Devices, NEW w \in AllWrites, Issues(e, w) PROVE Knows(d, k)'
  <2>1. used \subseteq used' /\ (w.op = "set" => w.doc \notin used)
    BY <1>2 DEF Issues
  <2>2. \A f \in Devices : \A i : Adding(f, i, k)' => Adding(f, i, k)
    BY <1>0, <1>2, <2>1, AddingAfterIssue
  <2> QED
    BY <1>0, <2>1, <2>2 DEF Knows
<1>3. ASSUME NEW e \in Devices, Takes(e) \/ Drops(e) PROVE Knows(d, k)'
  <2>1. used' = used /\ queue[e] # <<>> /\ queue' = [queue EXCEPT ![e] = Tail(@)]
    BY <1>3 DEF Takes, Drops
  <2>2. \A f \in Devices : \A i : Adding(f, i, k)' => \E j : Adding(f, j, k)
    BY <1>0, <2>1, AddingAfterTail
  <2> QED
    BY <1>0, <2>1, <2>2 DEF Knows
<1> QED
  BY <1>1, <1>2, <1>3, WriteSteps

(* A row is of a document the device has a copy of or is adding.           *)
LEMMA RowsAreKnown ==
  ASSUME NEW q \in Seq(AllWrites), NEW c, NEW list \in Lists,
         NEW k \in DOMAIN Snapshot(q, c, list)
  PROVE  /\ k \in Docs /\ Parent[k] = list
         /\ \/ c[k] # Missing
            \/ \E i \in DOMAIN q : q[i].op = "set" /\ q[i].doc = k
<1> DEFINE seen == [j \in Children[list] |-> Overlay(q, c[j], j)]
           R == Replacing(q, k)
<1>1. k \in Children[list] /\ seen[k] # Missing
  BY DEF Snapshot
<1>2. k \in Docs /\ Parent[k] = list /\ Overlay(q, c[k], k) # Missing
  BY <1>1, Levels
<1>3. ~(IF R = {} THEN c[k] = Missing ELSE q[LastOf(R)].op = "delete")
  BY <1>2 DEF Overlay
<1>4. CASE R = {}
  BY <1>2, <1>3, <1>4
<1>5. CASE R # {}
  <2>1. Len(q) \in Nat /\ DOMAIN q = 1 .. Len(q) /\ R \in SUBSET (1 .. Len(q))
    BY DEF Replacing
  <2>2. LastOf(R) \in R
    <3> HIDE DEF R
    <3> QED
      BY <1>5, <2>1, LastOfIsLast
  <2>3. LastOf(R) \in DOMAIN q /\ q[LastOf(R)].doc = k /\ q[LastOf(R)].op # "update"
    BY <2>2 DEF Replacing
  <2>4. q[LastOf(R)] \in AllWrites
    BY <2>3
  <2>5. q[LastOf(R)].op \in {"set", "update", "delete"}
    <3>1. \A w \in AllWrites : w.op \in {"set", "update", "delete"}
      BY WriteOf, WriteShape
    <3> HIDE DEF R
    <3> QED
      BY <2>4, <3>1, Zenon
  <2> QED
    BY <1>2, <1>3, <1>5, <2>3, <2>5
<1> QED
  BY <1>4, <1>5

(* The copies of a device come from its own writes and the server.         *)
LEMMA CopiesAreKnown ==
  ASSUME TypeOK, AddedOnce, Controllers, Responsible, Known, [Next]_vars
  PROVE  (\A d \in Devices : \A k \in Docs : cache[d][k] # Missing => Knows(d, k))'
<1> SUFFICES ASSUME NEW d \in Devices, NEW k \in Docs, cache'[d][k] # Missing
             PROVE  Knows(d, k)'
  OBVIOUS
<1>1. SUFFICES Knows(d, k)
  BY StillKnown
<1>2. CASE cache[d][k] # Missing
  BY <1>2 DEF Known
<1>3. CASE server[k] # Missing
  BY <1>3 DEF AddedOnce, Knows
<1>4. CASE cache' = cache
  BY <1>2, <1>4
<1>5. ASSUME NEW e \in Devices, NEW q, NEW c, NEW pending, NEW due,
             Raises(e, q, c, pending, due), e = d => c[k] = cache[d][k]
      PROVE  Knows(d, k)
  BY <1>2, <1>5, OthersAfterRaises
<1>6. ASSUME NEW e \in Devices, RollsUp(e) PROVE Knows(d, k)
  BY <1>5, <1>6 DEF RollsUp
<1>7. ASSUME NEW e \in Devices, NEW w \in AllWrites, UserWrites(e, w) PROVE Knows(d, k)
  BY <1>5, <1>7 DEF UserWrites
<1>8. ASSUME NEW e \in Devices, Answered(e) PROVE Knows(d, k)
  <2> DEFINE w == Head(queue[e])
             c == [cache[e] EXCEPT ![w.doc] = Apply(w, @)]
  <2>1. CASE Drops(e) /\ Raises(e, Tail(queue[e]), cache[e], mainq[e], {})
    BY <1>5, <2>1
  <2>2. CASE Takes(e) /\ Raises(e, Tail(queue[e]), c, mainq[e], {})
    <3>1. cache[e] \in Databases /\ DOMAIN cache[e] = Docs
      BY DEF TypeOK, Databases
    <3>2. c[k] = IF k = w.doc THEN Apply(w, cache[e][k]) ELSE cache[e][k]
      BY <3>1
    <3>3. /\ w.op \in {"set", "update", "delete"}
          /\ w.op = "set" <=> Adding(e, 1, w.doc)
      BY <2>2, TakenWrite
    <3> HIDE DEF w
    <3>4. CASE e = d /\ k = w.doc /\ w.op = "set"
      BY <3>3, <3>4 DEF AddedOnce, Knows
    <3>5. CASE e = d /\ k = w.doc /\ w.op # "set"
      <4>1. cache'[d][k] = Apply(w, cache[d][k])
        <5> HIDE DEF c
        <5>1. cache'[e] = c
          BY <2>2, OthersAfterRaises
        <5> QED
          BY <3>2, <3>5, <5>1
      <4>2. cache[d][k] # Missing
        BY <3>3, <3>5, <4>1 DEF Apply
      <4> QED
        BY <1>2, <4>2
    <3>6. CASE e # d \/ k # w.doc
      <4> HIDE DEF c
      <4> QED
        BY <1>5, <2>2, <3>2, <3>6
    <3> QED
      BY <3>4, <3>5, <3>6
  <2> QED
    BY <1>8, <2>1, <2>2 DEF Answered
<1>9. ASSUME NEW e \in Devices, Syncs(e) PROVE Knows(d, k)
  <2>1. PICK due : Raises(e, queue[e], Fresh(e), mainq[e], due)
    BY <1>9 DEF Syncs
  <2>2. Fresh(e)[k] \in {server[k], cache[e][k]}
    BY DEF Fresh
  <2>3. CASE e = d
    <3>1. cache'[d][k] = Fresh(e)[k]
      BY <2>1, <2>3, OthersAfterRaises
    <3> QED
      BY <1>2, <1>3, <2>2, <2>3, <3>1
  <2>4. CASE e # d
    BY <1>5, <2>1, <2>4
  <2> QED
    BY <2>3, <2>4
<1>10. CASE Looks \/ \E e \in Devices : \/ \E v \in Views : Opens(e, v)
                                        \/ CoursesListener(e) \/ Terminate(e)
  BY <1>4, <1>10 DEF Looks, Opens, CoursesListener, Terminate
<1> QED
  BY <1>6, <1>7, <1>8, <1>9, <1>10, Kinds


(* A snapshot under way was under way before, or has the rows of now.      *)
LEMMA NewEvents ==
  ASSUME TypeOK, Controllers, Responsible, [Next]_vars
  PROVE  \A d \in Devices : \A i \in DOMAIN mainq'[d] :
           \/ \E j \in DOMAIN mainq[d] : mainq'[d][i] = mainq[d][j]
           \/ /\ mainq'[d][i].view.list \in Lists
              /\ mainq'[d][i].rows = Snapshot(queue'[d], cache'[d], mainq'[d][i].view.list)
<1> DEFINE Old(d, i) == \E j \in DOMAIN mainq[d] : mainq'[d][i] = mainq[d][j]
           New(d, i) == /\ mainq'[d][i].view.list \in Lists
                        /\ mainq'[d][i].rows = Snapshot(queue'[d], cache'[d], mainq'[d][i].view.list)
<1> SUFFICES ASSUME NEW d \in Devices, NEW i \in DOMAIN mainq'[d]
             PROVE  Old(d, i) \/ New(d, i)
  OBVIOUS
<1>0. /\ mainq'[d][i].view.list \in Lists
      /\ mainq[d] \in Seq(Events(d)) /\ DOMAIN mainq = Devices
  <2>1. TypeOK'
    BY NextType
  <2>2. mainq'[d] \in Seq(Events(d)')
    BY <2>1 DEF TypeOK
  <2>3. mainq'[d][i] \in Events(d)'
    <3> HIDE DEF Events
    <3> QED
      BY <2>2
  <2>4. mainq'[d][i].view \in live'
    BY <2>3 DEF Events
  <2> QED
    BY <2>1, <2>4 DEF TypeOK, Views
<1>1. CASE mainq'[d] = mainq[d]
  BY <1>1
<1>2. mainq[d] # <<>> => \A j \in DOMAIN Tail(mainq[d]) :
        j + 1 \in DOMAIN mainq[d] /\ Tail(mainq[d])[j] = mainq[d][j + 1]
  <2> HIDE DEF Events
  <2> QED
    BY <1>0
<1>3. CASE mainq[d] # <<>> /\ mainq'[d] = Tail(mainq[d])
  BY <1>2, <1>3
<1>4. ASSUME NEW e \in Devices, NEW q, NEW c, NEW pending, NEW due,
             Raises(e, q, c, pending, due),
             pending = mainq[e] \/ (mainq[e] # <<>> /\ pending = Tail(mainq[e]))
      PROVE  Old(d, i) \/ New(d, i)
  <2>1. CASE e # d
    BY <1>1, <1>4, <2>1, OthersAfterRaises
  <2>2. CASE e = d
    <3>1. queue'[d] = q /\ cache'[d] = c
      BY <1>4, <2>2, OthersAfterRaises
    <3>2. \/ \E j \in DOMAIN pending : mainq'[d][i] = pending[j]
          \/ mainq'[d][i].rows = Snapshot(q, c, mainq'[d][i].view.list)
      BY <1>4, <2>2 DEF Raises
    <3>3. CASE \E j \in DOMAIN pending : mainq'[d][i] = pending[j]
      BY <1>2, <1>4, <2>2, <3>3
    <3>4. CASE mainq'[d][i].rows = Snapshot(q, c, mainq'[d][i].view.list)
      BY <1>0, <3>1, <3>4 DEF Rows
    <3> QED
      BY <3>2, <3>3, <3>4
  <2> QED
    BY <2>1, <2>2
<1>5. ASSUME NEW e \in Devices, NEW v \in Views, Opens(e, v) PROVE Old(d, i) \/ New(d, i)
  <2> DEFINE x == Event(v, Rows(e, v.list))
  <2>1. /\ queue' = queue /\ cache' = cache
        /\ mainq' = [mainq EXCEPT ![e] = Append(@, x)] \/ mainq' = mainq
    BY <1>5 DEF Opens
  <2>2. CASE mainq'[d] = Append(mainq[d], x) /\ e = d
    <3>1. mainq'[d][i] = x \/ (i \in DOMAIN mainq[d] /\ mainq'[d][i] = mainq[d][i])
      <4> HIDE DEF x, Events
      <4> QED
        BY <1>0, <2>2
    <3>2. CASE mainq'[d][i] = x
      BY <1>0, <2>1, <2>2, <3>2 DEF Event, Rows
    <3> QED
      BY <3>1, <3>2
  <2>3. mainq'[d] = mainq[d] \/ (mainq'[d] = Append(mainq[d], x) /\ e = d)
    <3> HIDE DEF x
    <3> QED
      BY <1>0, <2>1
  <2> QED
    BY <1>1, <2>2, <2>3
<1>6. ASSUME NEW e \in Devices, CoursesListener(e) PROVE Old(d, i) \/ New(d, i)
  <2>1. mainq[e] # <<>> /\ mainq' = [mainq EXCEPT ![e] = Tail(@)]
    BY <1>6 DEF CoursesListener
  <2> QED
    BY <1>0, <1>1, <1>3, <2>1
<1>7. ASSUME NEW e \in Devices, RollsUp(e) PROVE Old(d, i) \/ New(d, i)
  BY <1>4, <1>7 DEF RollsUp
<1>8. ASSUME NEW e \in Devices, NEW w \in AllWrites, UserWrites(e, w)
      PROVE Old(d, i) \/ New(d, i)
  BY <1>4, <1>8 DEF UserWrites
<1>9. ASSUME NEW e \in Devices, Answered(e) \/ Syncs(e) PROVE Old(d, i) \/ New(d, i)
  BY <1>4, <1>9 DEF Answered, Syncs
<1>10. ASSUME NEW e \in Devices, Terminate(e) PROVE Old(d, i) \/ New(d, i)
  <2>1. mainq' = [mainq EXCEPT ![e] = <<>>]
    BY <1>10 DEF Terminate
  <2> QED
    BY <1>0, <1>1, <2>1
<1>11. CASE Looks
  BY <1>1, <1>11 DEF Looks
<1> QED
  BY <1>5, <1>6, <1>7, <1>8, <1>9, <1>10, <1>11, Kinds

(* The rows a controller has it had before, or were sent to it.            *)
LEMMA NewTables ==
  ASSUME TypeOK, Controllers, Responsible, [Next]_vars
  PROVE  \A v \in live' : table'[v] # NotLoaded =>
           \/ v \in live /\ table'[v] = table[v]
           \/ \E i \in DOMAIN mainq[v.device] : table'[v] = mainq[v.device][i].rows
<1> DEFINE Had(v) ==
      \/ v \in live /\ table'[v] = table[v]
      \/ \E i \in DOMAIN mainq[v.device] : table'[v] = mainq[v.device][i].rows
<1> SUFFICES ASSUME NEW v \in live', table'[v] # NotLoaded PROVE Had(v)
  OBVIOUS
<1>0. v \in Views /\ DOMAIN table = Views
  <2>1. TypeOK'
    BY NextType
  <2> QED
    BY <2>1 DEF TypeOK
<1>1. ASSUME NEW d \in Devices, CoursesListener(d) \/ RollsUp(d) PROVE Had(v)
  <2> DEFINE h == Head(mainq[d])
  <2>1. /\ mainq[d] # <<>> /\ live' = live
        /\ table' = [table EXCEPT ![h.view] = h.rows]
    BY <1>1 DEF CoursesListener, RollsUp
  <2>2. h \in Events(d) /\ 1 \in DOMAIN mainq[d] /\ mainq[d][1] = h
    <3>1. mainq[d] \in Seq(Events(d))
      BY DEF TypeOK
    <3> HIDE DEF Events
    <3> QED
      BY <2>1, <3>1
  <2>3. h.view.device = d
    BY <2>2 DEF Events
  <2> HIDE DEF h
  <2> QED
    BY <1>0, <2>1, <2>2, <2>3
<1>2. ASSUME NEW d \in Devices, NEW u \in Views, Opens(d, u) PROVE Had(v)
  BY <1>2 DEF Opens, Controllers
<1>3. CASE Looks
  BY <1>3 DEF Looks
<1>4. ASSUME NEW d \in Devices, NEW w \in AllWrites, UserWrites(d, w) PROVE Had(v)
  BY <1>4 DEF UserWrites
<1>5. ASSUME NEW d \in Devices, Answered(d) \/ Syncs(d) PROVE Had(v)
  BY <1>5 DEF Answered, Syncs
<1>6. ASSUME NEW d \in Devices, Terminate(d) PROVE Had(v)
  BY <1>0, <1>6 DEF Terminate
<1> QED
  BY <1>1, <1>2, <1>3, <1>4, <1>5, <1>6, Kinds

(* Known is inductive.                                                     *)
LEMMA KnownStep ==
  ASSUME TypeOK, AddedOnce, Controllers, Responsible, Known, [Next]_vars
  PROVE  Known'
<1>1. TypeOK' /\ AddedOnce'
  BY NextType, AddedOnceStep
<1>2. \A d \in Devices : \A k : Knows(d, k) => Knows(d, k)'
  BY StillKnown
<1>3. (\A d \in Devices : \A k \in Docs : cache[d][k] # Missing => Knows(d, k))'
  BY CopiesAreKnown
<1>4. ASSUME NEW d \in Devices, NEW list \in Lists,
             NEW k \in DOMAIN Snapshot(queue'[d], cache'[d], list)
      PROVE  Knows(d, k)'
  <2>1. queue'[d] \in Seq(AllWrites)
    BY <1>1 DEF TypeOK
  <2>3. /\ k \in Docs
        /\ \/ cache'[d][k] # Missing
           \/ \E i \in DOMAIN queue'[d] : queue'[d][i].op = "set" /\ queue'[d][i].doc = k
    BY <2>1, RowsAreKnown
  <2>4. ASSUME NEW i \in DOMAIN queue'[d], queue'[d][i].op = "set", queue'[d][i].doc = k
        PROVE  Knows(d, k)'
    <3>1. Adding(d, i, k)'
      BY <2>4 DEF Adding
    <3> QED
      BY <1>1, <2>3, <3>1 DEF AddedOnce, Knows
  <2> QED
    BY <1>3, <2>3, <2>4
<1>5. (\A d \in Devices : \A i \in DOMAIN mainq[d] :
         \A k \in DOMAIN mainq[d][i].rows : Knows(d, k))'
  <2> SUFFICES ASSUME NEW d \in Devices, NEW i \in DOMAIN mainq'[d],
                      NEW k \in DOMAIN mainq'[d][i].rows
               PROVE  Knows(d, k)'
    OBVIOUS
  <2>1. CASE \E j \in DOMAIN mainq[d] : mainq'[d][i] = mainq[d][j]
    BY <1>2, <2>1 DEF Known
  <2>2. CASE /\ mainq'[d][i].view.list \in Lists
             /\ mainq'[d][i].rows = Snapshot(queue'[d], cache'[d], mainq'[d][i].view.list)
    BY <1>4, <2>2
  <2> QED
    BY <2>1, <2>2, NewEvents
<1>6. (\A v \in live : table[v] # NotLoaded =>
         \A k \in DOMAIN table[v] : Knows(v.device, k))'
  <2> SUFFICES ASSUME NEW v \in live', table'[v] # NotLoaded, NEW k \in DOMAIN table'[v]
               PROVE  Knows(v.device, k)'
    OBVIOUS
  <2>1. v.device \in Devices
    BY <1>1 DEF TypeOK, Views
  <2>2. Knows(v.device, k)
    BY <2>1, NewTables DEF Known
  <2> QED
    BY <1>2, <2>1, <2>2
<1>7. (\A v \in live : v.list # Root => Knows(v.device, v.list))'
  <2> SUFFICES ASSUME NEW v \in live', v.list # Root PROVE Knows(v.device, v.list)'
    OBVIOUS
  <2>1. v.device \in Devices
    BY <1>1 DEF TypeOK, Views
  <2>2. CASE v \in live
    BY <1>2, <2>1, <2>2 DEF Known
  <2>3. CASE v \notin live
    <3>1. PICK d \in Devices : Opens(d, v)
      <4>1. Looks => live' = live
        BY DEF Looks
      <4>2. ASSUME NEW d \in Devices, NEW u \in Views, Opens(d, u) PROVE u = v
        BY <2>3, <4>2 DEF Opens
      <4>3. \A d \in Devices :
              /\ CoursesListener(d) \/ RollsUp(d) \/ Answered(d) \/ Syncs(d) => live' = live
              /\ \A w : UserWrites(d, w) => live' = live
              /\ Terminate(d) => live' \subseteq live
        BY DEF CoursesListener, RollsUp, UserWrites, Answered, Syncs, Terminate
      <4>4. \E d \in Devices : \E u \in Views : Opens(d, u)
        BY <2>3, <4>1, <4>3, Kinds
      <4> QED
        BY <4>2, <4>4
    <3>2. PICK u \in live : /\ u.device = v.device
                            /\ table[u] # NotLoaded /\ v.list \in DOMAIN table[u]
      BY <3>1 DEF Opens
    <3> QED
      BY <1>2, <2>1, <3>2 DEF Known
  <2> QED
    BY <2>2, <2>3
<1> QED
  BY <1>3, <1>5, <1>6, <1>7 DEF Known

-----------------------------------------------------------------------------
(* A write in a queue was in it before, or is the one that is issued.      *)
LEMMA NewWrites ==
  ASSUME TypeOK, Controllers, Responsible, [Next]_vars
  PROVE  \A d \in Devices : \A i \in DOMAIN queue'[d] :
           \/ \E j \in DOMAIN queue[d] : queue'[d][i] = queue[d][j]
           \/ /\ queue'[d][i].op = "update" /\ queue'[d][i].input = Keep
              /\ queue'[d][i].doc \in Courses \cup Categories
              /\ LiveOn(d, queue'[d][i].doc)
           \/ \E w \in AllWrites : UserWrites(d, w) /\ queue'[d][i] = w
<1> DEFINE Old(d, i) == \E j \in DOMAIN queue[d] : queue'[d][i] = queue[d][j]
           Rolled(d, w) == /\ w.op = "update" /\ w.input = Keep
                           /\ w.doc \in Courses \cup Categories
                           /\ LiveOn(d, w.doc)
           User(d, i) == \E w \in AllWrites : UserWrites(d, w) /\ queue'[d][i] = w
           New(d, i) == Old(d, i) \/ Rolled(d, queue'[d][i]) \/ User(d, i)
<1> SUFFICES ASSUME NEW d \in Devices, NEW i \in DOMAIN queue'[d] PROVE New(d, i)
  OBVIOUS
<1>1. CASE queue'[d] = queue[d]
  BY <1>1
<1>2. ASSUME NEW e \in Devices, NEW w \in AllWrites,
             queue'[e] = Append(queue[e], w), \A f \in Devices \ {e} : queue'[f] = queue[f],
             Rolled(e, w) \/ UserWrites(e, w)
      PROVE  New(d, i)
  <2>1. CASE e # d
    BY <1>1, <1>2, <2>1
  <2>2. CASE e = d
    <3>1. queue'[d][i] = w \/ (i \in DOMAIN queue[d] /\ queue'[d][i] = queue[d][i])
      BY <1>2, <2>2, QueueAfter
    <3> QED
      BY <1>2, <2>2, <3>1
  <2> QED
    BY <2>1, <2>2
<1>3. ASSUME NEW e \in Devices, queue[e] # <<>>,
             queue'[e] = Tail(queue[e]), \A f \in Devices \ {e} : queue'[f] = queue[f]
      PROVE  New(d, i)
  <2>1. CASE e # d
    BY <1>1, <1>3, <2>1
  <2>2. CASE e = d
    <3>0. queue[d] # <<>> /\ queue'[d] = Tail(queue[d])
      BY <1>3, <2>2
    <3>1. i + 1 \in DOMAIN queue[d] /\ queue'[d][i] = queue[d][i + 1]
      BY <3>0, QueueAfter
    <3> QED
      BY <3>1
  <2> QED
    BY <2>1, <2>2
<1>4. ASSUME NEW e \in Devices, RollsUp(e) PROVE New(d, i)
  <2> DEFINE v == Head(mainq[e]).view
             w == Update(v.list, Keep, RollUp(v.list, Head(mainq[e]).rows))
  <2>1. /\ mainq[e] # <<>> /\ v.list \in Courses \cup Categories /\ w \in AllWrites
        /\ Raises(e, Append(queue[e], w), cache[e], Tail(mainq[e]), {})
    BY <1>4 DEF RollsUp
  <2>2. LiveOn(e, v.list)
    <3>1. mainq[e] \in Seq(Events(e))
      BY DEF TypeOK
    <3>2. Head(mainq[e]) \in Events(e)
      <4> HIDE DEF Events
      <4> QED
        BY <2>1, <3>1
    <3> QED
      BY <3>2 DEF Events, LiveOn
  <2>3. w.op = "update" /\ w.input = Keep /\ w.doc = v.list
    BY DEF Update
  <2> HIDE DEF w, v
  <2>4. queue'[e] = Append(queue[e], w) /\ \A f \in Devices \ {e} : queue'[f] = queue[f]
    BY <2>1, OthersAfterRaises
  <2> QED
    BY <1>2, <2>1, <2>2, <2>3, <2>4
<1>5. ASSUME NEW e \in Devices, NEW w \in AllWrites, UserWrites(e, w) PROVE New(d, i)
  <2>1. queue'[e] = Append(queue[e], w) /\ \A f \in Devices \ {e} : queue'[f] = queue[f]
    BY <1>5, OthersAfterRaises DEF UserWrites
  <2> QED
    BY <1>2, <1>5, <2>1
<1>6. ASSUME NEW e \in Devices, Answered(e) PROVE New(d, i)
  <2>1. queue[e] # <<>> /\ queue' = [queue EXCEPT ![e] = Tail(@)]
    BY <1>6 DEF Answered, Takes, Drops
  <2>2. queue'[e] = Tail(queue[e]) /\ \A f \in Devices \ {e} : queue'[f] = queue[f]
    BY <2>1 DEF TypeOK
  <2> QED
    BY <1>3, <2>1, <2>2
<1>7. ASSUME NEW e \in Devices, Syncs(e) PROVE New(d, i)
  <2>1. queue'[d] = queue[d]
    BY <1>7, OthersAfterRaises DEF Syncs
  <2> QED
    BY <1>1, <2>1
<1>8. CASE Looks \/ \E e \in Devices : \/ \E v \in Views : Opens(e, v)
                                       \/ CoursesListener(e) \/ Terminate(e)
  BY <1>1, <1>8 DEF Looks, Opens, CoursesListener, Terminate
<1> QED
  BY <1>4, <1>5, <1>6, <1>7, <1>8, Kinds

(* FirstGrades is inductive.                                               *)
LEMMA FirstGradesStep ==
  ASSUME TypeOK, Controllers, Responsible, FirstGrades, [Next]_vars
  PROVE  FirstGrades'
<1> SUFFICES ASSUME NEW d \in Devices, NEW i \in DOMAIN queue'[d],
                    queue'[d][i].op = "set"
             PROVE  /\ queue'[d][i].doc \in Categories => queue'[d][i].grade = 0
                    /\ queue'[d][i].doc \in Courses => queue'[d][i].grade = Missing
  BY DEF FirstGrades
<1>1. CASE \E j \in DOMAIN queue[d] : queue'[d][i] = queue[d][j]
  BY <1>1 DEF FirstGrades
<1>2. CASE \E w \in AllWrites : UserWrites(d, w) /\ queue'[d][i] = w
  BY <1>2 DEF UserWrites
<1> QED
  BY <1>1, <1>2, NewWrites

(* Who answers for a collection goes on doing so.                          *)
LEMMA StillAnswers ==
  ASSUME TypeOK, Controllers, Responsible, [Next]_vars
  PROVE  \A d \in Devices : \A p : Answers(d, p) => Answers(d, p)'
<1> SUFFICES ASSUME NEW d \in Devices, NEW p, Answers(d, p) PROVE Answers(d, p)'
  OBVIOUS
<1>1. CASE live \subseteq live' /\ restarts' = restarts
  BY <1>1 DEF Answers, LiveOn
<1>2. ASSUME NEW e \in Devices, Terminate(e) PROVE Answers(d, p)'
  <2>1. /\ restarts' = [restarts EXCEPT ![e] = @ + 1]
        /\ restarts \in [Devices -> Nat]
        /\ live' = {v \in live : v.device # e}
    BY <1>2 DEF Terminate, TypeOK
  <2>2. CASE d = e
    <3>1. restarts'[d] = restarts[d] + 1 /\ restarts[d] \in Nat
      BY <2>1, <2>2
    <3>2. restarts'[d] > 0
      BY <3>1
    <3> QED
      BY <3>2 DEF Answers
  <2>3. CASE d # e
    <3>1. restarts'[d] = restarts[d]
      BY <2>1, <2>3
    <3> QED
      BY <2>1, <2>3, <3>1 DEF Answers, LiveOn
  <2> QED
    BY <2>2, <2>3
<1> QED
  BY <1>1, <1>2, Kinds DEF Looks, Opens, CoursesListener, RollsUp, UserWrites,
                           Answered, Syncs

(* Responsible is inductive.                                               *)
LEMMA ResponsibleStep ==
  ASSUME TypeOK, Controllers, Responsible, [Next]_vars
  PROVE  Responsible'
<1>0. \A d \in Devices : \A p : Answers(d, p) => Answers(d, p)'
  BY StillAnswers
<1>1. ASSUME NEW d \in Devices, NEW k, k = form'[d], k # Closed
      PROVE  LiveOn(d, Parent[k])'
  <2>1. CASE live \subseteq live' /\ (k = form[d] \/ LiveOn(d, Parent[k]))
    <3>1. LiveOn(d, Parent[k])
      BY <1>1, <2>1 DEF Responsible
    <3> QED
      BY <2>1, <3>1 DEF LiveOn
  <2>2. ASSUME NEW e \in Devices, Terminate(e) PROVE LiveOn(d, Parent[k])'
    <3>1. /\ d # e /\ k = form[d]
          /\ live' = {v \in live : v.device # e}
      BY <1>1, <2>2 DEF Terminate, TypeOK
    <3>2. LiveOn(d, Parent[k])
      BY <1>1, <3>1 DEF Responsible
    <3> QED
      BY <3>1, <3>2 DEF LiveOn
  <2> QED
    BY <1>1, <2>1, <2>2, Kinds DEF Looks, Opens, CoursesListener, RollsUp,
                                   UserWrites, Answered, Syncs
<1>2. ASSUME NEW d \in Devices, NEW i \in DOMAIN queue'[d], NEW w, w = queue'[d][i]
      PROVE  Owns(d, w)'
  <2>1. CASE \E j \in DOMAIN queue[d] : w = queue[d][j]
    <3>1. Owns(d, w)
      BY <2>1 DEF Responsible
    <3> QED
      BY <1>0, <3>1 DEF Owns
  <2>2. CASE w.op = "update" /\ w.input = Keep /\ LiveOn(d, w.doc)
    <3>1. Answers(d, w.doc)
      BY <2>2 DEF Answers
    <3> QED
      BY <1>0, <2>2, <3>1 DEF Owns
  <2>3. CASE UserWrites(d, w)
    <3>1. /\ Answers(d, Parent[w.doc])
          /\ w.op = "update" => w.grade = Keep \/ w.doc \in Assignments
      BY <2>3 DEF UserWrites, Answers
    <3> QED
      BY <1>0, <3>1 DEF Owns
  <2> QED
    BY <1>2, <2>1, <2>2, <2>3, NewWrites
<1>3. \A d \in Devices : form'[d] # Closed => LiveOn(d, Parent[form[d]])'
  BY <1>1 DEF LiveOn
<1>4. \A d \in Devices : \A i \in DOMAIN queue'[d] : Owns(d, queue[d][i])'
  BY <1>2 DEF Owns, Answers, LiveOn
<1> QED
  BY <1>3, <1>4 DEF Responsible

-----------------------------------------------------------------------------
(* The steps again, by what they do to the server, the queues and the ids. *)
LEMMA Writers ==
  ASSUME TypeOK, Controllers, Responsible, [Next]_vars
  PROVE  \/ Quiet
         \/ \E d \in Devices :
              \/ \E w \in AllWrites :
                   Issues(d, w) /\ (w.op = "set" => LiveOn(d, Parent[w.doc]))
              \/ Takes(d) \/ Drops(d)
<1>1. ASSUME NEW d \in Devices, RollsUp(d)
      PROVE  \E w \in AllWrites : Issues(d, w) /\ w.op # "set"
  <2> DEFINE v == Head(mainq[d]).view
             w == Update(v.list, Keep, RollUp(v.list, Head(mainq[d]).rows))
  <2>1. /\ w \in AllWrites /\ server' = server /\ used' = used
        /\ queue' = [queue EXCEPT ![d] = Append(queue[d], w)]
    BY <1>1 DEF RollsUp, Raises
  <2>2. w.op # "set"
    BY DEF Update
  <2> HIDE DEF w
  <2> QED
    BY <2>1, <2>2 DEF Issues
<1>2. ASSUME NEW d \in Devices, NEW w \in AllWrites, UserWrites(d, w)
      PROVE  Issues(d, w) /\ (w.op = "set" => LiveOn(d, Parent[w.doc]))
  BY <1>2 DEF UserWrites, Raises, Issues
<1>3. ASSUME NEW d \in Devices, Answered(d) PROVE Takes(d) \/ Drops(d)
  BY <1>3 DEF Answered
<1>4. ASSUME NEW d \in Devices, Syncs(d) PROVE Quiet
  BY <1>4 DEF Syncs, Raises, Quiet, TypeOK
<1>5. CASE Looks \/ \E d \in Devices : \/ \E v \in Views : Opens(d, v)
                                       \/ CoursesListener(d) \/ Terminate(d)
  BY <1>5 DEF Looks, Opens, CoursesListener, Terminate, Quiet
<1> QED
  BY <1>1, <1>2, <1>3, <1>4, <1>5, Kinds

(* AboveFirst is inductive.                                                *)
LEMMA AboveFirstStep ==
  ASSUME TypeOK, AddedOnce, Controllers, Responsible, Known, AboveFirst, [Next]_vars
  PROVE  AboveFirst'
<1> DEFINE Placed(k) ==
      /\ server[k] # Missing =>
           Parent[k] \in used /\ \A e \in Devices : \A i : ~Adding(e, i, Parent[k])
      /\ \A d \in Devices : \A j : Adding(d, j, k) =>
           /\ Parent[k] \in used
           /\ \A e \in Devices : \A i : Adding(e, i, Parent[k]) => e = d /\ i < j
<1>a. AboveFirst <=> \A k \in Docs : Parent[k] # Root => Placed(k)
  BY DEF AboveFirst
<1>b. AboveFirst' <=> \A k \in Docs : Parent[k] # Root => Placed(k)'
  BY DEF AboveFirst
<1> SUFFICES ASSUME NEW k \in Docs, Parent[k] # Root PROVE Placed(k)'
  BY <1>b
<1>0. Placed(k)
  BY <1>a
<1> PICK p : p = Parent[k]
  OBVIOUS
<1>1. p \in Docs /\ p # Root /\ p # k
  BY ParentAssumption, DocsAssumption DEF Docs, Lists
<1>2. CASE Quiet
  BY <1>0, <1>2 DEF Quiet, Adding
<1>3. ASSUME NEW d \in Devices, NEW w \in AllWrites, Issues(d, w),
             w.op = "set" => LiveOn(d, Parent[w.doc])
      PROVE  Placed(k)'
  <2>1. \A e \in Devices : \A x \in Docs : \A i :
          Adding(e, i, x)' <=>
            \/ Adding(e, i, x)
            \/ e = d /\ i = Len(queue[d]) + 1 /\ w.op = "set" /\ w.doc = x
    BY <1>3, AddingAfterIssue
  <2>2. /\ server' = server /\ used \subseteq used'
        /\ w.op = "set" => w.doc \notin used
    BY <1>3 DEF Issues
  <2>3. (server[k] # Missing => p \in used /\ \A e \in Devices : \A i : ~Adding(e, i, p))'
    BY <1>0, <1>1, <2>1, <2>2
  <2>4. ASSUME NEW e \in Devices, NEW j, Adding(e, j, k)'
        PROVE  p \in used' /\ \A f \in Devices : \A i : Adding(f, i, p)' => f = e /\ i < j
    <3>1. CASE Adding(e, j, k)
      BY <1>0, <1>1, <2>1, <2>2, <3>1
    <3>2. CASE e = d /\ j = Len(queue[d]) + 1 /\ w.op = "set" /\ w.doc = k
      <4>1. Knows(d, p)
        BY <1>1, <1>3, <3>2 DEF Known, LiveOn
      <4>2. \A f \in Devices : \A i : Adding(f, i, p)' => Adding(f, i, p)
        BY <1>1, <2>1, <3>2
      <4>3. \A i \in DOMAIN queue[d] : i < Len(queue[d]) + 1
        <5>1. queue[d] \in Seq(AllWrites)
          BY DEF TypeOK
        <5> QED
          BY <5>1
      <4> QED
        BY <2>2, <3>2, <4>1, <4>2, <4>3 DEF Knows, Adding
    <3> QED
      BY <2>1, <2>4, <3>1, <3>2
  <2> QED
    BY <2>3, <2>4
<1>4. ASSUME NEW d \in Devices, queue[d] # <<>>, used' = used,
             queue' = [queue EXCEPT ![d] = Tail(@)],
             server'[k] # Missing => server[k] # Missing \/ Adding(d, 1, k)
      PROVE  Placed(k)'
  <2>1. \A e \in Devices : \A x \in Docs : \A i :
          Adding(e, i, x)' =>
            IF e = d THEN /\ i + 1 \in DOMAIN queue[d] \ {1} /\ i \in Int
                          /\ Adding(d, i + 1, x)
                     ELSE Adding(e, i, x)
    BY <1>4, AddingAfterTail
  <2>2. \A i \in DOMAIN queue[d] : i \in Int /\ i >= 1
    <3>1. queue[d] \in Seq(AllWrites)
      BY DEF TypeOK
    <3> QED
      BY <3>1
  <2>3. (server[k] # Missing => p \in used /\ \A e \in Devices : \A i : ~Adding(e, i, p))'
    <3>1. CASE server[k] # Missing
      BY <1>0, <1>1, <1>4, <2>1, <3>1
    <3>2. CASE Adding(d, 1, k)
      <4>1. p \in used /\ \A e \in Devices : \A i : Adding(e, i, p) => e = d /\ i < 1
        BY <1>0, <3>2
      <4>2. ASSUME NEW e \in Devices, NEW i, Adding(e, i, p)' PROVE FALSE
        <5>1. e = d
          BY <1>1, <2>1, <4>1, <4>2
        <5>2. i + 1 \in DOMAIN queue[d] /\ Adding(d, i + 1, p)
          BY <1>1, <2>1, <4>2, <5>1
        <5> QED
          BY <2>2, <4>1, <5>2
      <4> QED
        BY <1>4, <4>1, <4>2
    <3> QED
      BY <1>4, <3>1, <3>2
  <2>4. ASSUME NEW e \in Devices, NEW j, Adding(e, j, k)',
               NEW f \in Devices, NEW i, Adding(f, i, p)'
        PROVE  f = e /\ i < j
    <3>1. CASE e = d
      <4>1. j \in Int /\ Adding(d, j + 1, k)
        BY <2>1, <2>4, <3>1
      <4>2. f = d
        BY <1>0, <1>1, <2>1, <2>4, <4>1
      <4>3. i \in Int /\ Adding(d, i + 1, p)
        BY <1>1, <2>1, <2>4, <4>2
      <4>4. i + 1 < j + 1
        BY <1>0, <4>1, <4>3
      <4> QED
        BY <3>1, <4>1, <4>2, <4>3, <4>4
    <3>2. CASE e # d
      <4>1. Adding(e, j, k)
        BY <2>1, <2>4, <3>2
      <4>2. CASE f = d
        <5>1. Adding(d, i + 1, p)
          BY <1>1, <2>1, <2>4, <4>2
        <5> QED
          BY <1>0, <3>2, <4>1, <5>1
      <4>3. CASE f # d
        BY <1>0, <1>1, <2>1, <2>4, <4>1, <4>3
      <4> QED
        BY <4>2, <4>3
    <3> QED
      BY <3>1, <3>2
  <2>5. \A e \in Devices : \A j : Adding(e, j, k)' => p \in used'
    <3> TAKE e \in Devices
    <3> TAKE j
    <3>1. Adding(e, j, k)' => \E i : Adding(e, i, k)
      BY <2>1
    <3> QED
      BY <1>0, <1>4, <3>1
  <2> QED
    BY <2>3, <2>4, <2>5
<1>5. ASSUME NEW d \in Devices, Takes(d) PROVE Placed(k)'
  <2>1. server'[k] # Missing => server[k] # Missing \/ Adding(d, 1, k)
    BY <1>5, TakenWrite
  <2> QED
    BY <1>4, <1>5, <2>1 DEF Takes
<1>6. ASSUME NEW d \in Devices, Drops(d) PROVE Placed(k)'
  BY <1>4, <1>6 DEF Drops
<1> QED
  BY <1>2, <1>3, <1>5, <1>6, Writers

-----------------------------------------------------------------------------
(* w decides the grade of p.                                               *)
Decides(w, p) == w.doc = p /\ (w.op # "update" \/ w.grade # Keep)

LEMMA GradingIsIn ==
  ASSUME NEW q \in Seq(AllWrites), NEW p, Grading(q, p) # {}
  PROVE  /\ LastOf(Grading(q, p)) \in Grading(q, p)
         /\ LastOf(Grading(q, p)) \in 1 .. Len(q)
         /\ \A i \in Grading(q, p) : i <= LastOf(Grading(q, p))
<1> DEFINE G == Grading(q, p)
<1>1. Len(q) \in Nat /\ DOMAIN q = 1 .. Len(q) /\ G \in SUBSET (1 .. Len(q))
  BY DEF Grading
<1> HIDE DEF G
<1>2. G # {}
  BY DEF G
<1>3. LastOf(G) \in G /\ \A i \in G : i <= LastOf(G)
  BY <1>1, <1>2, LastOfIsLast
<1>4. LastOf(G) \in 1 .. Len(q)
  BY <1>1, <1>3
<1> QED
  BY <1>3, <1>4 DEF G

(* The last of the writes that decide a grade, where it is known.          *)
LEMMA LastGradingIs ==
  ASSUME NEW q \in Seq(AllWrites), NEW p, NEW i \in DOMAIN q,
         Decides(q[i], p), \A j \in DOMAIN q : j > i => ~Decides(q[j], p)
  PROVE  Grading(q, p) # {} /\ LastGrading(q, p) = q[i]
<1>1. i \in Grading(q, p)
  BY DEF Grading, Decides
<1> PICK m : m = LastOf(Grading(q, p))
  OBVIOUS
<1>2. m \in Grading(q, p) /\ i <= m /\ m \in 1 .. Len(q)
  BY <1>1, GradingIsIn
<1>3. m \in DOMAIN q /\ Decides(q[m], p)
  BY <1>2 DEF Grading, Decides
<1>4. i \in Int /\ m \in Int /\ ~(m > i)
  BY <1>2, <1>3
<1>5. m = i
  BY <1>2, <1>4
<1> QED
  BY <1>1, <1>5 DEF LastGrading

(* ... after a write was appended ...                                      *)
LEMMA GradingAfterAppend ==
  ASSUME NEW q \in Seq(AllWrites), NEW w \in AllWrites, NEW p
  PROVE  /\ Decides(w, p) =>
              Grading(Append(q, w), p) # {} /\ LastGrading(Append(q, w), p) = w
         /\ ~Decides(w, p) =>
              /\ Grading(Append(q, w), p) = Grading(q, p)
              /\ Grading(q, p) # {} =>
                   LastGrading(Append(q, w), p) = LastGrading(q, p)
<1> DEFINE n == Len(q)
<1> PICK r : r = Append(q, w)
  OBVIOUS
<1>1. /\ n \in Nat /\ DOMAIN q = 1 .. n
      /\ r \in Seq(AllWrites) /\ DOMAIN r = 1 .. (n + 1)
      /\ \A i \in 1 .. n : r[i] = q[i]
      /\ r[n + 1] = w
  OBVIOUS
<1> HIDE DEF n
<1>2. ASSUME Decides(w, p) PROVE Grading(r, p) # {} /\ LastGrading(r, p) = w
  <2>1. n + 1 \in DOMAIN r /\ \A j \in DOMAIN r : ~(j > n + 1)
    BY <1>1
  <2> QED
    BY <1>1, <1>2, <2>1, LastGradingIs
<1>3. ASSUME ~Decides(w, p)
      PROVE  /\ Grading(r, p) = Grading(q, p)
             /\ Grading(q, p) # {} => LastGrading(r, p) = LastGrading(q, p)
  <2>1. Grading(r, p) = Grading(q, p)
    <3>1. \A i : i \in Grading(r, p) <=> i \in 1 .. (n + 1) /\ Decides(r[i], p)
      BY <1>1 DEF Grading, Decides
    <3>2. \A i : i \in Grading(q, p) <=> i \in 1 .. n /\ Decides(q[i], p)
      BY <1>1 DEF Grading, Decides
    <3>3. \A i : i \in 1 .. (n + 1) <=> i \in 1 .. n \/ i = n + 1
      BY <1>1
    <3> QED
      BY <1>1, <1>3, <3>1, <3>2, <3>3
  <2>2. ASSUME Grading(q, p) # {} PROVE LastGrading(r, p) = LastGrading(q, p)
    <3>1. LastOf(Grading(q, p)) \in 1 .. n
      BY <1>1, <2>2, GradingIsIn DEF n
    <3> QED
      BY <1>1, <2>1, <3>1 DEF LastGrading
  <2> QED
    BY <2>1, <2>2
<1> QED
  BY <1>2, <1>3

(* ... and after the first was taken off.                                  *)
LEMMA GradingAfterTail ==
  ASSUME NEW q \in Seq(AllWrites), q # <<>>, NEW p
  PROVE  /\ Grading(Tail(q), p) # {} =>
              Grading(q, p) # {} /\ LastGrading(Tail(q), p) = LastGrading(q, p)
         /\ Grading(q, p) # {} /\ Grading(Tail(q), p) = {} =>
              Decides(Head(q), p) /\ LastGrading(q, p) = Head(q)
<1> DEFINE n == Len(q)
<1> PICK t, h : t = Tail(q) /\ h = Head(q)
  OBVIOUS
<1>1. /\ n \in Nat /\ n > 0 /\ DOMAIN q = 1 .. n
      /\ t \in Seq(AllWrites) /\ DOMAIN t = 1 .. (n - 1)
      /\ \A i \in 1 .. (n - 1) : t[i] = q[i + 1]
      /\ q[1] = h
  OBVIOUS
<1>a. Len(t) = n - 1
  OBVIOUS
<1> HIDE DEF n
<1>2. \A i \in 1 .. n : i = 1 \/ (i - 1 \in 1 .. (n - 1) /\ t[i - 1] = q[i])
  BY <1>1
<1>3. /\ \A i : i \in Grading(t, p) <=> i \in 1 .. (n - 1) /\ Decides(t[i], p)
      /\ \A i : i \in Grading(q, p) <=> i \in 1 .. n /\ Decides(q[i], p)
  BY <1>1 DEF Grading, Decides
<1>4. ASSUME Grading(t, p) # {}
      PROVE  Grading(q, p) # {} /\ LastGrading(t, p) = LastGrading(q, p)
  <2> PICK m : m = LastOf(Grading(t, p))
    OBVIOUS
  <2>1. /\ m \in 1 .. (n - 1) /\ Decides(t[m], p)
        /\ \A i \in Grading(t, p) : i <= m
    BY <1>1, <1>3, <1>4, GradingIsIn
  <2>2. m + 1 \in 1 .. n /\ q[m + 1] = t[m]
    BY <1>1, <2>1
  <2>3. ASSUME NEW j \in 1 .. n, j > m + 1 PROVE ~Decides(q[j], p)
    <3>1. j - 1 \in 1 .. (n - 1) /\ t[j - 1] = q[j] /\ ~(j - 1 <= m)
      BY <1>1, <1>2, <2>1, <2>3
    <3> QED
      BY <1>3, <2>1, <3>1
  <2>4. Grading(q, p) # {} /\ LastGrading(q, p) = q[m + 1]
    <3>1. \A j \in DOMAIN q : j > m + 1 => ~Decides(q[j], p)
      BY <1>1, <2>3
    <3> QED
      BY <1>1, <2>1, <2>2, <3>1, LastGradingIs
  <2> QED
    BY <2>2, <2>4 DEF LastGrading
<1>5. ASSUME Grading(q, p) # {}, Grading(t, p) = {}
      PROVE  Decides(h, p) /\ LastGrading(q, p) = h
  <2>1. \A j \in 1 .. n : j > 1 => ~Decides(q[j], p)
    <3> SUFFICES ASSUME NEW j \in 1 .. n, j > 1 PROVE ~Decides(q[j], p)
      OBVIOUS
    <3>1. j - 1 \in 1 .. (n - 1) /\ t[j - 1] = q[j]
      BY <1>1, <1>2
    <3> QED
      BY <1>3, <1>5, <3>1
  <2>2. Decides(q[1], p)
    BY <1>1, <1>3, <1>5, <2>1
  <2>3. LastGrading(q, p) = q[1]
    BY <1>1, <2>1, <2>2, LastGradingIs
  <2> QED
    BY <1>1, <2>2, <2>3
<1> QED
  BY <1>4, <1>5

-----------------------------------------------------------------------------
(* What a controller's rows were if it is still to be shown nothing new.   *)
LEMMA ShownAfterRaises ==
  ASSUME TypeOK, live' = live, NEW d \in Devices, NEW q, NEW c, NEW pending, NEW due,
         Raises(d, q, c, pending, due), NEW p, LiveOn(d, p), Shown(d, p)'
  PROVE  /\ Rows(d, p)' = Rows(d, p)
         /\ \A v \in live : v.device = d /\ v.list = p =>
              NoneFor(pending, v) /\ table'[v] # NotLoaded
<1>1. \A v \in live : v.device = d /\ v.list = p =>
        table'[v] # NotLoaded /\ NoneFor(mainq'[d], v)
  BY DEF Shown
<1>2. queue'[d] = q /\ cache'[d] = c
  BY OthersAfterRaises
<1>3. ASSUME NEW v \in live, v.device = d, v.list = p
      PROVE  Snapshot(q, c, p) = Rows(d, p) /\ NoneFor(pending, v)
  BY <1>1, <1>3 DEF Raises
<1>4. PICK v \in live : v.device = d /\ v.list = p
  BY DEF LiveOn
<1>5. Rows(d, p)' = Rows(d, p)
  BY <1>2, <1>3, <1>4 DEF Rows
<1> QED
  BY <1>1, <1>3, <1>5

(* Where d has shown all it was sent of p after a step, it had before, and *)
(* has the same rows; or the step is its roll-up of these rows.            *)
SameGrading(q, r, p) ==
  /\ Grading(q, p) # {} <=> Grading(r, p) # {}
  /\ Grading(r, p) # {} => LastGrading(q, p) = LastGrading(r, p)

RolledNow(d, p) ==
  Grading(queue[d], p) # {} /\ RollsUpTo(LastGrading(queue[d], p), p, Rows(d, p))

LEMMA StepAt ==
  ASSUME TypeOK, Controllers, Responsible, UpToDate, Known, [Next]_vars,
         NEW d \in Devices, NEW p \in Courses \cup Categories,
         LiveOn(d, p)', Shown(d, p)'
  PROVE  /\ LiveOn(d, p) /\ Rows(d, p)' = Rows(d, p)
         /\ \/ RolledNow(d, p)'
            \/ Shown(d, p) /\ SameGrading(queue'[d], queue[d], p)
            \/ /\ Shown(d, p) /\ Answered(d)
               /\ queue[d] # <<>> /\ queue'[d] = Tail(queue[d])
<1> DEFINE Goal ==
      /\ LiveOn(d, p) /\ Rows(d, p)' = Rows(d, p)
      /\ \/ RolledNow(d, p)'
         \/ Shown(d, p) /\ SameGrading(queue'[d], queue[d], p)
         \/ /\ Shown(d, p) /\ Answered(d)
            /\ queue[d] # <<>> /\ queue'[d] = Tail(queue[d])
<1> SUFFICES Goal
  OBVIOUS
<1>0. p # Root /\ p \in Docs /\ queue[d] \in Seq(AllWrites)
  BY DocsAssumption DEF Docs, TypeOK
<1>1. ASSUME LiveOn(d, p)' => LiveOn(d, p),
             queue'[d] = queue[d], cache'[d] = cache[d],
             \A v \in live : v.device = d /\ v.list = p =>
               /\ v \in live'
               /\ table'[v] = table[v]
               /\ NoneFor(mainq'[d], v) => NoneFor(mainq[d], v)
      PROVE  Goal
  <2>1. LiveOn(d, p) /\ Rows(d, p)' = Rows(d, p)
    BY <1>1 DEF Rows
  <2>2. Shown(d, p)
    BY <1>1 DEF Shown
  <2>3. SameGrading(queue'[d], queue[d], p)
    BY <1>1 DEF SameGrading
  <2> QED
    BY <2>1, <2>2, <2>3
<1>2. ASSUME NEW e \in Devices \ {d}, NEW q, NEW c, NEW pending, NEW due,
             Raises(e, q, c, pending, due), live' = live,
             \A v \in live : v.device = d => table'[v] = table[v]
      PROVE  Goal
  <2>1. queue'[d] = queue[d] /\ cache'[d] = cache[d] /\ mainq'[d] = mainq[d]
    BY <1>2, OthersAfterRaises
  <2>2. LiveOn(d, p)' => LiveOn(d, p)
    BY <1>2 DEF LiveOn
  <2> QED
    BY <1>1, <1>2, <2>1, <2>2
<1>3. ASSUME NEW q, NEW c, NEW due,
             Raises(d, q, c, mainq[d], due), live' = live, table' = table
      PROVE  /\ LiveOn(d, p) /\ Rows(d, p)' = Rows(d, p)
             /\ Shown(d, p) /\ queue'[d] = q
  <2>1. LiveOn(d, p)
    BY <1>3 DEF LiveOn
  <2>2. /\ Rows(d, p)' = Rows(d, p)
        /\ \A v \in live : v.device = d /\ v.list = p =>
             NoneFor(mainq[d], v) /\ table'[v] # NotLoaded
    BY <1>3, <2>1, ShownAfterRaises
  <2> QED
    BY <1>3, <2>1, <2>2, OthersAfterRaises DEF Shown
<1>4. CASE Looks
  BY <1>1, <1>4 DEF Looks, LiveOn
<1>5. ASSUME NEW e \in Devices, NEW u \in Views, Opens(e, u) PROVE Goal
  <2>1. /\ u \notin live /\ u.device = e /\ live' = live \cup {u}
        /\ queue' = queue /\ cache' = cache /\ table' = table
        /\ \/ mainq' = [mainq EXCEPT ![e] = Append(@, Event(u, Rows(e, u.list)))]
           \/ mainq' = mainq
    BY <1>5 DEF Opens
  <2>2. ~(u.device = d /\ u.list = p)
    <3>1. table[u] = NotLoaded
      BY <2>1 DEF Controllers
    <3> QED
      BY <2>1, <3>1 DEF Shown
  <2>3. LiveOn(d, p)' => LiveOn(d, p)
    BY <2>1, <2>2 DEF LiveOn
  <2>4. \A v : NoneFor(mainq'[d], v) => NoneFor(mainq[d], v)
    <3> DEFINE x == Event(u, Rows(e, u.list))
    <3>1. mainq[d] \in Seq(Events(d)) /\ DOMAIN mainq = Devices
      BY DEF TypeOK
    <3> HIDE DEF x
    <3>2. mainq'[d] = mainq[d] \/ mainq'[d] = Append(mainq[d], x)
      BY <2>1, <3>1 DEF x
    <3>3. \A i \in DOMAIN mainq[d] : i \in DOMAIN mainq'[d] /\ mainq'[d][i] = mainq[d][i]
      <4> HIDE DEF Events
      <4> QED
        BY <3>1, <3>2
    <3> QED
      BY <3>3 DEF NoneFor
  <2> QED
    BY <1>1, <2>1, <2>3, <2>4
<1>6. ASSUME NEW e \in Devices, mainq[e] # <<>>
      PROVE  /\ Head(mainq[e]).view \in live /\ Head(mainq[e]).view.device = e
             /\ \A v : NoneFor(Tail(mainq[e]), v) /\ v # Head(mainq[e]).view
                         => NoneFor(mainq[e], v)
             /\ \A v : NoneFor(Tail(mainq[e]), v) /\ v = Head(mainq[e]).view
                         => LastFor(mainq[e], v, Head(mainq[e]).rows)
  <2>1. mainq[e] \in Seq(Events(e))
    BY DEF TypeOK
  <2>2. Head(mainq[e]) \in Events(e)
    <3> HIDE DEF Events
    <3> QED
      BY <1>6, <2>1
  <2>3. Head(mainq[e]).view \in live /\ Head(mainq[e]).view.device = e
    BY <2>2 DEF Events
  <2>4. ASSUME NEW v
        PROVE  /\ NoneFor(mainq[e], v) <=> NoneFor(Tail(mainq[e]), v) /\ Head(mainq[e]).view # v
               /\ NoneFor(Tail(mainq[e]), v) /\ Head(mainq[e]).view = v
                    => LastFor(mainq[e], v, Head(mainq[e]).rows)
    BY <1>6, <2>1, ForAfterTail
  <2> QED
    BY <2>3, <2>4
<1>7. ASSUME NEW e \in Devices, CoursesListener(e) PROVE Goal
  <2> PICK h : h = Head(mainq[e])
    OBVIOUS
  <2>1. /\ mainq[e] # <<>> /\ h.view.list = Root
        /\ table' = [table EXCEPT ![h.view] = h.rows]
        /\ mainq' = [mainq EXCEPT ![e] = Tail(@)]
        /\ live' = live /\ queue' = queue /\ cache' = cache
    BY <1>7 DEF CoursesListener
  <2>2. \A v \in live : v.device = d /\ v.list = p =>
               /\ table'[v] = table[v]
               /\ NoneFor(mainq'[d], v) => NoneFor(mainq[d], v)
    <3> SUFFICES ASSUME NEW v \in live, v.device = d, v.list = p
                 PROVE  /\ table'[v] = table[v]
                        /\ NoneFor(mainq'[d], v) => NoneFor(mainq[d], v)
      OBVIOUS
    <3>1. v # h.view
      BY <1>0, <2>1
    <3>2. mainq'[d] = mainq[d] \/ (d = e /\ mainq'[d] = Tail(mainq[d]))
      BY <2>1 DEF TypeOK
    <3>3. table'[v] = table[v]
      BY <2>1, <3>1 DEF TypeOK
    <3> QED
      BY <1>6, <2>1, <3>1, <3>2, <3>3
  <2>3. LiveOn(d, p)' => LiveOn(d, p)
    BY <2>1 DEF LiveOn
  <2> QED
    BY <1>1, <2>1, <2>2, <2>3
<1>8. ASSUME NEW e \in Devices, RollsUp(e) PROVE Goal
  <2> PICK h : h = Head(mainq[e])
    OBVIOUS
  <2> DEFINE w == Update(h.view.list, Keep, RollUp(h.view.list, h.rows))
  <2>1. /\ mainq[e] # <<>> /\ live' = live /\ w \in AllWrites
        /\ h.view.list \in Courses \cup Categories
        /\ table' = [table EXCEPT ![h.view] = h.rows]
        /\ Raises(e, Append(queue[e], w), cache[e], Tail(mainq[e]), {})
    BY <1>8 DEF RollsUp
  <2>2. w.op = "update" /\ w.doc = h.view.list /\ w.grade = RollUp(h.view.list, h.rows)
    BY DEF Update
  <2> HIDE DEF w
  <2>3. CASE e # d
    <3>1. \A v \in live : v.device = d => table'[v] = table[v]
      BY <1>6, <2>1, <2>3 DEF TypeOK
    <3> QED
      BY <1>2, <2>1, <2>3, <3>1
  <2>4. CASE e = d
    <3>1. LiveOn(d, p)
      BY <2>1 DEF LiveOn
    <3>2. /\ Rows(d, p)' = Rows(d, p)
          /\ \A v \in live : v.device = d /\ v.list = p =>
               NoneFor(Tail(mainq[d]), v) /\ table'[v] # NotLoaded
      BY <2>1, <2>4, <3>1, ShownAfterRaises
    <3>3. queue'[d] = Append(queue[d], w)
      BY <2>1, <2>4, OthersAfterRaises
    <3>4. CASE h.view.list = p
      <4>1. h.view \in live /\ h.view.device = d /\ LastFor(mainq[d], h.view, h.rows)
        BY <1>6, <2>1, <2>4, <3>2, <3>4
      <4>2. h.rows = Rows(d, p)
        BY <3>4, <4>1 DEF UpToDate
      <4>3. h.rows \in Snapshots(p)
        BY <2>1, <2>4, <3>4, HandlerInput
      <4>4. w.grade # Keep
        BY <2>2, <3>4, <4>3, RollUpIsNotKeep
      <4>5. Decides(w, p)
        BY <2>2, <3>4, <4>4 DEF Decides
      <4>6. Grading(queue'[d], p) # {} /\ LastGrading(queue'[d], p) = w
        BY <1>0, <2>1, <3>3, <4>5, GradingAfterAppend
      <4>7. RollsUpTo(w, p, Rows(d, p))
        BY <2>2, <3>4, <4>2 DEF RollsUpTo
      <4>8. RolledNow(d, p)'
        BY <3>2, <4>6, <4>7 DEF RolledNow, RollsUpTo
      <4> QED
        BY <3>1, <3>2, <4>8
    <3>5. CASE h.view.list # p
      <4>1. ~Decides(w, p)
        BY <2>2, <3>5 DEF Decides
      <4>2. SameGrading(queue'[d], queue[d], p)
        BY <1>0, <2>1, <3>3, <4>1, GradingAfterAppend DEF SameGrading
      <4>3. \A v \in live : v.device = d /\ v.list = p =>
              table[v] # NotLoaded /\ NoneFor(mainq[d], v)
        <5> SUFFICES ASSUME NEW v \in live, v.device = d, v.list = p
                     PROVE  table[v] # NotLoaded /\ NoneFor(mainq[d], v)
          OBVIOUS
        <5>1. v # h.view
          BY <3>5
        <5>2. table'[v] = table[v]
          BY <2>1, <5>1 DEF TypeOK
        <5> QED
          BY <1>6, <2>1, <2>4, <3>2, <5>1, <5>2
      <4> QED
        BY <3>1, <3>2, <4>2, <4>3 DEF Shown
    <3> QED
      BY <3>4, <3>5
  <2> QED
    BY <2>3, <2>4
<1>9. ASSUME NEW e \in Devices, NEW w \in AllWrites, UserWrites(e, w) PROVE Goal
  <2>1. CASE e # d
    BY <1>2, <1>9, <2>1 DEF UserWrites
  <2>2. CASE e = d
    <3>1. /\ LiveOn(d, p) /\ Rows(d, p)' = Rows(d, p)
          /\ Shown(d, p) /\ queue'[d] = Append(queue[d], w)
      BY <1>3, <1>9, <2>2 DEF UserWrites
    <3>2. CASE ~Decides(w, p)
      <4>1. SameGrading(queue'[d], queue[d], p)
        BY <1>0, <3>1, <3>2, GradingAfterAppend DEF SameGrading
      <4> QED
        BY <3>1, <4>1
    <3>3. CASE Decides(w, p)
      <4>1. w.op # "set"
        <5>1. p \in used
          BY <1>0, <3>1 DEF Known, LiveOn, Knows
        <5> QED
          BY <1>9, <3>3, <5>1 DEF UserWrites, Decides
      <4>2. w.op # "update"
        BY <1>9, <3>3, DocsAssumption DEF UserWrites, Decides
      <4>3. w.op = "delete"
        BY <4>1, <4>2, WriteOf, WriteShape
      <4>4. Grading(queue'[d], p) # {} /\ LastGrading(queue'[d], p) = w
        BY <1>0, <3>1, <3>3, GradingAfterAppend
      <4>5. RolledNow(d, p)'
        BY <4>3, <4>4 DEF RolledNow, RollsUpTo
      <4> QED
        BY <3>1, <4>5
    <3> QED
      BY <3>2, <3>3
  <2> QED
    BY <2>1, <2>2
<1>10. ASSUME NEW e \in Devices, Answered(e) PROVE Goal
  <2>1. CASE e # d
    BY <1>2, <1>10, <2>1 DEF Answered
  <2>2. CASE e = d
    BY <1>3, <1>10, <2>2 DEF Answered, Takes, Drops
  <2> QED
    BY <2>1, <2>2
<1>11. ASSUME NEW e \in Devices, Syncs(e) PROVE Goal
  <2>1. CASE e # d
    BY <1>2, <1>11, <2>1 DEF Syncs
  <2>2. CASE e = d
    <3>1. /\ LiveOn(d, p) /\ Rows(d, p)' = Rows(d, p)
          /\ Shown(d, p) /\ queue'[d] = queue[d]
      BY <1>3, <1>11, <2>2 DEF Syncs
    <3> QED
      BY <3>1 DEF SameGrading
  <2> QED
    BY <2>1, <2>2
<1>12. ASSUME NEW e \in Devices, Terminate(e) PROVE Goal
  <2>1. /\ live' = {v \in live : v.device # e} /\ queue' = queue /\ cache' = cache
        /\ mainq' = [mainq EXCEPT ![e] = <<>>]
        /\ table' = [v \in Views |-> IF v.device = e THEN NotLoaded ELSE table[v]]
    BY <1>12 DEF Terminate
  <2>2. e # d /\ LiveOn(d, p)
    BY <2>1 DEF LiveOn
  <2>3. \A v \in live : v.device = d => v \in live' /\ table'[v] = table[v]
    BY <2>1, <2>2 DEF TypeOK
  <2>4. mainq'[d] = mainq[d]
    BY <2>1, <2>2 DEF TypeOK
  <2>5. Shown(d, p) /\ Rows(d, p)' = Rows(d, p)
    BY <2>1, <2>3, <2>4 DEF Shown, Rows
  <2> QED
    BY <2>1, <2>2, <2>5 DEF SameGrading
<1> QED
  BY <1>4, <1>5, <1>7, <1>8, <1>9, <1>10, <1>11, <1>12, Kinds


(* LastRollUp is inductive.                                                *)
LEMMA LastRollUpStep ==
  ASSUME TypeOK, Controllers, Responsible, UpToDate, Known, LastRollUp, [Next]_vars
  PROVE  LastRollUp'
<1> SUFFICES ASSUME NEW d \in Devices, NEW p \in Courses \cup Categories,
                    LiveOn(d, p)', Shown(d, p)', Grading(queue'[d], p) # {}
             PROVE  RollsUpTo(LastGrading(queue[d], p), p, Rows(d, p))'
  BY DEF LastRollUp
<1>1. LiveOn(d, p) /\ Rows(d, p)' = Rows(d, p)
  BY StepAt
<1>2. SUFFICES RollsUpTo(LastGrading(queue'[d], p), p, Rows(d, p))
  BY <1>1 DEF RollsUpTo
<1>3. CASE RolledNow(d, p)'
  BY <1>1, <1>3 DEF RolledNow, RollsUpTo
<1>4. CASE Shown(d, p) /\ SameGrading(queue'[d], queue[d], p)
  BY <1>1, <1>4 DEF SameGrading, LastRollUp
<1>5. CASE Shown(d, p) /\ queue[d] # <<>> /\ queue'[d] = Tail(queue[d])
  <2>1. queue[d] \in Seq(AllWrites)
    BY DEF TypeOK
  <2>2. Grading(queue[d], p) # {} /\ LastGrading(queue'[d], p) = LastGrading(queue[d], p)
    BY <1>5, <2>1, GradingAfterTail
  <2> QED
    BY <1>1, <1>5, <2>2 DEF LastRollUp
<1> QED
  BY <1>3, <1>4, <1>5, StepAt

-----------------------------------------------------------------------------
(* A collection without rows rolls up to 0, in a category.                 *)
LEMMA NoMarks ==
  ASSUME NEW p \in Categories, NEW rows, DOMAIN rows = {}
  PROVE  RollUp(p, rows) = 0
<1> DEFINE f == MarksOf(rows)
           F(g) == [s \in SUBSET {} |->
                      IF s = {} THEN 0
                      ELSE f[CHOOSE x \in s : TRUE].credit
                             + g[s \ {CHOOSE x \in s : TRUE}]]
           z == [s \in SUBSET {} |-> 0]
           iter == CHOOSE g : g = F(g)
<1>1. z = F(z)
  OBVIOUS
<1>2. iter = F(iter)
  <2> HIDE DEF F, z
  <2> QED
    BY <1>1
<1>3. iter[{}] = 0
  <2> HIDE DEF iter
  <2> QED
    BY <1>2
<1>4. DOMAIN f = {}
  BY DEF MarksOf
<1>5. MapThenSumSet(LAMBDA a : f[a].credit, {}) = 0
  BY <1>3 DEF MapThenSumSet, MapThenFoldSet
<1>6. CategoryGrade(f) = 0
  BY <1>4, <1>5 DEF CategoryGrade
<1> QED
  BY <1>6, DocsAssumption DEF RollUp

(* A grade is the roll-up of what is below it, as long as neither changes. *)
LEMMA RolledUpSame ==
  ASSUME NEW a, NEW b, NEW p \in Courses \cup Categories,
         a[p].grade = b[p].grade, \A k \in Children[p] : a[k] = b[k],
         RolledUp(a, p)
  PROVE  RolledUp(b, p)
<1>1. [k \in Children[p] |-> Overlay(<<>>, a[k], k)]
        = [k \in Children[p] |-> Overlay(<<>>, b[k], k)]
  OBVIOUS
<1>2. Snapshot(<<>>, a, p) = Snapshot(<<>>, b, p)
  BY <1>1, Zenon DEF Snapshot
<1> QED
  BY <1>2 DEF RolledUp

(* A write of a form or a listener names a field.                          *)
LEMMA UpdateNames ==
  ASSUME NEW k \in Docs, NEW w \in Writes(k), w.op = "update"
  PROVE  /\ w.input # Keep \/ w.grade # Keep
         /\ k \in Assignments => w.input # Keep
<1>1. \A x \in Doc(k) : x.input # Keep /\ x.grade # Keep
  BY SentinelAssumption DEF Documents
<1>2. CASE k \in Assignments
  <2>1. \E x \in Doc(k) : w = Update(k, x.input, x.grade)
    BY <1>2, DocsAssumption DEF Writes, Set, Delete
  <2> QED
    BY <1>1, <2>1 DEF Update
<1>3. CASE k \notin Assignments
  <2>1. \E x \in Doc(k) : w = Update(k, x.input, Keep) \/ w = Update(k, Keep, x.grade)
    BY <1>3 DEF Writes, Set, Delete, Docs
  <2> QED
    BY <1>1, <1>3, <2>1 DEF Update
<1> QED
  BY <1>2, <1>3

-----------------------------------------------------------------------------
(* GradeHasAuthor, for one p: an author stays one until the server takes   *)
(* its last roll-up, which is right then.                                  *)
Author(d, p) ==
  LiveOn(d, p) /\ (Behind(d, p) \/ server[p].grade = RollUp(p, Rows(d, p)))

LEMMA AuthorStays ==
  ASSUME TypeOK, Controllers, Responsible, UpToDate, Known, [Next]_vars,
         NEW d \in Devices, NEW p \in Courses \cup Categories,
         Author(d, p), LiveOn(d, p)', server'[p].grade = server[p].grade,
         ~(Answered(d) /\ Decides(Head(queue[d]), p))
  PROVE  Author(d, p)'
<1>1. CASE ~Shown(d, p)'
  BY <1>1 DEF Author, Behind
<1>2. CASE RolledNow(d, p)'
  BY <1>2 DEF RolledNow, Author, Behind
<1>3. ASSUME Rows(d, p)' = Rows(d, p), Shown(d, p),
             Grading(queue[d], p) # {} => Grading(queue'[d], p) # {}
      PROVE  Author(d, p)'
  BY <1>3 DEF Author, Behind
<1>4. CASE Shown(d, p)' /\ Shown(d, p) /\ SameGrading(queue'[d], queue[d], p)
  BY <1>3, <1>4, StepAt DEF SameGrading
<1>5. CASE /\ Shown(d, p)' /\ Shown(d, p) /\ Answered(d)
           /\ queue[d] # <<>> /\ queue'[d] = Tail(queue[d])
  <2>1. queue[d] \in Seq(AllWrites)
    BY DEF TypeOK
  <2>2. Grading(queue[d], p) # {} => Grading(queue'[d], p) # {}
    BY <1>5, <2>1, GradingAfterTail
  <2> QED
    BY <1>3, <1>5, <2>2, StepAt
<1> QED
  BY <1>1, <1>2, <1>4, <1>5, StepAt

(* The server takes a roll-up of d, or its new p, while d looks at p.      *)
LEMMA AuthorIsTaken ==
  ASSUME GInv, [Next]_vars,
         NEW d \in Devices, NEW p \in Courses \cup Categories,
         Takes(d), Decides(Head(queue[d]), p), server'[p] # Missing,
         LiveOn(d, p), LiveOn(d, p)'
  PROVE  Author(d, p)'
<1>0. /\ TypeOK /\ Controllers /\ Responsible /\ UpToDate /\ Known /\ LastRollUp
      /\ queue[d] \in Seq(AllWrites)
  BY DEF GInv, TypeOK
<1> PICK w : w = Head(queue[d])
  OBVIOUS
<1>1. /\ queue[d] # <<>> /\ queue'[d] = Tail(queue[d])
      /\ w.doc = p /\ (w.op # "update" \/ w.grade # Keep)
  BY <1>0 DEF Takes, TypeOK, Decides
<1>2. /\ w.op # "delete" /\ server'[p] = Apply(w, server[p])
      /\ w.op = "update" => server[p] # Missing
  BY <1>0, <1>1, TakenWrite
<1>3. CASE ~Shown(d, p)' \/ Grading(queue'[d], p) # {}
  BY <1>3 DEF Author, Behind
<1>4. CASE Shown(d, p)' /\ Grading(queue'[d], p) = {}
  <2>1. Rows(d, p)' = Rows(d, p) /\ ~RolledNow(d, p)'
    BY <1>0, <1>4, StepAt DEF RolledNow
  <2>2. Shown(d, p)
    BY <1>0, <1>4, <2>1, StepAt
  <2>3. Grading(queue[d], p) # {}
    <3>1. 1 \in Grading(queue[d], p)
      BY <1>0, <1>1, QueueAfter DEF Grading
    <3> QED
      BY <3>1
  <2>4. LastGrading(queue[d], p) = w
    BY <1>0, <1>1, <1>4, <2>3, GradingAfterTail
  <2>5. w.op = "update" /\ w.grade = RollUp(p, Rows(d, p))
    BY <1>0, <1>2, <2>2, <2>3, <2>4 DEF LastRollUp, RollsUpTo
  <2>6. server'[p].grade = w.grade
    BY <1>1, <1>2, <2>5 DEF Apply
  <2> QED
    BY <2>1, <2>5, <2>6 DEF Author
<1> QED
  BY <1>3, <1>4

(* A new p is taken that nobody looks at: it has no rows yet.              *)
LEMMA NewIsRolledUp ==
  ASSUME GInv, NEW d \in Devices, NEW p \in Courses \cup Categories,
         Takes(d), Head(queue[d]).doc = p, Head(queue[d]).op = "set"
  PROVE  RolledUp(server, p)'
<1>0. /\ TypeOK /\ AboveFirst /\ FirstGrades /\ p # Root /\ p \in Docs
      /\ server \in Databases
  BY DocsAssumption DEF GInv, TypeOK, Docs
<1> PICK w : w = Head(queue[d])
  OBVIOUS
<1>1. /\ Adding(d, 1, p) /\ queue[d][1] = w /\ 1 \in DOMAIN queue[d]
      /\ \A k \in Docs \ {p} : server'[k] = server[k]
      /\ server'[p] = Apply(w, server[p])
  BY <1>0, TakenWrite, QueueAfter DEF Takes
<1>2. ASSUME NEW k \in Children[p] PROVE server'[k] = Missing
  <2>1. k \in Docs /\ Parent[k] = p /\ p \in Lists
    BY <1>2 DEF Children, Lists
  <2>2. k # p
    BY <1>0, <2>1, ParentAssumption, DocsAssumption DEF Docs
  <2>3. server[k] = Missing
    BY <1>0, <1>1, <2>1 DEF AboveFirst
  <2> QED
    BY <1>1, <2>1, <2>2, <2>3
<1>3. \A k \in Children[p] : Overlay(<<>>, server'[k], k) = Missing
  BY <1>2 DEF Overlay, Replacing
<1>4. DOMAIN Snapshot(<<>>, server', p) = {}
  BY <1>3 DEF Snapshot
<1>5. server'[p].grade = w.grade
  BY <1>1 DEF Apply
<1>6. CASE p \in Categories
  <2>1. w.grade = 0
    BY <1>0, <1>1, <1>6 DEF FirstGrades
  <2>2. RollUp(p, Snapshot(<<>>, server', p)) = 0
    BY <1>4, <1>6, NoMarks
  <2> QED
    BY <1>5, <2>1, <2>2 DEF RolledUp
<1>7. CASE p \in Courses
  <2>1. w.grade = Missing
    BY <1>0, <1>1, <1>7 DEF FirstGrades
  <2> QED
    BY <1>4, <1>5, <1>7, <2>1 DEF RolledUp
<1> QED
  BY <1>6, <1>7

(* Where nobody looks, nothing changes below.                              *)
LEMMA BelowStays ==
  ASSUME GInv, NEW d \in Devices, NEW p \in Courses \cup Categories, Takes(d),
         \A e \in Devices : ~Answers(e, p)
  PROVE  Parent[Head(queue[d]).doc] # p
<1> SUFFICES ASSUME Parent[Head(queue[d]).doc] = p PROVE FALSE
  OBVIOUS
<1>0. TypeOK /\ Controllers /\ Responsible /\ p # Root
  BY DocsAssumption DEF GInv, Docs
<1> PICK w : w = Head(queue[d])
  OBVIOUS
<1>1. /\ w.doc \in Docs /\ w \in Writes(w.doc)
      /\ 1 \in DOMAIN queue[d] /\ queue[d][1] = w
  BY <1>0, TakenWrite, QueueAfter DEF Takes
<1>2. Owns(d, w)
  BY <1>0, <1>1 DEF Responsible
<1>3. w.op = "update" /\ w.input = Keep
  BY <1>0, <1>2 DEF Owns
<1>4. w.grade # Keep /\ w.doc \notin Assignments
  BY <1>1, <1>3, UpdateNames
<1>5. Answers(d, w.doc) /\ w.doc # Root
  BY <1>1, <1>2, <1>3, <1>4, DocsAssumption DEF Owns
<1>6. LiveOn(d, w.doc) => LiveOn(d, Parent[w.doc])
  BY <1>0, <1>5 DEF Controllers, LiveOn
<1> QED
  BY <1>5, <1>6 DEF Answers

(* GradeHasAuthor is inductive.                                            *)
LEMMA GradeHasAuthorStep ==
  ASSUME GInv, [Next]_vars
  PROVE  GradeHasAuthor'
<1>0. /\ TypeOK /\ AddedOnce /\ Controllers /\ Responsible /\ UpToDate /\ Known
      /\ LastRollUp /\ GradeHasAuthor
  BY DEF GInv
<1> SUFFICES ASSUME NEW p \in Courses \cup Categories,
                    server'[p] # Missing, Attended(p)'
             PROVE  (IF \E d \in Devices : LiveOn(d, p)
                     THEN \E d \in Devices : Author(d, p)
                     ELSE RolledUp(server, p))'
  BY DEF GradeHasAuthor, Author
<1>1. p \in Docs /\ p # Root
  BY DocsAssumption DEF Docs
<1>2. \A d \in Devices : Answers(d, p)' => LiveOn(d, p)'
  BY DEF Answers, Attended, LiveOn
<1>3. \A d \in Devices : Answers(d, p) => LiveOn(d, p)'
  BY <1>0, <1>2, StillAnswers
<1>4. ASSUME NEW d \in Devices, LiveOn(d, p)', ~LiveOn(d, p) PROVE Author(d, p)'
  <2>1. ~Shown(d, p)'
    BY <1>0, <1>4, StepAt
  <2> QED
    BY <1>4, <2>1 DEF Author, Behind
<1>5. SUFFICES ASSUME \A d \in Devices : LiveOn(d, p)' => LiveOn(d, p)
               PROVE  (IF \E d \in Devices : LiveOn(d, p)
                       THEN \E d \in Devices : Author(d, p)
                       ELSE RolledUp(server, p))'
  BY <1>4
<1>6. \A d \in Devices : Answers(d, p) => LiveOn(d, p)
  BY <1>3, <1>5
<1>7. Attended(p)
  BY <1>6 DEF Attended, Answers, LiveOn
<1>8. ASSUME NEW d \in Devices, Takes(d), Decides(Head(queue[d]), p)
      PROVE  (IF \E e \in Devices : LiveOn(e, p)
              THEN \E e \in Devices : Author(e, p)
              ELSE RolledUp(server, p))'
  <2> PICK w : w = Head(queue[d])
    OBVIOUS
  <2>1. /\ w.doc = p /\ (w.op = "update" => w.grade # Keep)
        /\ w.op \in {"set", "update", "delete"} /\ w.op # "delete"
        /\ w.op = "set" => Adding(d, 1, p)
        /\ 1 \in DOMAIN queue[d] /\ queue[d][1] = w
    <3>1. w.doc = p /\ (w.op = "update" => w.grade # Keep) /\ queue[d] # <<>>
      BY <1>8 DEF Takes, Decides
    <3>2. 1 \in DOMAIN queue[d] /\ queue[d][1] = w
      BY <1>0, <3>1, QueueAfter
    <3> QED
      BY <1>0, <1>8, <3>1, <3>2, TakenWrite DEF Takes, Decides
  <2>2. CASE LiveOn(d, p)
    BY <1>3, <1>8, <2>2, AuthorIsTaken DEF Answers
  <2>3. CASE ~LiveOn(d, p)
    <3>1. w.op = "set"
      <4>1. Owns(d, w)
        BY <1>0, <2>1 DEF Responsible
      <4> QED
        BY <1>6, <2>1, <2>3, <4>1, DocsAssumption DEF Owns
    <3>2. \A e \in Devices : ~LiveOn(e, p)
      <4> SUFFICES ASSUME NEW e \in Devices, LiveOn(e, p) PROVE FALSE
        OBVIOUS
      <4>1. Knows(e, p)
        BY <1>0, <1>1 DEF Known, LiveOn
      <4> QED
        BY <2>1, <2>3, <3>1, <4>1 DEF Knows
    <3>3. RolledUp(server, p)'
      BY <1>8, <2>1, <3>1, NewIsRolledUp
    <3> QED
      BY <1>5, <3>2, <3>3
  <2> QED
    BY <2>2, <2>3
<1>9. ASSUME \A d \in Devices : ~(Takes(d) /\ Decides(Head(queue[d]), p))
      PROVE  (IF \E d \in Devices : LiveOn(d, p)
              THEN \E d \in Devices : Author(d, p)
              ELSE RolledUp(server, p))'
  <2>1. server[p] # Missing /\ server'[p].grade = server[p].grade
    <3>1. CASE server' = server
      BY <3>1
    <3>2. ASSUME NEW d \in Devices, Takes(d)
          PROVE  server[p] # Missing /\ server'[p].grade = server[p].grade
      <4> PICK w : w = Head(queue[d])
        OBVIOUS
      <4>1. CASE w.doc # p
        BY <1>0, <1>1, <3>2, <4>1, TakenWrite
      <4>2. CASE w.doc = p
        <5>1. w.op = "update" /\ w.grade = Keep
          BY <1>9, <3>2, <4>2 DEF Decides
        <5>2. server[p] # Missing /\ server'[p] = Apply(w, server[p])
          BY <1>0, <3>2, <4>2, <5>1, TakenWrite
        <5> QED
          BY <5>1, <5>2 DEF Apply
      <4> QED
        BY <4>1, <4>2
    <3> QED
      BY <1>0, <3>1, <3>2, Writers DEF Quiet, Issues, Drops
  <2>2. \A d \in Devices : ~(Answered(d) /\ Decides(Head(queue[d]), p))
    BY <1>9, <2>1 DEF Answered, Decides
  <2>3. CASE \E d \in Devices : LiveOn(d, p)
    <3>1. PICK d \in Devices : Author(d, p)
      BY <1>0, <1>7, <2>1, <2>3 DEF GradeHasAuthor, Author
    <3>2. LiveOn(d, p)'
      BY <1>3, <3>1 DEF Author, Answers
    <3>3. Author(d, p)'
      BY <1>0, <2>1, <2>2, <3>1, <3>2, AuthorStays
    <3> QED
      BY <3>2, <3>3
  <2>4. CASE \A d \in Devices : ~LiveOn(d, p)
    <3>1. RolledUp(server, p)
      BY <1>0, <1>7, <2>1, <2>4 DEF GradeHasAuthor
    <3>2. \A k \in Children[p] : server'[k] = server[k]
      <4>1. CASE server' = server
        BY <4>1
      <4>2. ASSUME NEW d \in Devices, Takes(d), NEW k \in Children[p]
            PROVE  server'[k] = server[k]
        <5>1. Parent[Head(queue[d]).doc] # p
          BY <1>6, <2>4, <4>2, BelowStays
        <5>2. k \in Docs /\ Parent[k] = p
          BY <4>2, Levels DEF Lists
        <5> QED
          BY <1>0, <4>2, <5>1, <5>2, TakenWrite
      <4> QED
        BY <1>0, <4>1, <4>2, Writers DEF Quiet, Issues, Drops
    <3>3. RolledUp(server', p)
      BY <2>1, <3>1, <3>2, RolledUpSame
    <3>4. RolledUp(server, p)'
      BY <3>3 DEF RolledUp
    <3> QED
      BY <1>5, <2>4, <3>4
  <2> QED
    BY <2>3, <2>4
<1> QED
  BY <1>8, <1>9


-----------------------------------------------------------------------------
(* GInv holds at first ...                                                 *)
LEMMA GInvInit == Init => GInv
<1> SUFFICES ASSUME Init PROVE GInv
  OBVIOUS
<1>1. TypeOK /\ AddedOnce
  BY InitType, AddedOnceInit
<1>2. /\ live = {} /\ server = Seed
      /\ \A d \in Devices : /\ queue[d] = <<>> /\ mainq[d] = <<>> /\ stack[d] = <<>>
                            /\ form[d] = Closed /\ \A k \in Docs : cache[d][k] = Missing
      /\ \A v \in Views : table[v] = NotLoaded
      /\ used = {k \in Docs : Seed[k] # Missing
                                \/ \E j \in Docs : Parent[j] = k /\ Seed[j] # Missing}
  BY DEF Init
<1>3. Controllers /\ UpToDate /\ Known
  BY <1>2 DEF Controllers, UpToDate, Known
<1>4. AboveFirst
  <2>1. \A k \in Docs : Parent[k] # Root => Parent[k] \in Docs
    BY ParentAssumption DEF Lists, Docs
  <2> QED
    BY <1>2, <2>1 DEF AboveFirst, Adding
<1>5. FirstGrades /\ Responsible
  BY <1>2 DEF FirstGrades, Responsible
<1>6. LastRollUp /\ GradeHasAuthor
  BY <1>2, SeedAssumption DEF LastRollUp, GradeHasAuthor, LiveOn
<1> QED
  BY <1>1, <1>3, <1>4, <1>5, <1>6 DEF GInv

(* ... and is inductive.                                                   *)
LEMMA GInvStep == GInv /\ [Next]_vars => GInv'
<1> SUFFICES ASSUME GInv, [Next]_vars PROVE GInv'
  OBVIOUS
<1>1. /\ TypeOK /\ AddedOnce /\ Controllers /\ UpToDate /\ Known /\ AboveFirst
      /\ FirstGrades /\ Responsible /\ LastRollUp
  BY DEF GInv
<1>2. TypeOK' /\ AddedOnce' /\ Controllers' /\ Responsible'
  BY <1>1, NextType, AddedOnceStep, ControllersStep, ResponsibleStep
<1>3. UpToDate' /\ Known' /\ AboveFirst' /\ FirstGrades' /\ LastRollUp'
  BY <1>1, UpToDateStep, KnownStep, AboveFirstStep, FirstGradesStep, LastRollUpStep
<1>4. GradeHasAuthor'
  BY GradeHasAuthorStep
<1> QED
  BY <1>2, <1>3, <1>4 DEF GInv

(* Every state of the app and its server satisfies what the theorems       *)
(* below rest on: the invariant of the listeners' snapshots and roll-ups.  *)
THEOREM GInvAlways == Spec => []GInv
<1>1. Init => GInv
  BY GInvInit
<1>2. GInv /\ [Next]_vars => GInv'
  BY GInvStep
<1> QED
  BY <1>1, <1>2, PTL DEF Spec

(* When everything has settled, a device that listens to a collection has  *)
(* the rows of the server there.                                           *)
LEMMA SettledRows ==
  ASSUME TypeOK, Settled, NEW v \in live
  PROVE  Rows(v.device, v.list) = Snapshot(<<>>, server, v.list)
<1> PICK d \in Devices : d = v.device
  BY DEF TypeOK, Views
<1>1. queue[d] = <<>> /\ \A k \in Docs : Watched(d, k) => cache[d][k] = server[k]
  BY DEF Settled
<1>2. \A k \in Children[v.list] : cache[d][k] = server[k]
  <2> TAKE k \in Children[v.list]
  <2>1. k \in Docs /\ Parent[k] = v.list
    BY LiveView, Levels
  <2> QED
    BY <1>1, <2>1 DEF Watched
<1>3. [k \in Children[v.list] |-> Overlay(<<>>, cache[d][k], k)]
        = [k \in Children[v.list] |-> Overlay(<<>>, server[k], k)]
  BY <1>2
<1>4. Snapshot(<<>>, cache[d], v.list) = Snapshot(<<>>, server, v.list)
  BY <1>3, Zenon DEF Snapshot
<1> QED
  BY <1>1, <1>4 DEF Rows

(* ... and has shown them.                                                 *)
LEMMA SettledShown ==
  ASSUME TypeOK, Settled, NEW v \in live
  PROVE  table[v] # NotLoaded /\ NoneFor(mainq[v.device], v)
<1> PICK d \in Devices : d = v.device
  BY DEF TypeOK, Views
<1>1. mainq[d] = <<>> /\ ~Awaiting(v)
  BY DEF Settled, Handling
<1> QED
  BY <1>1 DEF Awaiting, NoneFor

(* CoursesListener, CategoriesListener and AssignmentsListener set the     *)
(* array of their controller to the rows they are given: when nothing is   *)
(* under way, every controller of every device shows what is on the server.*)
THEOREM ScreensSettle == Spec => []SettledScreens
<1>1. GInv => SettledScreens
  <2> SUFFICES ASSUME GInv, Settled, NEW v \in live
               PROVE  table[v] = Snapshot(<<>>, server, v.list)
    BY DEF SettledScreens
  <2>1. TypeOK /\ UpToDate
    BY DEF GInv
  <2>2. table[v] # NotLoaded /\ NoneFor(mainq[v.device], v)
    BY <2>1, SettledShown
  <2>3. table[v] = Rows(v.device, v.list)
    BY <2>1, <2>2 DEF UpToDate
  <2> QED
    BY <2>1, <2>3, SettledRows
<1> QED
  BY <1>1, GInvAlways, PTL

(* The roll-ups the listeners of all devices write, in whatever order the  *)
(* server takes them among the users' writes, leave the right grades when  *)
(* nothing is under way.                                                   *)
THEOREM GradesSettle == Spec => []SettledGrades
<1>1. GInv => SettledGrades
  <2> SUFFICES ASSUME GInv, Settled, NEW p \in Courses \cup Categories,
                      server[p] # Missing, Attended(p)
               PROVE  RolledUp(server, p)
    BY DEF SettledGrades
  <2>1. TypeOK /\ GradeHasAuthor
    BY DEF GInv
  <2>2. CASE \A d \in Devices : ~LiveOn(d, p)
    BY <2>1, <2>2 DEF GradeHasAuthor
  <2>3. CASE \E d \in Devices : LiveOn(d, p)
    <3>1. PICK d \in Devices : Author(d, p)
      BY <2>1, <2>3 DEF GradeHasAuthor, Author
    <3>2. PICK v \in live : v.device = d /\ v.list = p
      BY <3>1 DEF Author, LiveOn
    <3>3. Grading(queue[d], p) = {}
      BY DEF Settled, Grading
    <3>4. Shown(d, p)
      BY <2>1, SettledShown DEF Shown
    <3>5. server[p].grade = RollUp(p, Rows(d, p))
      BY <3>1, <3>3, <3>4 DEF Author, Behind
    <3>6. Rows(d, p) = Snapshot(<<>>, server, p)
      BY <2>1, <3>2, SettledRows
    <3> QED
      BY <3>5, <3>6 DEF RolledUp
  <2> QED
    BY <2>2, <2>3
<1> QED
  BY <1>1, GInvAlways, PTL

-----------------------------------------------------------------------------
(* One device has the account for itself: its copies are then those of the *)
(* server, as far as it has any.                                           *)
Alone == \A d, e \in Devices : d = e

CopiesAreCurrent ==
  \A d \in Devices : \A k \in Docs : cache[d][k] \in {Missing, server[k]}

LEMMA CopiesAreCurrentStep ==
  ASSUME Alone, GInv, CopiesAreCurrent, [Next]_vars
  PROVE  CopiesAreCurrent'
<1> SUFFICES ASSUME NEW d \in Devices, NEW k \in Docs
             PROVE  cache'[d][k] \in {Missing, server'[k]}
  BY DEF CopiesAreCurrent
<1>1. cache[d][k] \in {Missing, server[k]}
  BY DEF CopiesAreCurrent
<1>2. TypeOK /\ AddedOnce /\ Controllers /\ Responsible
  BY DEF GInv
<1>3. CASE cache' = cache /\ server' = server
  BY <1>1, <1>3
<1>4. ASSUME NEW q, NEW c, NEW pending, NEW due, Raises(d, q, c, pending, due)
      PROVE  cache'[d] = c
  BY <1>2, <1>4, OthersAfterRaises
<1>5. CASE RollsUp(d) \/ \E w \in AllWrites : UserWrites(d, w)
  <2>1. cache'[d] = cache[d] /\ server' = server
    BY <1>4, <1>5 DEF RollsUp, UserWrites
  <2> QED
    BY <1>1, <2>1
<1>6. CASE Answered(d)
  <2> DEFINE w == Head(queue[d])
             c == [cache[d] EXCEPT ![w.doc] = Apply(w, @)]
  <2>1. CASE Drops(d) /\ Raises(d, Tail(queue[d]), cache[d], mainq[d], {})
    <3>1. cache'[d] = cache[d] /\ server' = server
      BY <1>4, <2>1 DEF Drops
    <3> QED
      BY <1>1, <3>1
  <2>2. CASE Takes(d) /\ Raises(d, Tail(queue[d]), c, mainq[d], {})
    <3>1. cache[d] \in Databases /\ DOMAIN cache[d] = Docs
      BY <1>2 DEF TypeOK, Databases
    <3>2. cache'[d][k] = IF k = w.doc THEN Apply(w, cache[d][k]) ELSE cache[d][k]
      <4>1. c[k] = IF k = w.doc THEN Apply(w, cache[d][k]) ELSE cache[d][k]
        BY <3>1
      <4> HIDE DEF c
      <4>2. cache'[d] = c
        BY <1>4, <2>2
      <4> QED
        BY <4>1, <4>2
    <3>3. /\ w.op \in {"set", "update", "delete"}
          /\ w.op = "set" <=> Adding(d, 1, w.doc)
          /\ \A j \in Docs \ {w.doc} : server'[j] = server[j]
          /\ server'[w.doc] = Apply(w, server[w.doc])
      BY <1>2, <2>2, TakenWrite
    <3>4. w.op = "set" /\ k = w.doc => server[k] = Missing
      BY <1>2, <3>3 DEF AddedOnce
    <3> HIDE DEF w
    <3>5. CASE k # w.doc
      BY <1>1, <3>2, <3>3, <3>5
    <3>6. CASE k = w.doc /\ cache[d][k] = server[k]
      BY <3>2, <3>3, <3>6
    <3>7. CASE k = w.doc /\ cache[d][k] = Missing /\ w.op # "set"
      BY <3>2, <3>3, <3>7 DEF Apply
    <3> QED
      BY <1>1, <3>4, <3>5, <3>6, <3>7
  <2> QED
    BY <1>6, <2>1, <2>2 DEF Answered
<1>7. CASE Syncs(d)
  <2>1. PICK due : Raises(d, queue[d], Fresh(d), mainq[d], due)
    BY <1>7 DEF Syncs
  <2>2. cache'[d] = Fresh(d) /\ server' = server
    BY <1>4, <1>7, <2>1 DEF Syncs
  <2>3. Fresh(d)[k] \in {server[k], cache[d][k]}
    BY DEF Fresh
  <2> QED
    BY <1>1, <2>2, <2>3
<1>8. CASE \/ Looks \/ CoursesListener(d) \/ Terminate(d)
            \/ \E v \in Views : Opens(d, v)
  BY <1>3, <1>8 DEF Looks, Opens, CoursesListener, Terminate
<1>9. \A e \in Devices : e = d
  BY DEF Alone
<1> QED
  BY <1>2, <1>5, <1>6, <1>7, <1>8, <1>9, Kinds

(* What a device sees below p are its rows for p.                          *)
LEMMA LocalRows ==
  ASSUME TypeOK, NEW d \in Devices, NEW p \in Lists
  PROVE  Snapshot(<<>>, Local(d), p) = Rows(d, p)
<1>1. ASSUME NEW k \in Children[p]
      PROVE  Overlay(<<>>, Local(d)[k], k) = Overlay(queue[d], cache[d][k], k)
  <2>1. k \in Docs
    BY Levels
  <2>2. queue[d] \in Seq(AllWrites) /\ cache[d][k] \in Doc(k) \cup {Missing}
    BY <2>1 DEF TypeOK, Databases
  <2> DEFINE x == Overlay(queue[d], cache[d][k], k)
  <2>3. Local(d)[k] = x
    BY <2>1 DEF Local
  <2>4. x \in Doc(k) \cup {Missing}
    BY <2>1, <2>2, OverlayType
  <2> HIDE DEF x
  <2>5. Overlay(<<>>, x, k) = IF x = Missing THEN Missing
                              ELSE [input |-> x.input, grade |-> x.grade]
    BY DEF Overlay, Replacing, Inputting, Grading
  <2>6. x # Missing => x = [input |-> x.input, grade |-> x.grade]
    BY <2>1, <2>4, DocShape
  <2> QED
    BY <2>3, <2>5, <2>6 DEF x
<1>2. [k \in Children[p] |-> Overlay(<<>>, Local(d)[k], k)]
        = [k \in Children[p] |-> Overlay(queue[d], cache[d][k], k)]
  BY <1>1, Zenon
<1> QED
  BY <1>2, Zenon DEF Rows, Snapshot

(* The grade a device sees in a document that is there for it is that of   *)
(* the last queued write that decides it, or else that of its copy.        *)
LEMMA LocalGrade ==
  ASSUME TypeOK, NEW d \in Devices, NEW p \in Docs, Local(d)[p] # Missing
  PROVE  IF Grading(queue[d], p) = {}
         THEN cache[d][p] # Missing /\ Local(d)[p].grade = cache[d][p].grade
         ELSE /\ LastGrading(queue[d], p).op # "delete"
              /\ Local(d)[p].grade = LastGrading(queue[d], p).grade
<1> DEFINE q == queue[d]
           G == Grading(q, p)
           R == Replacing(q, p)
<1>1. q \in Seq(AllWrites) /\ R \subseteq G
  BY DEF TypeOK, Replacing, Grading
<1>2. Local(d)[p] = Overlay(q, cache[d][p], p)
  BY DEF Local
<1>3. /\ ~(IF R = {} THEN cache[d][p] = Missing ELSE q[LastOf(R)].op = "delete")
      /\ Local(d)[p].grade = IF G = {} THEN cache[d][p].grade ELSE q[LastOf(G)].grade
  BY <1>2 DEF Overlay
<1>4. CASE G = {}
  BY <1>1, <1>3, <1>4
<1>5. ASSUME G # {}, q[LastOf(G)].op = "delete" PROVE FALSE
  <2>1. /\ LastOf(G) \in G /\ LastOf(G) \in 1 .. Len(q)
        /\ \A i \in G : i <= LastOf(G)
    BY <1>1, <1>5, GradingIsIn
  <2>2. LastOf(G) \in R
    BY <1>5, <2>1 DEF Replacing, Grading
  <2>3. R \in SUBSET (1 .. Len(q)) /\ Len(q) \in Nat
    BY <1>1 DEF Replacing
  <2>4. LastOf(R) \in R /\ \A i \in R : i <= LastOf(R)
    <3> HIDE DEF R, G, q
    <3> QED
      BY <2>2, <2>3, LastOfIsLast
  <2>5. LastOf(R) = LastOf(G)
    <3> HIDE DEF R, G, q
    <3>1. LastOf(R) <= LastOf(G) /\ LastOf(G) <= LastOf(R)
      BY <1>1, <2>1, <2>2, <2>4
    <3>2. LastOf(R) \in 1 .. Len(q)
      BY <2>3, <2>4, Zenon
    <3> QED
      BY <2>1, <3>1, <3>2
  <2> QED
    BY <1>3, <1>5, <2>2, <2>5
<1> QED
  BY <1>3, <1>4, <1>5 DEF LastGrading

(* A device that has the account for itself, with as many controllers on a *)
(* collection as were opened and killed as often as one likes: as soon as  *)
(* no handler is due, what it shows above a collection it listens to is    *)
(* the roll-up of what it shows in it, whatever waits for the server.      *)
THEOREM GradesIdle == ASSUME Alone PROVE Spec => []IdleGrades
<1>1. Init => CopiesAreCurrent
  BY DEF Init, CopiesAreCurrent
<1>2. GInv /\ CopiesAreCurrent /\ [Next]_vars => CopiesAreCurrent'
  BY CopiesAreCurrentStep
<1>3. GInv /\ CopiesAreCurrent => IdleGrades
  <2> SUFFICES ASSUME GInv, CopiesAreCurrent, NEW d \in Devices, ~Handling(d),
                      NEW p \in Courses \cup Categories, Local(d)[p] # Missing,
                      NEW v \in live, v.device = d, v.list = p
               PROVE  RolledUp(Local(d), p)
    BY DEF IdleGrades
  <2>1. TypeOK /\ LastRollUp /\ GradeHasAuthor
    BY DEF GInv
  <2>2. p \in Docs /\ p \in Lists
    BY Levels DEF Lists, Docs
  <2>3. LiveOn(d, p) /\ Shown(d, p)
    BY DEF LiveOn, Shown, Handling, Awaiting, NoneFor
  <2>4. Local(d)[p].grade = RollUp(p, Rows(d, p))
    <3>1. CASE Grading(queue[d], p) # {}
      BY <2>1, <2>2, <2>3, <3>1, LocalGrade DEF LastRollUp, RollsUpTo
    <3>2. CASE Grading(queue[d], p) = {}
      <4>1. cache[d][p] # Missing /\ Local(d)[p].grade = cache[d][p].grade
        BY <2>1, <2>2, <3>2, LocalGrade
      <4>2. server[p] = cache[d][p]
        BY <2>2, <4>1 DEF CopiesAreCurrent
      <4>3. Attended(p)
        BY DEF Attended, Alone
      <4>4. server[p].grade = RollUp(p, Rows(d, p))
        <5>1. ~Behind(d, p)
          BY <2>3, <3>2 DEF Behind
        <5> QED
          BY <2>1, <2>3, <4>1, <4>2, <4>3, <5>1 DEF GradeHasAuthor, Alone
      <4> QED
        BY <4>1, <4>2, <4>4
    <3> QED
      BY <3>1, <3>2
  <2> QED
    BY <2>1, <2>2, <2>4, LocalRows DEF RolledUp
<1> QED
  BY <1>1, <1>2, <1>3, GInvAlways, PTL DEF Spec
=============================================================================
