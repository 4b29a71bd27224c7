----------------------------- MODULE GradeKeep -----------------------------
(***************************************************************************)
(* The GradeKeep iOS app on several devices that share one account.        *)
(*                                                                         *)
(* A user's documents form a tree: courses, the categories of a course,    *)
(* the assignments of a category.  Each table view controller listens to   *)
(* one collection.  The categories listener stores the grade of the course *)
(* above it, the assignments listener the grade of the category above it,  *)
(* so a derived grade is written by whichever devices happen to be looking.*)
(* Nothing removes a listener: a controller that was popped keeps          *)
(* listening, and writing, until its process ends.                         *)
(***************************************************************************)
EXTENDS Grades, Firestore, SequencesExt

CONSTANTS
  Devices, Courses, Categories, Assignments,
  Root,          \* the list of all courses
  Parent,        \* the document (or Root) whose collection holds a document
  Marks,         \* the credit / totalcredit pairs the form may be given
  Weights,       \* the weights the form may be given
  Seed,          \* the documents on the server at first
  NotLoaded,     \* the rows of a controller that had no snapshot yet
  Closed,        \* no form is open
  MaxOpen,       \* bound: controllers of a process on the same collection
  MaxEdits,      \* bound: documents the users add, open a form for or delete
  MaxRestarts    \* bound: how often the process of each device ends

Docs  == Courses \cup Categories \cup Assignments
Lists == {Root} \cup Courses \cup Categories
Children == [list \in Lists |-> {k \in Docs : Parent[k] = list}]
Views == [device : Devices, list : Lists, nr : 1 .. MaxOpen]

ASSUME DocsAssumption ==
  /\ Courses \cap Categories = {}
  /\ Courses \cap Assignments = {}
  /\ Categories \cap Assignments = {}
  /\ Root \notin Docs
  /\ Closed \notin Docs

ASSUME ParentAssumption ==
  /\ Parent \in [Docs -> Lists]
  /\ \A c \in Courses : Parent[c] = Root
  /\ \A k \in Categories : Parent[k] \in Courses
  /\ \A a \in Assignments : Parent[a] \in Categories

ASSUME InputAssumption ==
  /\ Marks \subseteq [credit : Nat, total : Nat]
  /\ Weights \subseteq Nat /\ Weights # {}

ASSUME FinitenessAssumption == IsFiniteSet(Docs) /\ IsFiniteSet(Views)

ASSUME BoundsAssumption ==
  /\ MaxOpen \in Nat \ {0}
  /\ MaxEdits \in Nat
  /\ MaxRestarts \in [Devices -> Nat]

(***************************************************************************)
(* The values a document can hold.  Each level's grades are the values its *)
(* formula takes on what the level below can hold.                         *)
(***************************************************************************)
Tables(S, R) == UNION {[rows -> R] : rows \in SUBSET S}

AssignmentDoc ==
  {[input |-> m, grade |-> AssignmentGrade(m)] : m \in Marks}

CategoryGrades ==
  {0} \cup {CategoryGrade(marks) : marks \in Tables(Assignments, Marks)}

CategoryDoc == [input : [weight : Weights], grade : CategoryGrades]

CourseGrades ==
  {CourseGrade(cats) :
     cats \in Tables(Categories, [weight : Weights, grade : CategoryGrades])}

CourseDoc == [input : [course_grade : {0}], grade : CourseGrades \cup {Missing}]

DocIn(list) == CASE list = Root          -> CourseDoc
                 [] list \in Courses     -> CategoryDoc
                 [] list \in Categories  -> AssignmentDoc

Doc(k) == DocIn(Parent[k])

Documents == UNION {Doc(k) : k \in Docs}

(* The contents of a database: each document, if it exists, at its level.  *)
Databases == {db \in [Docs -> Documents \cup {Missing}] :
                \A k \in Docs : db[k] \in Doc(k) \cup {Missing}}

(* What the collection below list can hold.                                *)
Snapshots(list) == Tables(Children[list], DocIn(list))

AllSnapshots == UNION {Snapshots(list) : list \in Lists}

(* The writes of document k: an assignment's always carry the assgrade of  *)
(* the credit and totalcredit they write, an edit of a category leaves the *)
(* catgrade alone, and a roll-up leaves everything else alone.             *)
Writes(k) ==
  LET adds    == {Set(k, x.input, x.grade) : x \in Doc(k)}
      marks   == {Update(k, x.input, x.grade) : x \in Doc(k)}
      weights == {Update(k, x.input, Keep) : x \in Doc(k)}
      rollups == {Update(k, Keep, x.grade) : x \in Doc(k)}
  IN  {Delete(k)} \cup adds \cup (CASE k \in Courses     -> rollups
                                    [] k \in Categories  -> weights \cup rollups
                                    [] k \in Assignments -> marks)

AllWrites == UNION {Writes(k) : k \in Docs}

ASSUME SentinelAssumption ==
  /\ \A x \in Documents :
       Keep # x.input /\ Keep # x.grade /\ Missing # x.input
  /\ Missing \notin Documents
  /\ NotLoaded \notin AllSnapshots

-----------------------------------------------------------------------------
VARIABLES
  server,    \* the documents on the server
  cache,     \* cache[d]: the copies device d last synchronised
  queue,     \* queue[d]: the writes of d the server has not taken yet
  live,      \* the controllers whose snapshot listener is registered
  stack,     \* stack[d]: the navigation stack of d, empty when not running
  mainq,     \* mainq[d]: snapshots raised on d and not yet handled, each
             \*           with the controller it is for, in order
  table,     \* table[v]: the array v fills its rows from
  form,      \* form[d]: the document whose path the edit form presented
             \*          on d captured when it opened, or Closed
  used,      \* the document ids handed out so far
  edits, restarts

vars == <<server, cache, queue, live, stack, mainq, table, form, used, edits,
          restarts>>
-----------------------------------------------------------------------------
(* The rows of the collection below list, over the queued writes q and the *)
(* synchronised copies c of a device.                                      *)
Snapshot(q, c, list) ==
  LET seen == [k \in Children[list] |-> Overlay(q, c[k], k)]
  IN  [k \in {j \in DOMAIN seen : seen[j] # Missing} |-> seen[k]]

(* Something in that collection changes for d when its queue becomes q and *)
(* its copies become c.                                                    *)
RowsChange(d, q, c, list) ==
  \E k \in Children[list] :
    Overlay(q, c[k], k) # Overlay(queue[d], cache[d][k], k)

(* What the handlers compute from the rows of a snapshot.                  *)
MarksOf(rows) == [a \in DOMAIN rows |-> rows[a].input]

ShareOf(rows) ==
  [k \in DOMAIN rows |-> [weight |-> rows[k].input.weight,
                            grade  |-> rows[k].grade]]

RollUp(list, rows) == IF list \in Courses THEN CourseGrade(ShareOf(rows))
                                          ELSE CategoryGrade(MarksOf(rows))

Running(d)  == stack[d] # <<>>

(* v has registered its listener and is still without a first snapshot.    *)
Awaiting(v) ==
  /\ v \in live
  /\ table[v] = NotLoaded
  /\ \A i \in DOMAIN mainq[v.device] : mainq[v.device][i].view # v

Event(v, rows) == [view |-> v, rows |-> rows]

(* Device d now has the queued writes q and the copies c; pending are the  *)
(* snapshots it has not handled.  Each listener whose rows changed is sent *)
(* them, and so are the listeners in due, one after the other.             *)
ClientStep(d, q, c, pending, due) ==
  LET raised == {v \in live :
                   /\ v.device = d
                   /\ RowsChange(d, q, c, v.list) \/ v \in due}
  IN  /\ queue' = [queue EXCEPT ![d] = q]
      /\ cache' = [cache EXCEPT ![d] = c]
      /\ \E order \in SetToSeqs(raised) :
           mainq' = [mainq EXCEPT ![d] = pending \o
                       [i \in DOMAIN order |->
                          Event(order[i], Snapshot(q, c, order[i].list))]]

Issue(d, w, pending) == ClientStep(d, Append(queue[d], w), cache[d], pending, {})
-----------------------------------------------------------------------------
(* The process starts, or a row is tapped: the controller v is created and *)
(* its viewDidLoad registers the listener.  The first snapshot comes from  *)
(* the local copies if they have rows or the device is offline; otherwise  *)
(* it waits for the server.                                                *)
Push(d, v) ==
  LET rows == Snapshot(queue[d], cache[d], v.list)
  IN  /\ v \in Views \ live
      /\ v.device = d
      /\ \A n \in 1 .. (v.nr - 1) : [v EXCEPT !.nr = n] \in live
      /\ live' = live \cup {v}
      /\ stack' = [stack EXCEPT ![d] = Append(@, v)]
      /\ \/ mainq' = [mainq EXCEPT ![d] = Append(@, Event(v, rows))]
         \/ DOMAIN rows = {} /\ UNCHANGED mainq
      /\ UNCHANGED <<server, cache, queue, table, form, used, edits, restarts>>

Launch(d) ==
  /\ ~Running(d)
  /\ Push(d, [device |-> d, list |-> Root, nr |-> 1])

(* The controller d shows, and whether no form covers it.                  *)
Top(d) == Last(stack[d])

Visible(d) == Running(d) /\ form[d] = Closed

(* k is a row on the screen of d.                                          *)
HasRow(d, k) ==
  Visible(d) /\ table[Top(d)] # NotLoaded /\ k \in DOMAIN table[Top(d)]

ShowCategories(d, k) ==
  /\ HasRow(d, k)
  /\ k \in Courses
  /\ \E n \in 1 .. MaxOpen : Push(d, [device |-> d, list |-> k, nr |-> n])

ShowAssignments(d, k) ==
  /\ HasRow(d, k)
  /\ k \in Categories
  /\ \E n \in 1 .. MaxOpen : Push(d, [device |-> d, list |-> k, nr |-> n])

(* The back button.  The controller is popped; its listener stays.         *)
Back(d) ==
  /\ Visible(d)
  /\ Top(d).list # Root
  /\ stack' = [stack EXCEPT ![d] = SubSeq(@, 1, Len(@) - 1)]
  /\ UNCHANGED <<server, cache, queue, live, mainq, table, form, used, edits,
                 restarts>>
-----------------------------------------------------------------------------
(* The snapshot handlers, run on the main queue one at a time, in order.   *)
CoursesListener(d) ==
  /\ mainq[d] # <<>>
  /\ LET v == Head(mainq[d]).view  rows == Head(mainq[d]).rows
     IN  /\ v.list = Root
         /\ table' = [table EXCEPT ![v] = rows]
         /\ mainq' = [mainq EXCEPT ![d] = Tail(@)]
  /\ UNCHANGED <<server, cache, queue, live, stack, form, used, edits, restarts>>

(* The categories listener rolls the rows up into the cgrade of the course *)
(* they are in.                                                            *)
CategoriesListener(d) ==
  /\ mainq[d] # <<>>
  /\ LET v == Head(mainq[d]).view  rows == Head(mainq[d]).rows
     IN  /\ v.list \in Courses
         /\ table' = [table EXCEPT ![v] = rows]
         /\ Issue(d, Update(v.list, Keep, CourseGrade(ShareOf(rows))),
                  Tail(mainq[d]))
  /\ UNCHANGED <<server, live, stack, form, used, edits, restarts>>

(* MUTANT of AssignmentsListener: it returns early when there are no rows.  *)
AssignmentsListenerSkipsEmpty(d) ==
  /\ mainq[d] # <<>>
  /\ LET v == Head(mainq[d]).view  rows == Head(mainq[d]).rows
     IN  /\ v.list \in Categories
         /\ IF DOMAIN rows = {}
            THEN /\ mainq' = [mainq EXCEPT ![d] = Tail(@)]
                 /\ UNCHANGED <<cache, queue, table>>
            ELSE /\ table' = [table EXCEPT ![v] = rows]
                 /\ Issue(d, Update(v.list, Keep, CategoryGrade(MarksOf(rows))),
                          Tail(mainq[d]))
  /\ UNCHANGED <<server, live, stack, form, used, edits, restarts>>

(* MUTANT of AssignmentsListener: it rolls up the first snapshot only.     *)
AssignmentsListenerOnce(d) ==
  /\ mainq[d] # <<>>
  /\ LET v == Head(mainq[d]).view  rows == Head(mainq[d]).rows
     IN  /\ v.list \in Categories
         /\ table' = [table EXCEPT ![v] = rows]
         /\ IF table[v] = NotLoaded
            THEN Issue(d, Update(v.list, Keep, CategoryGrade(MarksOf(rows))),
                       Tail(mainq[d]))
            ELSE /\ mainq' = [mainq EXCEPT ![d] = Tail(@)]
                 /\ UNCHANGED <<cache, queue>>
  /\ UNCHANGED <<server, live, stack, form, used, edits, restarts>>

(* The assignments listener rolls the rows up into the catgrade of the     *)
(* category they are in.                                                   *)
AssignmentsListener(d) ==
  /\ mainq[d] # <<>>
  /\ LET v == Head(mainq[d]).view  rows == Head(mainq[d]).rows
     IN  /\ v.list \in Categories
         /\ table' = [table EXCEPT ![v] = rows]
         /\ Issue(d, Update(v.list, Keep, CategoryGrade(MarksOf(rows))),
                  Tail(mainq[d]))
  /\ UNCHANGED <<server, live, stack, form, used, edits, restarts>>
-----------------------------------------------------------------------------
(* One operation of a user, counted against MaxEdits.                      *)
Operation == edits < MaxEdits /\ edits' = edits + 1

(* MUTANT of AddDocument: ids that were used before are handed out again.  *)
AddDocumentReuses(d, k, input, grade) ==
  /\ Operation
  /\ Visible(d)
  /\ Parent[k] = Top(d).list
  /\ Issue(d, Set(k, input, grade), mainq[d])
  /\ used' = used \cup {k}
  /\ UNCHANGED <<server, live, stack, table, form, restarts>>

(* addDocument to the collection that d shows.  The form for a             *)
(* new document captures nothing but that path, which cannot change, and   *)
(* covers the list until it is closed: opening and confirming it is one step.     *)
AddDocument(d, k, input, grade) ==
  /\ Operation
  /\ Visible(d)
  /\ k \notin used
  /\ Parent[k] = Top(d).list
  /\ Issue(d, Set(k, input, grade), mainq[d])
  /\ used' = used \cup {k}
  /\ UNCHANGED <<server, live, stack, table, form, restarts>>

(* The form for an existing document captures the path of a row.           *)
OpenForm(d, k) ==
  /\ Operation
  /\ HasRow(d, k)
  /\ form' = [form EXCEPT ![d] = k]
  /\ UNCHANGED <<server, cache, queue, live, stack, mainq, table, used, restarts>>

EditCategoryPressed(d, k)   == k \in Categories /\ OpenForm(d, k)
EditAssignmentPressed(d, k) == k \in Assignments /\ OpenForm(d, k)

CloseForm(d) ==
  /\ form[d] # Closed
  /\ form' = [form EXCEPT ![d] = Closed]
  /\ UNCHANGED <<server, cache, queue, live, stack, mainq, table, used, edits,
                 restarts>>

(* updateData of the path the form captured when it was opened.            *)
UpdateData(d, k, input, grade) ==
  /\ form[d] = k
  /\ Issue(d, Update(k, input, grade), mainq[d])
  /\ form' = [form EXCEPT ![d] = Closed]
  /\ UNCHANGED <<server, live, stack, table, used, edits, restarts>>

(* A new course has a course_grade of 0 and no cgrade.                     *)
AddCourse(d, k) ==
  k \in Courses /\ AddDocument(d, k, [course_grade |-> 0], Missing)

AddCategory(d, k, w) ==
  k \in Categories /\ AddDocument(d, k, [weight |-> w], 0)

(* MUTANT of EditCategory: it writes the catgrade of a new category too.   *)
EditCategoryResets(d, k, w) ==
  k \in Categories /\ UpdateData(d, k, [weight |-> w], 0)

(* The weight is always written, also when only the name was changed.      *)
EditCategory(d, k, w) ==
  k \in Categories /\ UpdateData(d, k, [weight |-> w], Keep)

AddAssignment(d, k, m) ==
  k \in Assignments /\ AddDocument(d, k, m, AssignmentGrade(m))

(* MUTANT of EditAssignment: the assgrade is not computed again.           *)
EditAssignmentMarkOnly(d, k, m) ==
  k \in Assignments /\ UpdateData(d, k, m, Keep)

(* MUTANT of EditAssignment: setData, which creates what does not exist.   *)
EditAssignmentSets(d, k, m) ==
  /\ k \in Assignments
  /\ form[d] = k
  /\ Issue(d, Set(k, m, AssignmentGrade(m)), mainq[d])
  /\ form' = [form EXCEPT ![d] = Closed]
  /\ UNCHANGED <<server, live, stack, table, used, edits, restarts>>

EditAssignment(d, k, m) ==
  k \in Assignments /\ UpdateData(d, k, m, AssignmentGrade(m))

(* A row is deleted: only its document is, never what is below it.         *)
DeleteRow(d, k) ==
  /\ Operation
  /\ HasRow(d, k)
  /\ Issue(d, Delete(k), mainq[d])
  /\ UNCHANGED <<server, live, stack, table, form, used, restarts>>

DeleteCourse(d, k)     == k \in Courses /\ DeleteRow(d, k)
DeleteCategory(d, k)   == k \in Categories /\ DeleteRow(d, k)
DeleteAssignment(d, k) == k \in Assignments /\ DeleteRow(d, k)
-----------------------------------------------------------------------------
(* The server takes the oldest write of d, and d learns that it did: the   *)
(* write moves from the queue into the local copy.                         *)
Commit(d) ==
  /\ Running(d)
  /\ queue[d] # <<>>
  /\ LET w == Head(queue[d])
     IN  /\ Applicable(w, server[w.doc])
         /\ server' = [server EXCEPT ![w.doc] = Apply(w, @)]
         /\ ClientStep(d, Tail(queue[d]),
                       [cache[d] EXCEPT ![w.doc] = Apply(w, @)], mainq[d], {})
  /\ UNCHANGED <<live, stack, table, form, used, edits, restarts>>

(* The server refuses the oldest write of d, which is undone locally; the  *)
(* completion handler only logs the error.                                 *)
Reject(d) ==
  /\ Running(d)
  /\ queue[d] # <<>>
  /\ ~Applicable(Head(queue[d]), server[Head(queue[d]).doc])
  /\ ClientStep(d, Tail(queue[d]), cache[d], mainq[d], {})
  /\ UNCHANGED <<server, live, stack, table, form, used, edits, restarts>>

(* The collections d listens to are brought up to date with the server.    *)
Watched(d, k) == \E v \in live : v.device = d /\ v.list = Parent[k]

Fresh(d) == [k \in Docs |-> IF Watched(d, k) THEN server[k] ELSE cache[d][k]]

Sync(d) ==
  LET due == {v \in live : v.device = d /\ Awaiting(v)}
  IN  /\ Running(d)
      /\ Fresh(d) # cache[d] \/ due # {}
      /\ ClientStep(d, queue[d], Fresh(d), mainq[d], due)
      /\ UNCHANGED <<server, live, stack, table, form, used, edits, restarts>>

(* The process of d ends.  The queue and the copies are on disk; the       *)
(* controllers, their listeners and what these had not handled are gone.   *)
Terminate(d) ==
  /\ Running(d)
  /\ restarts[d] < MaxRestarts[d]
  /\ restarts' = [restarts EXCEPT ![d] = @ + 1]
  /\ live' = {v \in live : v.device # d}
  /\ stack' = [stack EXCEPT ![d] = <<>>]
  /\ mainq' = [mainq EXCEPT ![d] = <<>>]
  /\ table' = [v \in Views |-> IF v.device = d THEN NotLoaded ELSE table[v]]
  /\ form' = [form EXCEPT ![d] = Closed]
  /\ UNCHANGED <<server, cache, queue, used, edits>>
-----------------------------------------------------------------------------
(* Fresh installations of the app, on an account that already holds Seed.  *)
(* What was deleted from it may have left documents below it behind.       *)
Init ==
  /\ server = Seed
  /\ cache = [d \in Devices |-> [k \in Docs |-> Missing]]
  /\ queue = [d \in Devices |-> <<>>]
  /\ live = {}
  /\ stack = [d \in Devices |-> <<>>]
  /\ mainq = [d \in Devices |-> <<>>]
  /\ table = [v \in Views |-> NotLoaded]
  /\ form = [d \in Devices |-> Closed]
  /\ used = {k \in Docs : Seed[k] # Missing
                         \/ \E j \in Docs : Parent[j] = k /\ Seed[j] # Missing}
  /\ edits = 0
  /\ restarts = [d \in Devices |-> 0]

(* What may be on the main queue of d.                                     *)
Events(d) == UNION {[view : {v}, rows : Snapshots(v.list)] :
                      v \in {u \in live : u.device = d}}

(* The type of the state.  In particular an assignment on the server, in a *)
(* device's copy or in a row always shows the assgrade of its own credit   *)
(* and totalcredit, whatever the order in which edits arrive.              *)
TypeOK ==
  /\ server \in Databases
  /\ cache \in [Devices -> Databases]
  /\ queue \in [Devices -> Seq(AllWrites)]
  /\ live \subseteq Views
  /\ stack \in [Devices -> Seq(Views)]
  /\ DOMAIN mainq = Devices
  /\ \A d \in Devices : mainq[d] \in Seq(Events(d))
  /\ DOMAIN table = Views
  /\ \A v \in Views : table[v] \in Snapshots(v.list) \cup {NotLoaded}
  /\ form \in [Devices -> Docs \cup {Closed}]
  /\ used \subseteq Docs
  /\ edits \in 0 .. MaxEdits
  /\ restarts \in [Devices -> Nat]
  /\ \A d \in Devices : restarts[d] <= MaxRestarts[d]

Navigate(d) ==
  \/ Launch(d)
  \/ Back(d)
  \/ \E k \in Docs : ShowCategories(d, k) \/ ShowAssignments(d, k)

Edit(d) ==
  \/ CloseForm(d)
  \/ \E k \in Docs :
       \/ AddCourse(d, k)
       \/ \E w \in Weights : AddCategory(d, k, w) \/ EditCategory(d, k, w)
       \/ \E m \in Marks : AddAssignment(d, k, m) \/ EditAssignment(d, k, m)
       \/ EditCategoryPressed(d, k)
       \/ EditAssignmentPressed(d, k)
       \/ DeleteCourse(d, k)
       \/ DeleteCategory(d, k)
       \/ DeleteAssignment(d, k)

Listener(d) ==
  CoursesListener(d) \/ CategoriesListener(d) \/ AssignmentsListener(d)

Next ==
  \E d \in Devices :
    \/ Navigate(d) \/ Edit(d) \/ Listener(d)
    \/ Commit(d) \/ Reject(d) \/ Sync(d) \/ Terminate(d)

Spec == Init /\ [][Next]_vars

(* The main queue runs its handlers, and a running app that is online      *)
(* again and again gets its writes through and its snapshots in.  Users    *)
(* owe nothing.                                                            *)
Fairness ==
  \A d \in Devices : /\ WF_vars(Listener(d))
                     /\ WF_vars(Commit(d) \/ Reject(d))
                     /\ WF_vars(Sync(d))

FairSpec == Spec /\ Fairness
-----------------------------------------------------------------------------
(* The grade stored in p is the roll-up of the rows below p in db.  (A     *)
(* course nobody looked into yet has no cgrade at all.)                    *)
RolledUp(db, p) ==
  LET rows == Snapshot(<<>>, db, p)
  IN  \/ db[p].grade = RollUp(p, rows)
      \/ p \in Courses /\ DOMAIN rows = {} /\ db[p].grade = Missing

ASSUME SeedAssumption ==
  /\ Seed \in Databases
  /\ \A p \in Courses \cup Categories : Seed[p] # Missing => RolledUp(Seed, p)

(* Nothing is under way: no write waits for the server, no snapshot for    *)
(* its handler, and what the devices look at is up to date.                *)
Handling(d) ==
  mainq[d] # <<>> \/ \E v \in live : v.device = d /\ Awaiting(v)

Settled ==
  \A d \in Devices : /\ queue[d] = <<>>
                     /\ ~Handling(d)
                     /\ \A k \in Docs : Watched(d, k) => cache[d][k] = server[k]

(* No process that ended took a handler for p with it, unless a new        *)
(* controller of the same device looks at p again.                         *)
Attended(p) ==
  \A d \in Devices :
    restarts[d] > 0 => \E v \in live : v.device = d /\ v.list = p
-----------------------------------------------------------------------------
(***************************************************************************)
(* Safety.                                                                 *)
(***************************************************************************)

(* When everything has settled, the catgrade of every category and the     *)
(* cgrade of every course on the server are the roll-ups of what is below  *)
(* them, however the roll-ups of several devices interleaved with each     *)
(* other and with the users' writes: no stale roll-up is ever the last.    *)
SettledGrades ==
  Settled => \A p \in Courses \cup Categories :
               server[p] # Missing /\ Attended(p) => RolledUp(server, p)

(* When everything has settled, every controller, on top of its stack,     *)
(* covered or popped, has exactly the rows of its collection in its array: *)
(* a row index means the same document on every device.                    *)
SettledScreens ==
  Settled => \A v \in live : table[v] = Snapshot(<<>>, server, v.list)

(* The documents as device d sees them.                                    *)
Local(d) == [k \in Docs |-> Overlay(queue[d], cache[d][k], k)]

(* A device that has the account for itself shows right grades without     *)
(* waiting for the server: as soon as its main queue is empty, whatever    *)
(* is still queued, each document with a listener below it shows the       *)
(* roll-up of the rows the device has.                                     *)
IdleGrades ==
  \A d \in Devices :
    ~Handling(d) => \A p \in Courses \cup Categories :
                      /\ Local(d)[p] # Missing
                      /\ \E v \in live : v.device = d /\ v.list = p
                      => RolledUp(Local(d), p)

(* Ids that were handed out and are on no server and in no queue: the      *)
(* documents that were deleted.                                            *)
Gone == {k \in used :
           /\ server[k] = Missing
           /\ \A d \in Devices : \A i \in DOMAIN queue[d] :
                ~(queue[d][i].doc = k /\ queue[d][i].op = "set")}

(* A deleted document stays deleted: neither an edit form that was open    *)
(* when another device deleted it, nor a late roll-up from a listener      *)
(* still at work on it, brings it or a part of it back.                    *)
NoResurrection == [][Gone \subseteq Gone']_vars

(* What the users typed is changed by nothing but the users' own writes,   *)
(* one document at a time.                                                 *)
EntryOf(k) == {x.input : x \in Doc(k)}

Book == INSTANCE Gradebook WITH
  Entry   <- EntryOf,
  book    <- [k \in Docs |-> IF server[k] = Missing THEN Missing
                                                   ELSE server[k].input],
  retired <- Gone

BookKept == Book!Spec

(* The percentage the list of courses shows for a course is its grade.     *)
CourseRowShowsGrade ==
  Settled => \A v \in live : v.list = Root =>
               \A c \in DOMAIN table[v] :
                 table[v][c].grade \in {Missing, table[v][c].input.course_grade}

(***************************************************************************)
(* Liveness.                                                               *)
(***************************************************************************)

(* Once the users stop, the grades on the server become right and stay     *)
(* right.                                                                  *)
GradesConverge ==
  <>[](\A p \in Courses \cup Categories :
         server[p] # Missing /\ Attended(p) => RolledUp(server, p))
=============================================================================
