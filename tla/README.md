# A TLA+ model of GradeKeep

GradeKeep keeps a student's courses, the categories of each course (exams,
homework, ...) and the assignments of each category, and computes grades
bottom-up.  The program is an iOS app that talks to Cloud Firestore, plus the
beginnings of a web server.  This directory models the app: what several
devices on one account, their Firestore clients and the server do together; the
parts of the app that stand by themselves (forms, navigation, the loops of the
grades); the one web page that does something; and leveldb, the store in which
the Firestore client keeps its queue of writes and its copies of documents.

## 1. Inventory

Paths are below `src/ios/gradekeep/gradekeep/` unless they start with `src/` or
`leveldb/`, which stands for `src/ios/gradekeep/Pods/leveldb-library/`.

| Component | State | Operations | Interacts with | Modelled in |
|---|---|---|---|---|
| `AppDelegate` | none | configures Firebase at launch; the other life cycle callbacks are empty | starts the course list | `GradeKeep` |
| `CourseTableViewController` | `courses`, the rows of the last snapshot | listener, swipe to delete, tap on a row, add menu | Firestore; pushes the category list | `GradeKeep`, `Navigation` |
| `NewCourseTableViewController` | `ref`, one text field | `addCoursePressed`, `closeView` | Firestore `addDocument` | `GradeKeep` |
| `CategoryTableViewController` | `categories`, `ref` | listener **that stores the course's `cgrade`**, edit, delete, tap | Firestore; pushes the assignment list, presents the form | `GradeKeep`, `GradeLoops`, `Navigation` |
| `NewCatTableViewController` | `mode`, `ref`, two fields and the values they had | `confirmButtonPressed` (add or update), `editDidBegin`, `closeView` | Firestore `addDocument`, `updateData` | `GradeKeep`, `EntryForm` |
| `AssignmentTableViewController` | `assignments`, `ref` | listener **that stores the category's `catgrade`**, edit, delete | Firestore | `GradeKeep`, `GradeLoops`, `Navigation` |
| `NewAssTableViewController` | `mode`, `ref`, three fields and the values they had | `confirmButtonPressed` (computes `assgrade`), `editDidBegin`, `closeView` | Firestore | `GradeKeep`, `EntryForm` |
| `Structs`, the enumerations `Cat` and `Ass` | the fields of the documents | | | `GradeKeep` |
| `Main.storyboard` | the segues | | all controllers | `Navigation` |
| Firestore client and server (external) | persistent queue of writes, cached documents, active listeners; documents | latency compensation, sending, acknowledging, refusing, snapshots | all of the above; leveldb | `Firestore`, `GradeKeep` |
| `leveldb/db/db_impl.cc`, write path | queue of writers, memtables, sequence number, error | `Write`, `Get`, group commit | log, background thread | `WriterQueue`, `AtomicStore` |
| `leveldb/db/db_impl.cc`, `version_set.cc`, files | log, tables, manifest, CURRENT, live versions | open and recover, flush, compact, delete what is obsolete | file system | `DBFiles` |
| `leveldb/db/log_writer.cc`, `log_reader.cc` | blocks of fragments | `AddRecord`, `ReadRecord` | log and manifest | `LogFile` |
| `leveldb/db/version_set.cc`, levels | the tables of each level, snapshots | lookup, pick and do compactions | files | `Levels` |
| `src/js/views/addCourse.html` | the table of category rows, `counter` | add row, delete row, post | `POST /addCourse` | `AddCoursePage` |
| `src/js/app.js`, `src/js/routes` | none | static pages; `POST /addCourse` answers ok and stores nothing | | `AddCoursePage` (the post) |
| `src/js/bin/www`, other pods, plists, sketches, template tests | | | | not modelled |

leveldb is here because `GradeKeep` takes it for granted that the queue of
writes and the cache survive the end of the process (`Terminate`).  The Firestore
pod itself is a binary; `Podfile.lock` shows that it is linked with
`leveldb-library`, whose source is in the repository.

What is hard here:

* **Derived data has many writers.**  No one owns `catgrade` and `cgrade`.
  Whichever device looks at a collection writes the grade above it, from the
  snapshot it happens to have, and the last write to reach the server wins.
* **It cascades.**  A `catgrade` written by one handler triggers the listener
  on the categories, which writes a `cgrade`, maybe on another device.
* **Offline.**  Writes are visible locally at once, queued persistently, and
  sent much later; snapshots are built from stale copies plus queued writes.
* **Listeners are never removed.**  A popped controller keeps listening and
  writing until its process ends; opening the same screen twice doubles it.
* **Stale references.**  Rows, swipes and forms name documents another device
  may have deleted; a form holds values from when it opened.
* **Restarts** keep the queue and the cache and lose everything else.
* **Numbers.**  Divisions by zero, text that is no number, paths cut by length.
* **One writer logs for others.**  leveldb answers for a group of writers whose
  batches, sync options and errors differ, and works with its mutex released.
* **Crashes at any step.**  Logs, tables, manifests and CURRENT are separate
  files; every order in which they are written, synced and deleted matters.

What makes the components correct: the grades that everything settles on are
the roll-ups of what the users typed (per device, and over all devices); rows
agree with the database; what was deleted stays deleted; nothing but a user's
own writes changes what users typed; each entry is one that one user confirmed;
a roll-up and a form reach the document they are about; once the users stop, the
grades become right; and what the store answered ok is there after a crash, is
found by lookups, and was applied as a whole and in one order.

## 2. Modules

| Module | What it is |
|---|---|
| `Grades` | the three grade formulas, as operators |
| `Firestore` | external: a write, its effect on a document, and a document seen through queued writes |
| `Gradebook` | abstract specification: what an account promises about typed-in data |
| `GradeKeep` | the app on several devices: all controllers, client, server; extends `Grades` and `Firestore`, refines `Gradebook` |
| `GradeLoops` | the two listeners' loops over rows, with credits, totals and weights of zero; against `Grades` |
| `EntryForm` | the forms for categories and assignments: text fields, parsing, when confirm is enabled, what is written; edits of several devices that cross |
| `Navigation` | the screens, the segues, the menu, and the paths handed on and cut |
| `AddCoursePage` | the web page Add Course and the route behind it |
| `AtomicStore` | abstract specification: writes are atomic, in one order, answered truly |
| `WriterQueue` | leveldb's `Write` and `Get`: the queue of writers, groups, sync, the memtable; refines `AtomicStore` |
| `DBFiles` | leveldb's files: opening, recovery, flush, compaction, manifest, deletion, crashes and errors at any step |
| `LogFile` | the log format: fragments, blocks, failed appends, a cut at any byte, the reader |
| `Levels` | levels of tables: lookup, memtables pushed down, compactions, what they drop, snapshots |
| `MCGradeKeep`, `MCLoops`, `MCParts`, `MCWriters`, `MCStore`, `MCProgress` | small instances for TLC |
| `GradeKeepProofs` | theorems about `GradeKeep`, for TLAPS |
| `EntryFormProofs`, `GradeLoopsProofs`, `AddCoursePageProofs` | theorems about `EntryForm`, `GradeLoops` and `AddCoursePage` |
| `WriterQueueProofs` | theorems about `WriterQueue` |
| `DBFilesProofs` | theorems about `DBFiles` |
| `LogFileProofs` | theorems about `LogFile` |
| `FlattenProofs` | what `FlattenSeq` returns; greatest elements; induction on the natural numbers, for a set of them |

`MCParts`, `MCWriters` and `MCProgress` put modules that share nothing into one
run, `MCWriters` and `MCStore` several instances of one module: a variable
(`part`, `setting`) says which of them a behaviour is of, and the variables of
the others do not change.  Each property is about its own part.
`MCGradeKeep` extends `GradeKeep`, `MCLoops` `GradeLoops`, `MCParts` `EntryForm`,
`MCWriters` `WriterQueue`, `MCStore` `DBFiles` and `MCProgress` `LogFile`, so that
the properties checked there are literally the ones proved.

### How `GradeKeep` corresponds to the code

*Documents.*  Ids are model values; `Parent` gives the document whose
collection holds each one.  A document is `[input, grade]`: what a form wrote
(`credit`/`totalcredit`, `weight`, `course_grade`) and the derived grade
(`assgrade`, `catgrade`, `cgrade`).  Names and the sort order are left out:
no decision of the code depends on them, and the index of a row stands for the
document in that row.  Grades are whole hundredths of a percent, which is what
`round(10000 * x) / 100` leaves.

*Controllers.*  A *view* is a controller: its device, its collection, and a
number that tells controllers on the same collection apart.  `live` are those
whose listener is registered, `stack[d]` the navigation stack, `table[v]` the
array the rows come from (`courses`, `categories`, `assignments`).  `Back` pops
the stack and leaves `live` alone, because nothing in the code keeps the
registration that `addSnapshotListener` returns.

*Handlers.*  Firestore calls listeners on the main queue, one at a time.
`mainq[d]` holds the snapshots raised and not yet handled.  One handler run is
one action (`CoursesListener`, `CategoriesListener`, `AssignmentsListener`): it
replaces the array and, in the last two, issues the roll-up.  Between the
moment a snapshot is raised and the moment it is handled anything may happen.

*Writes.*  `Issue` appends to the persistent queue and raises snapshots for
every listener of the device whose rows changed (latency compensation); their
order is arbitrary.  `Commit` and `Reject` are the server taking or refusing
the oldest write.  `updateData` of a document that does not exist is refused
and undone locally; the completion handlers only print.  `Sync` brings the
watched collections up to date, and answers listeners that wait for their
first snapshot.

*A new listener* gets its first snapshot at once from the local copies when
these have rows, or when the device is offline; otherwise it may have to wait
for the server.  The model allows both when there are no rows.  So a device
that knows nothing about a category and is offline rolls up an empty snapshot,
as the code does.

*Forms.*  The form for a new document captures only the path of the
collection and covers the screen until it is closed, so opening and confirming
it is one step.  The edit form captures the path of a row when it opens and
writes when it is confirmed: two steps (`OpenForm`, `UpdateData`), between
which other devices act.  Editing a category writes `weight` and not
`catgrade`; editing an assignment always writes `assgrade` with the mark.

*Restarts.*  `Terminate` may happen at any time.  It keeps `queue` and `cache`
and forgets `live`, `stack`, `mainq`, `table` and `form`.

### How the other modules correspond to the code

*`GradeLoops`.*  One action per iteration of the loops at
`AssignmentTableViewController.swift:41` and `CategoryTableViewController.swift:38`,
in any order of the rows, then the case distinction on a sum of zero.  Doubles
are naturals, `Inf` or `NaN`; a quotient is rounded to hundredths as the code
does.  `Grades` is the reference the loops are checked against.

*`EntryForm`.*  A form is `[doc, mode, holder, text, isEnabled, typed]`, the
holder being the values the segue handed over (`nameHolder` and so on).  `Type`
is one change of a text field with the `editDidBegin` it triggers.  `Double` and
`Text` are what `Double(text)` and `String(number)` do, over a small set of
texts in which one number has two texts and one text is no number.
`ConfirmAssignmentFails` is the forced unwrapping at
`NewAssTableViewController.swift:60`, which ends the process before anything is
written; the process that starts again has no form.  The server and the table a
form is opened from are there as far as crossing edits need them.

*`Navigation`.*  Refs are real strings, because the code cuts them:
`ref.prefix(ref.count - 12)` must leave the path of the document above
`.../categories/` and `.../assignments/`, whatever the ids' lengths.  The menu's
action Course performs a segue the storyboard does not have, which ends the
process (`running`).

*`AddCoursePage`.*  The object posted is the sequence of its keys and values in
JavaScript's order, array indexes first.  Requests may be answered, fail, and
overlap.

*`WriterQueue`.*  An action is the code between two points where the mutex is
released or taken: joining the queue, leading a group (`MakeRoomForWrite` and
`BuildBatchGroup`), appending, syncing and inserting entry by entry with the
mutex released, finishing, returning.  `awake` stands for the condition
variables: a writer goes on only if it was signalled or did not have to wait.
The sizes that end a group or fill a memtable are left to choice.  `log` has the
records of the current log file, the only one `Sync` reaches; a new memtable
starts a new one.  `imm` stands for everything a leader waits for the background
thread to clear away: the memtable before and too many files of level 0.

*`DBFiles`.*  A table or log is the set or sequence of writes it holds; a record
cut short is `Torn`.  `DB::Open` is the sequence of actions from `NewDB` to
`SetCurrentFile`; a flush and a compaction each give out a number, write, log
the edit, install the version and delete what is obsolete in separate actions,
with the mutex free where the code frees it.  A crash of the process keeps all
that was written; one of the machine also cuts every log and manifest anywhere
behind its synced part.

*`LogFile`.*  Fragments with their sizes; `blockOffset` is the writer's belief,
which differs from the file after a failed append, as in the code.  The filling
of a block may fail as well, which the code does not notice.  The reader
is started over any prefix of the file.

*`Levels`.*  Entries are key, sequence number, deletion or not.  Which table a
compaction picks, how far a memtable goes within the rule of
`PickLevelForMemTableOutput`, and where outputs are cut depend on sizes in the
code and on choice here.

## 3. Runs

| Run | Instance | Checks |
|---|---|---|
| `OneDevice` | fresh installation; 1 course, 1 category, 2 assignments; 3 operations, 1 restart | `TypeOK`, `IdleGrades` |
| `Leaks` | one device, up to 2 controllers per collection, 2 courses; 2 operations | `IdleGrades`, `SettledScreens` |
| `SameScreen` | two devices at one category: with a marked assignment; with none and 2 to add; or the second one fresh, joining, killed at most once, and no operations. Else 2 operations | `SettledGrades`, `SettledScreens`, `NoResurrection` |
| `TwoScreens` | one device among the categories (2, weights 1 and 2), one among the assignments; 2 operations | `SettledGrades`, `BookKept` |
| `Converge` | as `TwoScreens` with 1 category, under fairness | `GradesConverge` |
| `Parts` | web page: 3 rows, 4 changes, 2 presses; forms: two devices, 3 forms, 3 texts each; screens: 2 courses, categories, assignments, unbounded; levels: 4 writes to 3 keys, or to 2 with deletions, or 3 writes, 2 snapshots and compactions by hand | `FieldNumbers`, `SentBeforeLeaving`, `NoMixture`, `NothingEmpty`, `GradeOfItsMark`, `RollUpAboveRows`, `FormOverItsList`, `LookupsAreRight`, `TablesAreDisjoint` |
| `Loops` | up to 3 rows, every mark over 0..3 and share over 0..2 | `LoopsComputeGrades`, `GradeIsMean`, `Undefined` |
| `Writers` | 3 threads, 3 writes with sync or not, NULL batches; 2 writes beside 2 reads; torn records: 3 writes to files, appends that are torn, deletions that fail | `TypeOK`, `SyncedWhenAnswered`, `FutureWritesFail`, `ReadsAreStable`, `WritesAreAtomic`, `TablesStay` |
| `Store` | 3 writes, 2 crashes of the process; 2 writes, 1 crash and one file more; 2 writes with sync or not, 3 crashes of the machine; 2 writes with sync, failing syncs, tables and manifests, both kinds of crashes | `NothingLost`, `NothingHidden`, `HeldTablesStay`, `NeededFilesStay` |
| `Progress` | log: 3 records of up to 6 bytes, 2 failed appends, blocks of 6; writers: 3 threads, 3 writes; under fairness | `CompleteRecordsAreRead`, `RecordsAreNotMixed`, `CallsReturn`, `ReaderEnds` |
| `CourseRow` | one device, a category and a mark are added | `CourseRowShowsGrade`: **violated** |
| `BoundaryTables` | 1 snapshot, compactions with 2 outputs | `LookupsAreRight`: **violated** |

Deadlock is not checked in the runs of `GradeKeep`, in `Loops` and in `Progress`:
users may stop, the loops end, and the bounds on operations make every behaviour
end.  In `Parts`, `Writers` and `Store` the parts and settings that may come to an
end are named in `MayStop`; the others (the screens; databases under process
crashes, and with torn records) are checked for deadlock.

The properties of `GradeKeep`:

* `TypeOK`: besides types, that an assignment in any copy carries the
  `assgrade` of its own `credit` and `totalcredit`.
* `IdleGrades`: a device whose main queue is empty shows, for every document
  with a listener on the collection below it, the roll-up of the rows it has
  itself, whatever is still unsent.  This is the single-device promise.
* `SettledGrades`: when nothing is under way anywhere, the server's grades are
  the roll-ups of the server's documents.  This is the multi-device promise: a
  stale roll-up is never the last one.
* `SettledScreens`: then, too, every controller's array has the rows of its
  collection.
* `NoResurrection`: what was deleted stays deleted.
* `BookKept`: the users' entries implement `Gradebook`.
* `GradesConverge`: the grades become right and stay right.
* `CourseRowShowsGrade`: the list of courses shows the course's grade.

Those of the parts:

* `FieldNumbers`: `counter` is the number of rows that can be deleted, and a
  row's number is no less than its place, so names repeat only after a deletion
  higher up.  `SentBeforeLeaving`: the page moves on only when the route has a
  form as it was at some press, with the last of the weights typed for a name.
* `LoopsComputeGrades`: the loops compute what `Grades` defines.  `GradeIsMean`:
  a grade lies between those of the rows that count.  `Undefined`: exactly when
  a grade is infinite or not a number.
* `NoMixture`: what is stored is what one user confirmed on one form, so no
  default for a credit or totalcredit that is no number is ever stored.
  `GradeOfItsMark`: the assgrade, on the server and in every row, is that of the
  credit and totalcredit next to it, though edits cross field by field.
  `NothingEmpty`: no empty field is confirmed, no name empty.
* `RollUpAboveRows`: a roll-up goes to the one document above its rows.
  `FormOverItsList`: a form writes into the list beneath it.

Those of leveldb:

* `TypeOK` (of `WriterQueue`): sequence numbers are used once, those readers may
  use are exactly those of completed writes, one thread works at a time.
  `SyncedWhenAnswered`, `FutureWritesFail`, `ReadsAreStable`: a sync write
  answered ok is on the disk whoever logged it; after a failed sync no later
  write succeeds; a reader never sees part of a group.  `WritesAreAtomic`: the
  writes implement `AtomicStore`.  `CallsReturn`: every call returns.
* `NothingLost`: what must not be lost is in the files at every moment a crash
  may come.  `NothingHidden`: an open database shows it, and has all the tables
  of its version.  `HeldTablesStay`: tables of a reader or a compaction are not
  deleted; `TablesStay` is the last two with torn records and failing deletions,
  where `NothingLost` is false.  `NeededFilesStay`: no step replaces a log or table that recovery
  still needs.
* `CompleteRecordsAreRead`, `RecordsAreNotMixed`, `ReaderEnds`: a crash costs
  the records it cut off and no others; after failed appends a record returned
  is still one that was written whole; the reader comes to the end.
* `LookupsAreRight`, `TablesAreDisjoint`: moving, merging and dropping entries
  changes no lookup; the tables of a deeper level do not overlap.

### What the runs show

**A stale roll-up is always followed by a correct one**, with two writers on
the same document and no transaction.  The reason is latency compensation: a
device that issues a roll-up computed from old rows is sent a new snapshot when
the newer rows arrive, and computes again; since writes of a device are sent in
order, its own correction comes after its own mistake.

**The exception is a restart.**  If a process ends with a stale roll-up in its
queue, that write goes out after the next launch although no listener on that
device will correct it.  `SettledGrades` therefore speaks of documents that are
`Attended`: each device that was restarted looks at the collection again.
Without the condition the property is false for the joining device of
`SameScreen`, where one does not even have to type anything.

**Edits that cross replace each other whole.**  The edit form writes all its
fields, changed or not.  An edit of the weight undoes another device's edit of
the name, but what is stored is always what somebody saw and confirmed; writing
only what changed (the mutant `StoreChanged`) would combine two forms, and leave
a mark with the grade of another: 0 out of 5, 100%.

**Twelve characters are enough.**  `/assignments/` is 13 characters long and
`categories/` 11; what is left of a path after cutting 12 names the document
above in both cases, once because Firestore ignores a slash at the end.

**leveldb keeps what it answered**, through crashes of the process at every
step, crashes of the machine for what was synced, and failing syncs, tables and
manifests, with the exceptions below.

### Disagreements

Two are runs.

1. *The course list shows a field nobody computes* (run `CourseRow`).  The
   categories listener stores the grade of a course as `cgrade`
   (`CategoryTableViewController.swift:72`); the list reads `course_grade`
   (`CourseTableViewController.swift:33`), which is 0.0 from
   `NewCourseTableViewController.swift:32` on and written by nothing else.
2. *An old version of a key can hide a new one* (run `BoundaryTables`).
   `leveldb/db/version_set.cc:346` says that entries never hop across levels.  A
   compaction may end a table between two versions of a key that a snapshot
   kept; the next compaction of that level takes only the first of the tables
   down, so that the newer version lies below the older.

The others follow from the models with other constants, and are not runs:

3. *A failed append can cost later writes.*  With `"log"` in `Faults`, the
   property `NothingLost` of `DBFiles` fails: the rest of a block behind a torn record
   is skipped at recovery (`paranoid_checks` is off, `leveldb/include/leveldb/options.h`),
   and with it writes that were answered ok after the failure.  Only a failed
   sync is recorded as an error of the database (`leveldb/db/db_impl.cc:1236`).
   So that fault occurs only in the setting `torn records` of `Writers`, where
   `NothingLost` is not claimed.
4. *`CompactRange` and memtables.*  With `Manual` and no snapshots, 5 writes, 3
   keys and one output, `TablesAreDisjoint` fails: the range compacted by hand
   may have a gap between two tables of level 0 into which a memtable falls
   while the compaction is running.  Compactions the store starts by itself
   take a table with all that overlap it.
5. *A database that cannot be opened.*  The first descriptor is written but not
   synced before CURRENT names it (`leveldb/db/db_impl.cc:202`).  After a crash
   of the machine there may be a CURRENT and no descriptor; this is why the
   settings with machine crashes may stop.  Nothing was answered by then.
6. *A NULL batch may be taken into a group* whose leader does not force a new
   memtable (`leveldb/db/db_impl.cc:1295`), and is answered ok.
7. *After a background error* a compaction under way still flushes memtables
   (`leveldb/db/db_impl.cc:922`), although `BackgroundCall` does no more work
   then (`:673`), and installs its results at the end.  The model does so too.  As
   long as records are written whole nothing is lost by it (`AnswersAreKept`).  With
   `"edit"` in `Faults`, `NothingLost` fails: the compaction appends its edit
   behind the torn one of the flush, and a descriptor with a torn record before its
   end is corruption to `VersionSet::Recover` (`leveldb/db/version_set.cc:947`), so
   that the database cannot be opened again.
8. *The menu's action Course* performs `editcoursesegue`, which the storyboard
   does not define: the process ends (`CourseTableViewController.swift:99`).
9. *`POST /addCourse` stores nothing* and answers ok (`src/js/routes/addCourse.js:19`);
   and the course's name is not on top of the object posted when a category's
   name is an array index.

### Bounds

In `GradeKeep`, `MaxEdits` bounds what users add, open a form for or delete,
`MaxRestarts` how often each process ends, `MaxOpen` the controllers per
collection and device.  Roll-ups, snapshots, navigation, sends and
synchronisations are not bounded.  Two operations are enough for every pair of
conflicting ones: two edits, an edit and a deletion of the same document, two
additions to a collection, a change of a weight against a change of a mark.
Two devices are enough for each kind of conflict between a writer and another;
three-way conflicts are covered by the proofs, which hold for any number of devices.  Marks are 1/2 and 2/2; in
`SameScreen`, whose state space is the largest, 0/2 and 1/2.  With
them the sets of rows that a conflict lies between have different grades (0,
50, 25 or 100%), so that a stale roll-up is not right by accident.

The two-device runs start with the devices on the screens in question and,
but for the joining device, keep them there (`stack' = stack`): `Leaks` and `OneDevice`
do the coming and going.  `LookingInit` is a state of `Spec`, reached by
launching, tapping and synchronising.  `SameScreen` uses symmetry
over devices and assignments, `Parts` over devices and `Writers` over threads: no
action and no property tells them apart, so that behaviours from an initial state
with other names are those from this one, renamed.  All their properties are
safety properties.

`MCGradeKeep` also has TLC compare `Overlay`, which is written without
recursion so that the provers can use it, with the fold of `Apply`, for all
queues of up to three writes to a category.

`EntryForm`: three forms are an entry and two edits that cross, or an edit made
on the outcome of two others; three texts fill all fields of an assignment, or
change a field to and fro.  `AddCoursePage`: four changes are two rows, a
deletion above a row and a fourth that shows what is left; two presses overlap.
`Navigation` has no bound but two documents per level, with ids of different
lengths.  `WriterQueue`: three threads are a leader, a member of its group and a
writer that must not join; three writes let one come after an error.  `DBFiles`:
`MaxFile` bounds the numbers given out while the database is open and so the
flushes and compactions (8 allows a flush and a compaction after one switch of
memtables, 9 a flush in the middle of a compaction with an output); opening
is not bounded by it, only by `MaxStops`, so that recovery after recovery
happens.  `LogFile`: blocks of 6 bytes with headers of 2 have no room for a
header, room for exactly a header, and records over several blocks, with sizes
0, 1, 3 and 6.  `Levels`: four levels are level 0, two levels a memtable may go
to, and one further down which a deletion must look at; four writes are enough
for two tables in one level and one each above and below.  The three instances
differ because three keys are needed for a gap between tables, deletions for
the dropping of markers, and snapshots for versions that stay.

### Fairness

`FairSpec`, used by `Converge`, assumes weak fairness of the main queue's
handlers, of the client sending its oldest write, and of synchronisation.  The
main queue is serviced by iOS while the app runs, and the Firestore client
retries until it is connected, so this says that a running app is online again
and again.  Nothing is assumed of users, of launches or of terminations.

`Progress` assumes weak fairness of each thread once it has called, of the
background thread and of the reader of a log: the operating system schedules
runnable threads.  Nothing is assumed of the callers, nor of which error or how
large a group occurs.  Signals are not assumed: a thread that is not in `awake`
has no step to be fair to, so `CallsReturn` fails when one is forgotten (the
mutant `DequeueSilently`).

## 4. Proofs

Checked by TLAPS for all values of the constants.

| Module | Theorem | Says |
|---|---|---|
| `GradeKeepProofs` | `TypeCorrect` | `Spec => []TypeOK` |
| | `DeletedStaysDeleted` | `Spec => NoResurrection` |
| | `ImplementsGradebook` | `Spec => BookKept`, that is `Spec => Book!Spec` |
| | `GInvAlways` | `Spec => []GInv`, the inductive invariant of the next three |
| | `ScreensSettle` | `Spec => []SettledScreens` |
| | `GradesSettle` | `Spec => []SettledGrades` |
| | `GradesIdle` | `Spec => []IdleGrades`, if there is one device |
| `EntryFormProofs` | `OneUsersEntry` | `Spec => []NoMixture` |
| | `NamesAreNotEmpty` | `Spec => []NothingEmpty` |
| | `GradesAreOfTheirMarks` | `Spec => []GradeOfItsMark` |
| `GradeLoopsProofs` | `LoopsComputeTheGrade` | `Spec => []LoopsComputeGrades` |
| | `TheGradeIsAMean` | `Spec => []GradeIsMean` |
| | `WhenTheGradeIsUndefined` | `Spec => []Undefined` |
| `AddCoursePageProofs` | `RowsAreNumbered` | `Spec => []FieldNumbers` |
| | `FormIsSent` | `Spec => []SentBeforeLeaving` |
| `WriterQueueProofs` | `FailedSyncIsFinal` | `Spec => []FutureWritesFail` |
| | `NoLostWakeup` | the first of the queue and everyone with an answer is awake, and two threads never work at once |
| | `WriterQueueTypes` | `Spec => []TypeOK` |
| | `GetsReadTheirSnapshot` | `Spec => []ReadsAreStable` |
| | `SyncWritesAreOnDisk` | `Spec => []SyncedWhenAnswered` |
| | `WritesAreAtomicAlways` | `Spec => WritesAreAtomic`, that is `Spec => Store!Spec` |
| `DBFilesProofs` | `FilesAreInvariant` | `Spec => []FilesInv`, the inductive invariant on file numbers |
| | `HeldTablesAreKept` | `Spec => []HeldTablesStay` |
| | `AnswersAreKept` | `Spec => []NothingLost`, if records are written whole |
| | `AnswersAreVisible` | `Spec => []NothingHidden`, if records are written whole |
| | `NeededFilesAreKept` | `Spec => NeededFilesStay`, if records are written whole |
| `LogFileProofs` | `ReturnedAsWritten` | `Spec => []RecordsAreNotMixed` |
| | `NoneIsMissed` | `Spec => []CompleteRecordsAreRead` |

*`TypeCorrect`.*  `TypeOK` is inductive by itself.  Two lemmas carry it.
`OverlayType`: a document seen through a queue takes its input from one write
and its grade from another, and the result must still be a document of its
level.  Above the assignments any input goes with any grade
(`FieldsAreIndependent`); for assignments the two always come from the same
write.  `ClientStepType`: what the client raises is on the main queue of its
own device, for a registered controller, with rows of that controller's
collection.  On top there is one lemma per action.

*`DeletedStaysDeleted`.*  `WriteSteps` reduces every step to what it does to
server, queues and ids: nothing, issue one write, take one, drop one.  For a
deleted document no "set" is queued, a new one needs an unused id, and an
update of a missing document is refused (`GoneStep`).

*`ImplementsGradebook`.*  The mapping takes the input part of the server's
documents.  `BookKept` needs that a "set" the server takes meets no document
and is no repetition.  Neither follows from the types, so the proof carries the
invariant `AddedOnce`: whatever exists was handed an id; what is still being
added does not exist yet; and at most one queued write adds it.

*`EntryFormProofs`.*  None of the three is inductive.  The invariant says that
every write under way is `Faithful`: it has all the fields of its document, as
some confirmed form shows them, and an assignment's has the grade of its mark
(`WholeMark`); that an enabled form has no empty field; and the three properties.
`CommitKeeps` is the step in which an update goes over an entry: because it has
all the fields nothing of the old entry remains.  For `GradeOfItsMark` it is not
enough to look at one write: `Refresh` lays all the writes under way over the
server's entries.  It is a fold, that is a recursion over the sets of their
places; `FoldExists` shows that it has a solution, `WrittenKeepsMarks` that one
write keeps the grades, and `FoldKeepsMarks`, by `SetInduction`, that any number
of them do.  `GradeKeep` has the same clause in its `TypeOK`, where a write is of
a mark as a whole; here it is of fields.  The one
assumption is that categories and assignments are different documents
(`DocsAssumption`).

*`AddCoursePageProofs`.*  `FieldNumbers` is inductive with the types of rows and
counter.  The work is in `DeleteKeepsTable`: the rows below the deleted one move
up by one place and keep their numbers.  `SentBeforeLeaving` follows from `Posts`,
by which every post is what `Body` makes of its form, and from what `Body`
returns.  It is a fold over the rows, that is a recursion over the sets of
their places: `FoldExists` shows that it has a solution, `BodyOfPrefix` that it
enters one row after the other, and `BodyHolds`, by `SetInduction` with `PutHolds`
as its step, which keys and values are there when the first `k` rows are entered
(`Holds`).  There is no assumption, not even that names are different from
`CourseKey`.  `Parts` checks both properties through an instance of
`AddCoursePage` beside the other parts.

*`WriterQueueProofs`.*  The invariant follows the failure of a sync: while the
leader works with the mutex released the failure is known only in its group,
whose status is then an error; when nobody works it is in `bgError`; so a
leader that starts without an error recorded has no failure behind it, and a
writer that is answered ok cannot have come after one.  For this one needs that
who works is the first of the queue (`Leader`), that nobody is in the queue
twice or with an answer (`Queue`), and that a group is a part of the queue
(`DequeueMovesUp`).

For the other four theorems there is a second invariant, `SInv`, which rests on
that one.  Its parts:

* `Ops`: each write has a number of its own.  `Commits`: `committed` has each
  write once, and none that waits for an answer of its group.  `Outcome`: an
  answer says whether the write was committed.
* `Group`: the leader's puts are those of the first writers of the queue, in
  their order, with the sequence numbers after `lastSequence`.  `Progress`: how
  far it has come.  This is where the fold matters: `Built` says what
  `BuildBatchGroup` collects, from `FlattenConcatenates`.
* `Memtable`: entries up to `lastSequence` are exactly the committed puts, in
  the order of the writes.  `Inserted`: entries beyond it are what the leader has
  inserted so far, so no snapshot sees a part of a group.
* `Logs`: what the leader is about to answer is in the current log file, which is
  the one it syncs, and on the disk once it did; a put answered ok with sync is
  in a synced record, also if that log file was left since.
* `Snapshots`: readers hold numbers up to `lastSequence` and find what was the
  last write of their key.

`LookupFindsLast` turns `Memtable` into the statement that a lookup finds the
last committed write, for which the greatest of a finite set of numbers is
needed (`GreatestNumber`).  For the refinement pending are the writes between
call and return, applied are those in `committed`, and answered those
`returned`, as far as they put anything: calling maps to `Invoke`, finishing a
group to `Take` of all its writes at once, returning to `Answer`, and every
other action to a stutter (`StoreStep`).

The assumptions on `WriterQueue` are that batches are finite sets of keys, that
`None` is no status, and that the bounds are natural numbers.

*`DBFilesProofs`.*  Two invariants, each in named parts.  The numbers of writes,
crashes and files are arbitrary, and so is the place where a machine crash cuts
off each log and manifest.

* `FilesInv` is about numbers, and inductive whatever fails.  What is in use is
  below the number given out next: in each manifest by what its edits recorded
  (`ManifestsNumbered`), in memory for the version, readers, the compaction, the
  flush, log and manifest (`MemoryNumbered`), and for the edit being applied
  (`EditNumbered`).  Memory is as at the start while the database is closed
  (`Closed`, `Forgotten`); CURRENT names a manifest that is there
  (`CurrentNamed`), and the logs still to be read are there (`Recovering`).  A table
  that somebody holds has its file (`Present`), from which `HeldTablesStay`
  follows.
* `AnswersInv` is about where answered writes are.  A crash of the machine may cut
  off the manifest anywhere behind what was synced, so the central part, `DiskOK`,
  speaks of every such cut (`Cuts`): for each kind of crash, the tables of that cut
  are whole, and they and the logs from its log number on hold all that the crash
  must not lose (`Safe`).  `OpenOK` says the same of an open database and its
  memtables; that its version is the last synced cut as long as no error was
  recorded; and that no cut needs a log older than `logNumber`, which is why
  `DeleteObsoleteFiles` may delete those.  `RecoveringOK` says of
  each phase of an open in which logs and tables the rest is, `FlushOK` and
  `MergeOK` what a flush and a compaction under way have already, `FirstMade` how
  the first descriptor looks before CURRENT names it.

Each action has a lemma which says that it keeps `AnswersInv` and deletes nothing
needed (`KeepsNeededFiles`).  What took most work is `LogEdit` and installing:
between the append of an edit and its sync the manifest has a cut more, and each
cut has to be safe by itself (`FilesAppend`, `FilesNext`, `OpenCuts`, `EditMoves`).

The hypothesis of the last three theorems, `WholeRecords`, is that `Faults` has
neither `"log"` nor `"edit"`: an append adds a whole record or ends with an error
before it wrote any of it.  It cannot be dropped, for neither of the two: see
Disagreements 3 and 7.  All other
faults, both kinds of crashes and failed opens are covered, and the four
settings of the run `Store` satisfy it.  The other assumptions (`DBFilesAssumption`) are
that the bounds are natural numbers and that `None` and `Torn` are no value they
stand beside; TLC evaluates them for each of them, and for the torn records of `Writers`.

*`GInvAlways` and what follows from it.*  `GInv` has these parts besides `TypeOK` and `AddedOnce`:

* `Controllers` and `UpToDate`: the last snapshot under way to a controller, or
  its array when none is under way, has the rows its device has now, and a
  controller on a collection has one on the collection above.  With it
  `ScreensSettle` follows.
* `LastRollUp`: once a device has shown all it was sent, the last roll-up of a
  document in its queue is that of its present rows.  This is the program's
  reason for being right: no handler checks it.
* `GradeHasAuthor`: for each attended document some device that listens below it
  has a roll-up still to issue or to send, or the grade on the server is that of
  its rows; and if nobody listens, the grade is right.  When nothing is
  under way the rows are the server's, and `GradesSettle` follows.
* `Responsible`, `Known`, `AboveFirst`, `FirstGrades` keep the last part
  inductive.  Whoever has a write to a collection under way listens to it or was
  restarted, so that no write can change the rows of a collection that nobody
  attends; a device knows only of documents it added or that are on the
  server, in the order in which they are added, so that a new document has
  nothing below it and its first grade is right.

`Kinds` reduces the actions to eight kinds of steps.  The lemma that took the
most work is `StepAt`, what a step does to the rows and roll-ups of one device at
one document.  `GradesIdle` adds to `GInv` that the copies of a device that has
the account for itself are those of the server, as far as it has any.  Its
hypothesis is the one under which the runs check it: with two devices the roll-up
of the other, from rows that are out of date, is shown until that one corrects it.

*`FlattenProofs`.*  `FlattenSeq` is recursive.  What it returns is proved by
`SetInduction`, induction for a *set* of numbers, which follows from
the well-foundedness of the naturals and needs no operator parameter.

The assumptions on `GradeKeep` are about the shape of the tree, finiteness (of
the documents and controllers), that the sentinels are no values, that at least
one weight can be entered, and that the seed is well formed: its grades are
right to begin with.

*`GradeLoopsProofs`.*  `LoopInv` says that the two sums are those of the rows
counted so far.  In what order is left open: the sum over a finite set is a fold
that takes its elements as `CHOOSE` does, and `TotalIs` shows, by induction on the
size of the set (`SizeInduction`), that any element may be taken first.
`LoopsCompute` is then what is left when no row is.  For `GradeIsMean` a grade
below that of every row, rounded, is brought to a contradiction with the sums
(`MarksMean`, `SharesMean`), half a hundredth of rounding included (`NearMark`).
For `Undefined` a sum of naturals is zero only if each is (`TotalZero`).  The
assumption on `GradeLoops` is that ids are finitely many, marks and weights are
naturals, and the grade of a category is a natural or infinite, which is what
`Undefined` says of the grades the app stores in one.  The run `Loops` checks it,
and the three properties, of an instance.

*`LogFileProofs`.* `MixInv` has, for the writer: the fragments of a record are
emitted one after the other (`Emitted`); the bytes of the file are bytes of
fragments, in order, nothing is missing between two bytes of one fragment, and
before any byte of a fragment that continues a record all of the fragment before
it is in the file (`BytesOK`), since an append that fails ends the record; and a
record whose last byte is in the file is complete (`EndsOK`). All of it stays
true when the file is cut. For the reader: what it returned are whole runs of
fragments with their last byte behind it (`Returned`), and while it is in a
record it is at the end of the last fragment it has, or skipped less than a
header from there (`UnderWay`). That is why the pieces fit (`NoneBetween`): a
fragment it finds next that continues a record has its predecessor whole in the
file before it, any fragment between the two would have room for a header, and
so the predecessor is the one the reader has. A record that a failed append left
behind is therefore never completed by the end of another.

`NoneIsMissed` needs more, which holds as long as no append failed
(`NothingFailed`): records are numbered without a gap (`Numbered`); a fragment
has all its bytes in their places, within one block, up to the end of the file
(`Unbroken`); the next fragment follows at once if the block has room for a
header, and else at the start of the next block after a filling (`Following`),
for which the writer's `blockOffset` must be right (`Appending`, `Emission`);
and ends are recorded (`Answered`). The reader has then read exactly the
fragments up to some `g`, returned the records that they complete, and stands
behind `g` or the filling after it (`ReadInOrder`, `Read`): what comes next is
`g + 1` (`NextFragment`), or `g + 1` is not wholly in the file and then nothing
behind it is (`NotYetRead`, `NoMore`). The arithmetic of blocks, with its
division, is in `EndsOfBlocks`.

The assumption (`SizesAssumption`) is that a block is longer than a header, a
header is not empty, and the markers `None` and `Eof` are no place or byte;
`Progress` checks it of its instance.

*Only model-checked:* `Navigation`, whose paths are strings; and `Levels`, of
which both properties are false for some constants (Disagreements 2 and 4).
Liveness (`GradesConverge`, `CallsReturn`, `ReaderEnds`) is out of the prover's
reach.

## 5. Not modelled

* Of the app: the sort order of rows, layout, alerts, animations; floating point
  error below the second decimal; negative numbers.  Names matter in `EntryForm`
  and `AddCoursePage` only.
* A listener that fails (`guard let documents`): there are no security rules
  in the repository that would make one fail.
* UIKit's own state: swipe gestures, the table view's idea of its row count.
* Other clients of the database, and documents without the expected fields.
* Of leveldb: the format of tables and blocks, checksums (a damaged record is
  torn), caches, iterators, `Repairer`, the C interface, compaction triggered by
  seeks, `reuse_logs` (off by default) and the obsolete `prev_log_number`.
  `DBFiles` leaves out keys, levels, the dropping of entries and moves of a table
  to the next level (all in `Levels`), makes one table of each recovered log, and
  takes creating, renaming and deleting a file to be durable at once.
* The other vendored pods: gRPC, BoringSSL, Protobuf, nanopb and GoogleSignIn have
  no part in this program's logic, and Firebase is there only as headers and
  binaries.  They are almost all of the repository's lines of C and C++, so that
  the share of lines modelled is small although the app is modelled throughout.
* `bin/www`, the static pages, the express application around the routes, the
  property lists no code reads, and the empty template tests.

## 6. What could come next

1. An abstract specification of a replicated roll-up, with many writers and
   last writer wins, which `GradeKeep` implements.
2. The composition of `WriterQueue` with `DBFiles`, whose `AddRecord` and
   `SyncAndInsert` are a group of one writer.
