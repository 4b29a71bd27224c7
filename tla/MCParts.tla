------------------------------ MODULE MCParts ------------------------------
(***************************************************************************)
(* Small instances of the parts that keep their state to themselves: the   *)
(* web page Add Course, the two entry forms, the navigation between        *)
(* screens, and the levels of tables, without snapshots and with them.  A  *)
(* behaviour is one of one part; the variables of the others are Unused,   *)
(* and those of the forms as they are at first.                            *)
(***************************************************************************)
EXTENDS EntryForm, TLC

CONSTANTS Unused, Fixed, k1, a1, MaxRows, MaxEdits, MaxClicks

VARIABLES
  part,
  page, rows, counter, courseName, edits, requests,     \* AddCoursePage
  stack, menu, listening, rollups, running,             \* Navigation, and form
  written, lastSequence, snapshots, mem, levels, compaction  \* Levels

pageVars  == <<page, rows, counter, courseName, edits, requests>>
formVars  == <<server, queue, row, confirmed, opened>>
navVars   == <<stack, menu, listening, rollups, running>>
levelVars == <<written, lastSequence, snapshots, mem, levels, compaction>>
all       == <<part, form, pageVars, formVars, navVars, levelVars>>

(* Names: an ordinary one, a numeral and the key of the course's name.     *)
Web == INSTANCE AddCoursePage WITH
  Names <- {"Exams", "1", "_courseName"}, Weights <- {"20", "80"},
  Titles <- {"Logic"}, Numerals <- <<"1">>, CourseKey <- "_courseName"

(* Amounts as String(Double) prints them, one as the user types it, and    *)
(* text that is no number.                                                 *)
MCDouble == [t \in {"", "5", "5.0", "0.0", "1.5.2"} |->
              CASE t \in {"5", "5.0"} -> 5 [] t = "0.0" -> 0 [] OTHER -> nil]
MCText  == [n \in {0, 5} |-> IF n = 5 THEN "5.0" ELSE "0.0"]

(* The forms of one kind only; those of assignments without the typed 5.   *)
OnlyCategories ==
  \A d \in Devices : form'[d] # None => form'[d].doc = k1

OnlyAssignments ==
  \A d \in Devices : form'[d] # None =>
    form'[d].doc = a1 /\ \A f \in DOMAIN form'[d].text : form'[d].text[f] # "5"

(* Two courses, and ids of two lengths.                                    *)
Screens == INSTANCE Navigation WITH
  Courses <- {"c1", "c22"}, Categories <- {"k1", "k22"},
  Assignments <- {"a1", "a22"}, Users <- "users/u/courses/",
  Parent <- [k \in {"k1", "k22", "a1", "a22"} |->
               CASE k = "k1" -> "c1" [] k = "k22" -> "c22"
                 [] k = "a1" -> "k1" [] k = "a22" -> "k22"]

(* Three keys, or two and deletions, and memtables that come in while      *)
(* tables are merged into up to two; and two keys with two snapshots, also *)
(* merged by hand.                                                         *)
Tables == INSTANCE Levels WITH
  NumKeys <- 3, Deletions <- {FALSE}, NumLevels <- 4, MaxMemCompactLevel <- 2,
  MaxOutputs <- 2, Manual <- FALSE, MaxWrites <- 4, MaxSnapshots <- 0

DeletionTables == INSTANCE Levels WITH
  NumKeys <- 2, Deletions <- BOOLEAN, NumLevels <- 4, MaxMemCompactLevel <- 2,
  MaxOutputs <- 2, Manual <- FALSE, MaxWrites <- 4, MaxSnapshots <- 0

SnapshotTables == INSTANCE Levels WITH
  NumKeys <- 2, Deletions <- BOOLEAN, NumLevels <- 4, MaxMemCompactLevel <- 2,
  MaxOutputs <- 1, Manual <- TRUE, MaxWrites <- 3, MaxSnapshots <- 2

ASSUME PartsAssumption ==
  /\ Web!KeyAssumption
  /\ DocsAssumption /\ TextsAssumption
  /\ Screens!ParentAssumption
  /\ Tables!LevelsAssumption
  /\ DeletionTables!LevelsAssumption
  /\ SnapshotTables!LevelsAssumption
-----------------------------------------------------------------------------
NoPage  == /\ page = Unused /\ rows = Unused /\ counter = Unused /\ courseName = Unused
           /\ edits = Unused /\ requests = Unused
NoForms == /\ server = [d \in Docs |-> None] /\ queue = [d \in Devices |-> <<>>]
           /\ row = [d \in Devices |-> [x \in Docs |-> None]]
           /\ confirmed = {} /\ opened = 0
NoNav   == /\ stack = Unused /\ menu = Unused /\ listening = Unused
           /\ rollups = Unused /\ running = Unused

NoTables == /\ written = Unused /\ lastSequence = Unused /\ snapshots = Unused
            /\ mem = Unused /\ levels = Unused /\ compaction = Unused

PartsInit ==
  \/ /\ part = "web" /\ Web!Init
     /\ form = Unused /\ NoForms /\ NoNav /\ NoTables
  \/ /\ part \in {"category form", "assignment form"} /\ Init
     /\ NoPage /\ NoNav /\ NoTables
  \/ /\ part = "screens" /\ Screens!Init
     /\ NoPage /\ NoForms /\ NoTables
  \/ /\ \/ part = "tables" /\ Tables!Init
        \/ part = "deletions" /\ DeletionTables!Init
        \/ part = "snapshot tables" /\ SnapshotTables!Init
     /\ form = Unused /\ NoPage /\ NoForms /\ NoNav

WebStep ==
  /\ part = "web" /\ Web!Next
  /\ UNCHANGED <<part, form, formVars, navVars, levelVars>>

FormStep ==
  /\ part \in {"category form", "assignment form"}
  /\ Next
  /\ IF part = "category form" THEN OnlyCategories ELSE OnlyAssignments
  /\ UNCHANGED <<part, pageVars, navVars, levelVars>>

ScreenStep ==
  /\ part = "screens" /\ Screens!Next
  /\ UNCHANGED <<part, pageVars, formVars, levelVars>>

TableStep ==
  /\ \/ part = "tables" /\ Tables!Next
     \/ part = "deletions" /\ DeletionTables!Next
     \/ part = "snapshot tables" /\ SnapshotTables!Next
  /\ UNCHANGED <<part, form, pageVars, formVars, navVars>>

(* There is always something to do on the screens; the other parts come to *)
(* an end, or to their bounds.                                             *)
MayStop == part # "screens" /\ UNCHANGED all

PartsNext ==
  WebStep \/ FormStep \/ ScreenStep \/ TableStep \/ MayStop

PartsSpec == PartsInit /\ [][PartsNext]_all

Interchangeable == Permutations(Devices)
-----------------------------------------------------------------------------
(* addCourse.html: the counter is the number of rows that can be deleted,  *)
(* and the numbers in a row's names repeat only after a deletion above it. *)
FieldNumbers == part = "web" => Web!FieldNumbers

(* addCourse.html: when the page has moved on, the form as it was at some  *)
(* press of the button has reached the server.                             *)
SentBeforeLeaving == part = "web" => Web!SentBeforeLeaving

(* NoMixture, NothingEmpty and GradeOfItsMark are those of EntryForm.       *)

(* A roll-up is stored in the one document above the rows it was computed  *)
(* from, which the code finds by cutting 12 characters off a path.         *)
RollUpAboveRows == part = "screens" => Screens!RollUpAboveRows

(* A form writes to the collection the screen beneath it lists, or to the  *)
(* document of one of its rows.                                            *)
FormOverItsList == part = "screens" => Screens!FormOverItsList

(* leveldb: a lookup, now or with a snapshot, finds the newest entry it may*)
(* see, whatever memtables and compactions have moved or dropped.          *)
LookupsAreRight ==
  /\ part = "tables" => Tables!LookupsAreRight
  /\ part = "deletions" => DeletionTables!LookupsAreRight
  /\ part = "snapshot tables" => SnapshotTables!LookupsAreRight

(* leveldb: the tables of a level after the first do not overlap.          *)
TablesAreDisjoint ==
  /\ part = "tables" => Tables!TablesAreDisjoint
  /\ part = "deletions" => DeletionTables!TablesAreDisjoint
  /\ part = "snapshot tables" => SnapshotTables!TablesAreDisjoint
=============================================================================
