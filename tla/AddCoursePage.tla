--------------------------- MODULE AddCoursePage ---------------------------
(***************************************************************************)
(* The web page Add Course and the route that serves it.  The page is a    *)
(* table of category rows: the first is fixed, others are added and        *)
(* deleted.  The button Add Course collects the rows into one object, keyed*)
(* by what was typed as the category's name, and posts it; the page moves  *)
(* to /home when the route answers.  Nothing keeps the button from being   *)
(* pressed again before that.                                              *)
(***************************************************************************)
EXTENDS Naturals, SequencesExt

CONSTANTS
  Names,      \* what the user may type as the name of a category,
  Weights,    \* as its weight,
  Titles,     \* and as the name of the course
  Numerals,   \* the names that are array indices, in increasing order: an
              \* object lists such keys before all others
  CourseKey,  \* the key "_courseName"
  Fixed,      \* the row that is always there, which has no number
  MaxRows,    \* bound: rows of the table
  MaxEdits,   \* bound: rows added or deleted and fields typed into
  MaxClicks   \* bound: presses of Add Course

KeyAssumption == CourseKey \notin ToSet(Numerals)

VARIABLES
  page,       \* "addCourse", or "home" once an answer moved the browser on
  rows,       \* the rows: the number in the names of its fields, name, weight
  counter,    \* the number the next row is given
  courseName, \* the text of the course's field
  edits,      \* counted against MaxEdits
  requests    \* the posts, in order: the form they were made of, their body,
              \* and whether they are "sent", "answered" or "failed"

vars == <<page, rows, counter, courseName, edits, requests>>

Row(nr) == [nr |-> nr, name |-> "", weight |-> ""]
-----------------------------------------------------------------------------
(* A JavaScript object, as the sequence of its <<key, value>> pairs in the *)
(* order in which they are listed and written as JSON.                     *)
Keys(object) == {object[i][1] : i \in DOMAIN object}

Before(key, other) ==
  /\ key \in ToSet(Numerals)
  /\ other \in ToSet(Numerals) =>
       \E i, j \in DOMAIN Numerals :
         Numerals[i] = key /\ Numerals[j] = other /\ i < j

(* object[key] = value: a new key goes behind those that are listed before *)
(* it.                                                                     *)
Put(object, key, value) ==
  IF key \in Keys(object)
  THEN [i \in DOMAIN object |->
          IF object[i][1] = key THEN <<key, value>> ELSE object[i]]
  ELSE LET earlier == {i \in DOMAIN object : ~Before(key, object[i][1])}
       IN  InsertAt(object, Cardinality(earlier) + 1, <<key, value>>)

(* MUTANT of Body: the first row is taken to be the table's heading.       *)
BodySkipsFirst(course, table) ==
  FoldLeft(LAMBDA data, r : Put(data, r.name, r.weight),
           <<<<CourseKey, course>>>>, Tail(table))

(* What is posted for a course name and a table: the name first, then each *)
(* row's weight under the row's name.                                      *)
Body(course, table) ==
  FoldLeft(LAMBDA data, r : Put(data, r.name, r.weight),
           <<<<CourseKey, course>>>>, table)
-----------------------------------------------------------------------------
Init ==
  /\ page = "addCourse"
  /\ rows = <<Row(Fixed)>>
  /\ counter = 0
  /\ courseName = ""
  /\ edits = 0
  /\ requests = <<>>

OnPage == page = "addCourse"

Edit == OnPage /\ edits < MaxEdits /\ edits' = edits + 1

AddCategory ==
  /\ Edit
  /\ Len(rows) < MaxRows
  /\ rows' = Append(rows, Row(counter))
  /\ counter' = counter + 1
  /\ UNCHANGED <<page, courseName, requests>>

(* MUTANT of DeleteRow: the fixed row can be deleted too.                  *)
DeleteRowAny(i) ==
  /\ Edit
  /\ i \in DOMAIN rows
  /\ counter > 0
  /\ rows' = RemoveAt(rows, i)
  /\ counter' = counter - 1
  /\ UNCHANGED <<page, courseName, requests>>

(* Delete is disabled in the fixed row.                                    *)
DeleteRow(i) ==
  /\ Edit
  /\ i \in DOMAIN rows
  /\ rows[i].nr # Fixed
  /\ rows' = RemoveAt(rows, i)
  /\ counter' = counter - 1
  /\ UNCHANGED <<page, courseName, requests>>

Type(i, name, weight) ==
  /\ Edit
  /\ i \in DOMAIN rows
  /\ rows' = [rows EXCEPT ![i] = [@ EXCEPT !.name = name, !.weight = weight]]
  /\ UNCHANGED <<page, counter, courseName, requests>>

TypeCourse(name) ==
  /\ Edit
  /\ courseName' = name
  /\ UNCHANGED <<page, rows, counter, requests>>

AddCourse ==
  /\ OnPage
  /\ Len(requests) < MaxClicks
  /\ requests' = Append(requests,
       [course |-> courseName, rows |-> rows,
        body |-> Body(courseName, rows), state |-> "sent"])
  /\ UNCHANGED <<page, rows, counter, courseName, edits>>

(* POST /addCourse: the body is printed and "ok" is sent.                  *)
Route(i) ==
  /\ requests[i].state = "sent"
  /\ requests' = [requests EXCEPT ![i].state = "answered"]
  /\ UNCHANGED <<page, rows, counter, courseName, edits>>

(* The request or its answer is lost: there is no handler for that.        *)
Fail(i) ==
  /\ requests[i].state = "sent"
  /\ requests' = [requests EXCEPT ![i].state = "failed"]
  /\ UNCHANGED <<page, rows, counter, courseName, edits>>

(* The answer arrives while the page is still there: it goes to /home.     *)
Success(i) ==
  /\ OnPage
  /\ requests[i].state = "answered"
  /\ page' = "home"
  /\ UNCHANGED <<rows, counter, courseName, edits, requests>>

Next ==
  \/ AddCategory
  \/ \E i \in DOMAIN rows :
       \/ DeleteRow(i)
       \/ \E name \in Names, weight \in Weights : Type(i, name, weight)
  \/ \E name \in Titles : TypeCourse(name)
  \/ AddCourse
  \/ \E i \in DOMAIN requests : Route(i) \/ Fail(i) \/ Success(i)

Spec == Init /\ [][Next]_vars
-----------------------------------------------------------------------------
(* counter is the number of rows that can be deleted, whatever was added   *)
(* and deleted in between, and a row's number is no less than its place    *)
(* among them: so numbers repeat only after a deletion higher up.          *)
FieldNumbers ==
  /\ rows[1].nr = Fixed
  /\ Len(rows) = counter + 1
  /\ \A i \in 2 .. Len(rows) : rows[i].nr \in Nat /\ rows[i].nr >= i - 2

(* When the page has moved on, a form as it was at a press of the button   *)
(* has reached the server: the course's name and each row's weight, the    *)
(* last one where rows have the same name.  Only a row named like the key  *)
(* of the course's name can hide that name.                                *)
SentBeforeLeaving ==
  page = "home" =>
    \E i \in DOMAIN requests :
      LET r == requests[i]
          named(key) == {n \in DOMAIN r.rows : r.rows[n].name = key}
      IN  /\ r.state = "answered"
          /\ Keys(r.body) = {CourseKey} \cup {r.rows[n].name : n \in DOMAIN r.rows}
          /\ \A p \in DOMAIN r.body :
               LET key == r.body[p][1]
               IN  r.body[p][2] =
                     IF named(key) = {} THEN r.course
                     ELSE r.rows[CHOOSE n \in named(key) :
                                   \A m \in named(key) : m <= n].weight
=============================================================================
