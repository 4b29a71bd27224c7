----------------------------- MODULE Navigation -----------------------------
(***************************************************************************)
(* The screens of the app: the storyboard's segues, what prepare(for:)     *)
(* hands from one controller to the next, and the paths that each of them  *)
(* derives from what it was handed.  A controller knows its place in the   *)
(* account only by the string ref, the path of the collection it lists; the*)
(* roll-up finds the document above that collection by cutting off the     *)
(* last 12 characters.  What rows there are is not the subject here: every *)
(* document may have one.                                                  *)
(***************************************************************************)
EXTENDS Naturals, Sequences

CONSTANTS
  Courses, Categories, Assignments,  \* document ids
  Parent,      \* the category of an assignment, the course of a category
  Users,       \* the path of the account's courses, "users/.../courses/"
  None         \* no form

Docs == Courses \cup Categories \cup Assignments

ParentAssumption ==
  /\ Parent \in [Categories \cup Assignments -> Docs]
  /\ \A k \in Categories : Parent[k] \in Courses
  /\ \A a \in Assignments : Parent[a] \in Categories

VARIABLES
  stack,      \* the controllers shown over each other: what each lists, and
              \* its ref
  menu,       \* the menu of the course list is open
  form,       \* the form that is presented: what for, its mode, its ref
  listening,  \* the refs whose listener is registered
  rollups,    \* history: <<ref of the listener, path of the document>>
  running     \* FALSE: an exception ended the process

vars == <<stack, menu, form, listening, rollups, running>>

Top == stack[Len(stack)]
-----------------------------------------------------------------------------
(* The paths of documents and collections, as Firestore knows them.        *)
Path(k) ==
  CASE k \in Courses    -> Users \o k
    [] k \in Categories -> Users \o Parent[k] \o "/categories/" \o k
    [] k \in Assignments ->
         Users \o Parent[Parent[k]] \o "/categories/" \o Parent[k]
               \o "/assignments/" \o k

(* The documents a string names: a slash at its end makes no difference.   *)
Named(path) == {k \in Docs : path \in {Path(k), Path(k) \o "/"}}

(* The documents of the collection a string names.                         *)
In(ref) == {k \in Docs : Path(k) = ref \o k}
-----------------------------------------------------------------------------
(* The segues of the storyboard that start at a controller.                *)
Segues(screen) ==
  CASE screen = "courses"     -> {"catsegue", "newcoursesegue"}
    [] screen = "categories"  -> {"asssegue", "newcatsegue", "editcatsegue"}
    [] screen = "assignments" -> {"newasssegue", "editasssegue"}
    [] OTHER                  -> {}

Ready == running /\ form = None /\ ~menu

(* A controller listing what ref names is pushed, and starts to listen.    *)
Show(screen, ref) ==
  /\ stack' = Append(stack, [screen |-> screen, ref |-> ref])
  /\ listening' = listening \cup {[screen |-> screen, ref |-> ref]}
  /\ UNCHANGED <<menu, form, rollups, running>>

Present(kind, mode, ref) ==
  /\ form' = [kind |-> kind, mode |-> mode, ref |-> ref]
  /\ UNCHANGED <<stack, menu, listening, rollups, running>>

SignIn ==
  /\ Ready
  /\ Top.screen = "login"
  /\ Show("courses", Users)

(* A row of the course list is tapped: catsegue.                           *)
catsegue(k) ==
  /\ Ready
  /\ Top.screen = "courses"
  /\ k \in In(Top.ref)
  /\ Show("categories", Users \o k \o "/categories/")

asssegue(k) ==
  /\ Ready
  /\ Top.screen = "categories"
  /\ k \in In(Top.ref)
  /\ Show("assignments", Top.ref \o k \o "/assignments/")

newcatsegue ==
  /\ Ready
  /\ Top.screen = "categories"
  /\ Present("category", "new", Top.ref)

editcatsegue(k) ==
  /\ Ready
  /\ Top.screen = "categories"
  /\ k \in In(Top.ref)
  /\ Present("category", "edit", Top.ref \o k)

newasssegue ==
  /\ Ready
  /\ Top.screen = "assignments"
  /\ Present("assignment", "new", Top.ref)

(* MUTANT of editasssegue: the form is handed the ref of a new assignment. *)
editasssegueNoId(k) ==
  /\ Ready
  /\ Top.screen = "assignments"
  /\ k \in In(Top.ref)
  /\ Present("assignment", "edit", Top.ref)

(* Both a tap on an assignment and the action Edit.                        *)
editasssegue(k) ==
  /\ Ready
  /\ Top.screen = "assignments"
  /\ k \in In(Top.ref)
  /\ Present("assignment", "edit", Top.ref \o k)

(* The + of the course list has an action and a segue, of which UIKit      *)
(* performs one.                                                           *)
newcoursesegue ==
  /\ Ready
  /\ Top.screen = "courses"
  /\ Present("course", "new", Users)

addButtonPressed ==
  /\ Ready
  /\ Top.screen = "courses"
  /\ menu' = TRUE
  /\ UNCHANGED <<stack, form, listening, rollups, running>>

(* Cancel, Category and Assignment close the menu and do nothing.          *)
OtherAction ==
  /\ running /\ menu
  /\ menu' = FALSE
  /\ UNCHANGED <<stack, form, listening, rollups, running>>

(* performSegue raises an exception for a segue that does not exist.       *)
newCourseAction ==
  /\ running /\ menu
  /\ menu' = FALSE
  /\ IF "editcoursesegue" \in Segues(Top.screen)
     THEN /\ form' = [kind |-> "course", mode |-> "edit", ref |-> Users]
          /\ UNCHANGED running
     ELSE running' = FALSE /\ UNCHANGED form
  /\ UNCHANGED <<stack, listening, rollups>>

(* The form stores its entry, or is closed.                                *)
Dismiss ==
  /\ running /\ form # None
  /\ form' = None
  /\ UNCHANGED <<stack, menu, listening, rollups, running>>

Back ==
  /\ Ready
  /\ Top.screen \in {"categories", "assignments"}
  /\ stack' = SubSeq(stack, 1, Len(stack) - 1)
  /\ UNCHANGED <<menu, form, listening, rollups, running>>

(* MUTANT of Above: "/assignments/" is cut off whole.                      *)
AboveByThirteen(ref) == SubSeq(ref, 1, Len(ref) - 13)

(* The string a roll-up takes to name the document above a collection.     *)
Above(ref) == SubSeq(ref, 1, Len(ref) - 12)

(* A listener, of a controller shown or left, stores its roll-up.          *)
RollUp(l) ==
  /\ running
  /\ l.screen \in {"categories", "assignments"}
  /\ rollups' = rollups \cup {<<l, Above(l.ref)>>}
  /\ UNCHANGED <<stack, menu, form, listening, running>>

Login == <<[screen |-> "login", ref |-> ""]>>

(* The process is started again after its end, whatever the reason.        *)
Relaunch ==
  /\ stack' = Login
  /\ menu' = FALSE
  /\ form' = None
  /\ listening' = {}
  /\ running' = TRUE
  /\ UNCHANGED rollups

Init ==
  /\ stack = Login
  /\ menu = FALSE
  /\ form = None
  /\ listening = {}
  /\ rollups = {}
  /\ running = TRUE

Next ==
  \/ SignIn
  \/ \E k \in Docs : catsegue(k) \/ asssegue(k) \/ editcatsegue(k) \/ editasssegue(k)
  \/ newcoursesegue \/ newcatsegue \/ newasssegue
  \/ addButtonPressed \/ newCourseAction \/ OtherAction
  \/ Dismiss \/ Back \/ Relaunch
  \/ \E l \in listening : RollUp(l)

Spec == Init /\ [][Next]_vars
-----------------------------------------------------------------------------
(* Whatever the lengths of the ids and of the collection's name, a roll-up *)
(* is stored in the one document above the rows it was computed from.      *)
RollUpAboveRows ==
  \A r \in rollups :
    /\ In(r[1].ref) # {}
    /\ \A k \in In(r[1].ref) : Named(r[2]) = {Parent[k]}

(* The form on the screen writes to the collection the screen beneath it   *)
(* lists: to the collection itself, or to the document of one of its rows. *)
FormOverItsList ==
  form # None =>
    /\ <<Top.screen, form.kind>> \in {<<"courses", "course">>,
                                      <<"categories", "category">>,
                                      <<"assignments", "assignment">>}
    /\ CASE form.mode = "new"  -> form.ref = Top.ref
         [] form.mode = "edit" -> \E k \in In(Top.ref) : Named(form.ref) = {k}
=============================================================================
