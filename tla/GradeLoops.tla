----------------------------- MODULE GradeLoops -----------------------------
(***************************************************************************)
(* The loops with which the two snapshot handlers compute a grade, row by  *)
(* row.  Grades states what they compute in closed form; this module says  *)
(* how: sums that start at zero, one row after the other in the order of   *)
(* the snapshot, and the case in which a sum is zero.  Amounts are         *)
(* naturals, and a Double that is none is Inf or NaN.                      *)
(***************************************************************************)
EXTENDS Grades

CONSTANTS
  Ids,      \* the documents of a collection
  Marks,    \* the credit / totalcredit pairs of an assignment
  Shares,   \* the weight / grade pairs of a category
  Pending   \* no grade yet

(* The grade of a category is never NaN (Undefined, below).                *)
LoopsAssumption ==
  /\ IsFiniteSet(Ids)
  /\ Marks \subseteq [credit : Nat, total : Nat]
  /\ Shares \subseteq [weight : Nat, grade : Nat \cup {Inf}]
  /\ Pending \notin Nat \cup {Inf, NaN}

VARIABLES
  kind,     \* the collection: "assignments" or "categories"
  rows,     \* the rows of the snapshot
  todo,     \* the rows the loop has not reached
  sum,      \* creditsum of assignments, sum of categories
  divisor,  \* totalcreditsum of assignments, weightsum of categories
  grade     \* what is stored above the collection, once the loop is done

vars == <<kind, rows, todo, sum, divisor, grade>>

(* Addition of Doubles.                                                    *)
Plus(x, y) ==
  CASE NaN \in {x, y} -> NaN
    [] NaN \notin {x, y} /\ Inf \in {x, y} -> Inf
    [] OTHER -> x + y

Init ==
  /\ \/ kind = "assignments" /\ rows \in UNION {[S -> Marks] : S \in SUBSET Ids}
     \/ kind = "categories" /\ rows \in UNION {[S -> Shares] : S \in SUBSET Ids}
  /\ todo = DOMAIN rows
  /\ sum = 0
  /\ divisor = 0
  /\ grade = Pending

(* The body of the loop over assignments, and over categories.             *)
CountAssignment(a) ==
  /\ kind = "assignments"
  /\ a \in todo
  /\ todo' = todo \ {a}
  /\ sum' = sum + rows[a].credit
  /\ divisor' = divisor + rows[a].total
  /\ UNCHANGED <<kind, rows, grade>>

(* MUTANT of CountCategory: a category that has no grade yet is skipped.   *)
CountCategoryGraded(k) ==
  /\ kind = "categories"
  /\ k \in todo
  /\ todo' = todo \ {k}
  /\ sum' = Plus(sum, Weighted(rows[k].weight, rows[k].grade))
  /\ divisor' = divisor + (IF rows[k].grade = 0 THEN 0 ELSE rows[k].weight)
  /\ UNCHANGED <<kind, rows, grade>>

(* MUTANT of CountCategory: the weights are taken to sum up to 100%.       *)
CountCategoryNoWeight(k) ==
  /\ kind = "categories"
  /\ k \in todo
  /\ todo' = todo \ {k}
  /\ sum' = Plus(sum, Weighted(rows[k].weight, rows[k].grade))
  /\ divisor' = 1
  /\ UNCHANGED <<kind, rows, grade>>

CountCategory(k) ==
  /\ kind = "categories"
  /\ k \in todo
  /\ todo' = todo \ {k}
  /\ sum' = Plus(sum, Weighted(rows[k].weight, rows[k].grade))
  /\ divisor' = divisor + rows[k].weight
  /\ UNCHANGED <<kind, rows, grade>>

(* MUTANT of Quotient: nothing is done about sums of zero.                 *)
QuotientAlways(n, d) ==
  IF n \in {Inf, NaN} THEN n ELSE RoundedQuotient(n, d)

(* The grade after the loop, with zero for a sum of zero.                  *)
Quotient(n, d) ==
  CASE n = 0 -> 0
    [] n \in {Inf, NaN} -> n
    [] OTHER -> RoundedQuotient(n, d)

FinishAssignments ==
  /\ kind = "assignments" /\ todo = {} /\ grade = Pending
  /\ grade' = Quotient(10000 * sum, divisor)
  /\ UNCHANGED <<kind, rows, todo, sum, divisor>>

FinishCategories ==
  /\ kind = "categories" /\ todo = {} /\ grade = Pending
  /\ grade' = Quotient(sum, divisor)
  /\ UNCHANGED <<kind, rows, todo, sum, divisor>>

Next ==
  \/ \E k \in Ids : CountAssignment(k) \/ CountCategory(k)
  \/ FinishAssignments
  \/ FinishCategories

Spec == Init /\ [][Next]_vars
-----------------------------------------------------------------------------
Done == grade # Pending

(* The grades of the rows: the assgrades or the catgrades.                 *)
RowGrades ==
  {IF kind = "assignments" THEN AssignmentGrade(rows[k]) ELSE rows[k].grade :
     k \in DOMAIN rows}

Finite(S) == S \cap {Inf, NaN} = {}

(* The rows that count: those with an amount to divide by.                 *)
Counting ==
  {k \in DOMAIN rows :
     IF kind = "assignments" THEN rows[k].total > 0 ELSE rows[k].weight > 0}

(* In whatever order the rows come, the loop ends with what Grades says.   *)
LoopsComputeGrades ==
  Done => grade = IF kind = "assignments" THEN CategoryGrade(rows)
                                          ELSE CourseGrade(rows)

(* A grade that is stored is an average: with finite grades in the rows it *)
(* lies between the lowest and the highest of the rows that count, to the  *)
(* last hundredth, and is zero when no row counts.                         *)
GradeIsMean ==
  Done /\ Finite(RowGrades) =>
    LET counted == {IF kind = "assignments" THEN AssignmentGrade(rows[k])
                                            ELSE rows[k].grade : k \in Counting}
    IN  IF counted = {} THEN grade = 0
        ELSE /\ \E g \in counted : g <= grade
             /\ \E g \in counted : grade <= g

(* Totals and weights of zero: the grade of a category is never undefined, *)
(* and infinite only when no assignment has a total and one has credit;    *)
(* the grade of a course is infinite or undefined only because the grade   *)
(* of a category is, and undefined only if such a category weighs nothing. *)
Undefined ==
  Done =>
    CASE kind = "assignments" ->
           /\ grade # NaN
           /\ grade = Inf <=> /\ Counting = {}
                              /\ \E a \in DOMAIN rows : rows[a].credit > 0
      [] kind = "categories" ->
           /\ grade \in {Inf, NaN} <=> ~Finite(RowGrades)
           /\ grade = NaN <=> \E k \in DOMAIN rows :
                                rows[k].grade = Inf /\ rows[k].weight = 0
=============================================================================
