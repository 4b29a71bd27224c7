------------------------------- MODULE Grades -------------------------------
(***************************************************************************)
(* The grade arithmetic of GradeKeep.  The app computes with Doubles and   *)
(* rounds every grade to two decimals before it stores it, so a stored     *)
(* grade is a whole number of hundredths of a percent: 87.50% is 8750.     *)
(* Two further values are reachable: Inf (a positive amount over zero) and *)
(* NaN (zero over zero, or zero times Inf).                                *)
(*                                                                         *)
(* A roll-up is over the rows of a snapshot: a function from the ids of    *)
(* the documents in a collection to what each row holds.                   *)
(***************************************************************************)
EXTENDS Integers, FiniteSetsExt

CONSTANTS Inf, NaN

ASSUME SpecialValues == Inf \notin Nat /\ NaN \notin Nat /\ Inf # NaN

(***************************************************************************)
(* round(n / d) for naturals, ties away from zero as Swift's round does,   *)
(* and what a Double division gives when d is zero.                        *)
(***************************************************************************)
RoundedQuotient(n, d) ==
  IF d > 0 THEN (2 * n + d) \div (2 * d)
  ELSE IF n = 0 THEN NaN ELSE Inf

(* The assgrade the form stores with a mark: 10000 * credit / totalcredit. *)
AssignmentGrade(mark) == RoundedQuotient(10000 * mark.credit, mark.total)

(* The catgrade of the marks of a category: credits earned over credits    *)
(* possible, and 0 when no credit was earned.                              *)
CategoryGrade(marks) ==
  LET creditsum      == MapThenSumSet(LAMBDA a : marks[a].credit, DOMAIN marks)
      totalcreditsum == MapThenSumSet(LAMBDA a : marks[a].total, DOMAIN marks)
  IN  IF creditsum = 0 THEN 0
      ELSE RoundedQuotient(10000 * creditsum, totalcreditsum)

(* Double multiplication of a finite weight by a grade.                    *)
Weighted(weight, grade) ==
  CASE grade = NaN -> NaN
    [] grade = Inf -> IF weight = 0 THEN NaN ELSE Inf
    [] OTHER       -> weight * grade

(* Double addition, folded over the rows: NaN absorbs, then Inf.           *)
WeightedSum(cats) ==
  LET terms == {Weighted(cats[k].weight, cats[k].grade) : k \in DOMAIN cats}
  IN  CASE NaN \in terms -> NaN
        [] NaN \notin terms /\ Inf \in terms -> Inf
        [] OTHER -> MapThenSumSet(LAMBDA k : cats[k].weight * cats[k].grade,
                                  DOMAIN cats)

(* The cgrade of the categories of a course: the weighted mean of their    *)
(* catgrades, and 0 when the weighted sum is 0.                            *)
CourseGrade(cats) ==
  LET sum       == WeightedSum(cats)
      weightsum == MapThenSumSet(LAMBDA k : cats[k].weight, DOMAIN cats)
  IN  CASE sum = 0 -> 0
        [] sum \in {Inf, NaN} -> sum
        [] OTHER -> RoundedQuotient(sum, weightsum)
=============================================================================
