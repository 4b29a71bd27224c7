---------------------------- MODULE MCGradeKeep ----------------------------
(* Small instances of GradeKeep for TLC.                                   *)
EXTENDS GradeKeep, TLC

CONSTANTS c1, k1, k2, a1, a2, d1

NoRestart  == [d \in Devices |-> 0]
OneRestart == [d \in Devices |-> 1]

(* k2, where there is one, holds a2; every other assignment is in k1.      *)
MCParent == [k \in Docs |->
  CASE k \in Courses     -> Root
    [] k \in Categories  -> c1
    [] k \in Assignments -> IF k = a2 /\ k2 \in Categories THEN k2 ELSE k1]

Zero == [course_grade |-> 0]
Half == [credit |-> 1, total |-> 2]
Full == [credit |-> 2, total |-> 2]
MCMarks == {Half, Full}
HalfOrNone == {Half, [credit |-> 0, total |-> 2]}

(* The account holds a course without categories.                          *)
CourseOnly == [k \in Docs |-> IF k = c1 THEN [input |-> Zero, grade |-> Missing]
                              ELSE Missing]
(* It holds a course with empty categories, all rolled up.                 *)
EmptyCategories ==
  [k \in Docs |-> CASE k \in Courses     -> [input |-> Zero, grade |-> 0]
                    [] k \in Categories  -> [input |-> [weight |-> 1], grade |-> 0]
                    [] k \in Assignments -> Missing]
(* It holds a course, a category and one marked assignment.                *)
OneMark ==
  [k \in Docs |-> CASE k = c1 -> [input |-> Zero, grade |-> 5000]
                    [] k = k1 -> [input |-> [weight |-> 1], grade |-> 5000]
                    [] k = a1 -> [input |-> Half, grade |-> 5000]
                    [] OTHER  -> Missing]

(* The server has an account and each device d shows the first depth[d] of *)
(* the lists Root, c1, k1, with nothing under way; with none of them it is *)
(* a fresh installation.  Spec reaches this by launching the app, showing  *)
(* c1 and k1, and synchronising.                                           *)
LookingInit(account, depth) ==
  LET path(d) == [i \in 1 .. depth[d] |->
                    [device |-> d, list |-> <<Root, c1, k1>>[i], nr |-> 1]]
      opened  == {path(d)[i] : <<d, i>> \in
                    {x \in Devices \X (1 .. 3) : x[2] <= depth[x[1]]}}
  IN  /\ server = account
      /\ cache = [d \in Devices |->
                    [k \in Docs |->
                       IF \E v \in opened : v.device = d /\ v.list = Parent[k]
                       THEN account[k] ELSE Missing]]
      /\ queue = [d \in Devices |-> <<>>]
      /\ live = opened
      /\ stack = [d \in Devices |-> path(d)]
      /\ mainq = [d \in Devices |-> <<>>]
      /\ table = [v \in Views |-> IF v \in opened
                                 THEN Snapshot(<<>>, account, v.list)
                                 ELSE NotLoaded]
      /\ form = [d \in Devices |-> Closed]

Stored(account) == {k \in Docs : account[k] # Missing}

(* The bounds on operations and restarts are still before them.            *)
AtFirst == used = Stored(Seed) /\ edits = 0 /\ restarts = [d \in Devices |-> 0]

AllInK1    == [d \in Devices |-> 3]
D1InC1     == [d \in Devices |-> IF d = d1 THEN 2 ELSE 3]
Outside(d) == [e \in Devices |-> IF e = d THEN 0 ELSE 3]

(* All users are in k1 and stay there: the process of each was restarted   *)
(* before.  Either nothing was ever in k1, or all assignments were and one *)
(* is left.                                                                *)
SameScreenInit ==
  /\ \/ LookingInit(EmptyCategories, AllInK1) /\ used = Stored(EmptyCategories)
     \/ LookingInit(OneMark, AllInK1) /\ used = Docs
  /\ edits = 0 /\ restarts = OneRestart

(* One device is installed while the others look at k1.  Nobody types.     *)
JoiningInit ==
  \E d \in Devices :
    /\ LookingInit(OneMark, Outside(d)) /\ used = Docs
    /\ edits = MaxEdits /\ restarts = [OneRestart EXCEPT ![d] = 0]

NoBack == ~\E d \in Devices : Back(d)

SameScreenSpec == (SameScreenInit \/ JoiningInit) /\ [][Next /\ NoBack]_vars

(* The user of d1 stays in c1, the other one in k1.                        *)
TwoScreensSpec ==
  LookingInit(Seed, D1InC1) /\ AtFirst /\ [][Next /\ stack' = stack]_vars

FairTwoScreensSpec == TwoScreensSpec /\ Fairness

(* The users come and go, starting in k1.                                  *)
LookingSpec == LookingInit(Seed, AllInK1) /\ AtFirst /\ [][Next]_vars

(* No action and no property of SameScreen tells devices apart, or the     *)
(* assignments of one category.                                            *)
Interchangeable == Permutations(Devices) \cup Permutations(Assignments)

(* Overlay is the fold of Apply over the queue, for every queue of up to   *)
(* three writes of k1 over every copy of it.                               *)
Replayed(q, x) == LET R[i \in 0 .. Len(q)] ==
                        IF i = 0 THEN x ELSE Apply(q[i], R[i - 1])
                  IN  R[Len(q)]

ASSUME OverlayReplays ==
  \A n \in 0 .. 3 : \A q \in [1 .. n -> Writes(k1)] :
    \A x \in Doc(k1) \cup {Missing} : Overlay(q, x, k1) = Replayed(q, x)
=============================================================================
