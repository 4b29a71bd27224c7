------------------------ MODULE AddCoursePageProofs ------------------------
(***************************************************************************)
(* The table of the page Add Course and what is posted of it, for any      *)
(* texts, numbers of rows, edits and presses of the button.                *)
(***************************************************************************)
EXTENDS AddCoursePage, FlattenProofs, FiniteSetTheorems

RowType == [nr : Nat \cup {Fixed}, name : Names \cup {""}, weight : Weights \cup {""}]

(* FieldNumbers, and what rows and counter are.                            *)
Table ==
  /\ rows \in Seq(RowType)
  /\ counter \in Nat
  /\ FieldNumbers

LEMMA TableInit == Init => Table
<1> SUFFICES ASSUME Init PROVE Table
  OBVIOUS
<1> DEFINE r == Row(Fixed)
<1>1. rows = <<r>> /\ counter = 0
  BY DEF Init
<1>2. r \in RowType /\ r.nr = Fixed
  BY DEF Row, RowType
<1> HIDE DEF r
<1>3. rows \in Seq(RowType) /\ Len(rows) = 1 /\ rows[1] = r
  BY <1>1, <1>2
<1> QED
  BY <1>1, <1>2, <1>3 DEF Table, FieldNumbers

(* A row that is added has the last number, which no row above it exceeds  *)
(* by being too small.                                                     *)
LEMMA AddKeepsTable == Table /\ AddCategory => Table'
<1> SUFFICES ASSUME Table, AddCategory PROVE Table'
  OBVIOUS
<1> DEFINE r == Row(counter)
<1>1. rows' = Append(rows, r) /\ counter' = counter + 1
  BY DEF AddCategory
<1>2. r \in RowType /\ r.nr = counter
  BY DEF Table, Row, RowType
<1> HIDE DEF r
<1>3. rows' \in Seq(RowType) /\ Len(rows') = Len(rows) + 1
  BY <1>1, <1>2 DEF Table
<1>4. /\ \A i \in 1 .. Len(rows) : rows'[i] = rows[i]
      /\ rows'[Len(rows) + 1] = r
  BY <1>1, <1>2 DEF Table
<1>5. Len(rows) = counter + 1 /\ Len(rows) \in Nat
  BY DEF Table, FieldNumbers
<1>6. rows'[1].nr = Fixed
  BY <1>4, <1>5 DEF Table, FieldNumbers
<1>7. ASSUME NEW i \in 2 .. Len(rows')
      PROVE  rows'[i].nr \in Nat /\ rows'[i].nr >= i - 2
  <2>1. CASE i <= Len(rows)
    BY <2>1, <1>4, <1>5 DEF Table, FieldNumbers
  <2>2. CASE i = Len(rows) + 1
    BY <2>2, <1>2, <1>4, <1>5 DEF Table
  <2> QED
    BY <2>1, <2>2, <1>3, <1>5
<1> QED
  BY <1>1, <1>3, <1>5, <1>6, <1>7 DEF Table, FieldNumbers

(* A place from d on, among l - 1, as a place among the l - d below d.      *)
LEMMA PlaceBelow ==
  ASSUME NEW l \in Int, NEW d \in Int, NEW k \in Int,
         2 <= d, d <= l, 1 <= k, k <= l - 1, d <= k
  PROVE  /\ k \in 1 .. (d - 1) + (l - d) /\ ~(k <= d - 1)
         /\ k - (d - 1) \in 1 .. l - d /\ d + (k - (d - 1)) = k + 1
  OBVIOUS

(* The rows below one that is deleted move up and keep their numbers.      *)
LEMMA DeleteKeepsTable ==
  ASSUME NEW d \in DOMAIN rows, Table, DeleteRow(d) PROVE Table'
<1>1. /\ rows' = SubSeq(rows, 1, d - 1) \o SubSeq(rows, d + 1, Len(rows))
      /\ counter' = counter - 1 /\ rows[d].nr # Fixed
  BY DEF DeleteRow, RemoveAt
<1>2. /\ rows \in Seq(RowType) /\ counter \in Nat /\ Len(rows) = counter + 1
      /\ Len(rows) \in Nat /\ d \in 1 .. Len(rows) /\ rows[1].nr = Fixed
  BY DEF Table, FieldNumbers
<1>3. d \in 2 .. Len(rows)
  BY <1>1, <1>2
<1> DEFINE above == SubSeq(rows, 1, d - 1)
           below == SubSeq(rows, d + 1, Len(rows))
<1>4. /\ above \in Seq(RowType) /\ Len(above) = d - 1
      /\ \A i \in 1 .. d - 1 : above[i] = rows[i]
  BY <1>2, <1>3
<1>5. /\ below \in Seq(RowType) /\ Len(below) = Len(rows) - d
      /\ \A i \in 1 .. Len(rows) - d : below[i] = rows[d + i]
  BY <1>2, <1>3
<1>6. rows' = above \o below
  BY <1>1
<1> HIDE DEF above, below
<1>7. /\ rows' \in Seq(RowType) /\ Len(rows') = Len(rows) - 1
      /\ \A i \in 1 .. Len(rows') :
           rows'[i] = IF i < d THEN rows[i] ELSE rows[i + 1]
  <2>1. /\ rows' \in Seq(RowType) /\ Len(rows') = Len(above) + Len(below)
        /\ \A i \in 1 .. Len(above) + Len(below) :
             rows'[i] = IF i <= Len(above) THEN above[i] ELSE below[i - Len(above)]
    BY <1>4, <1>5, <1>6, ConcatProperties
  <2>2. Len(rows') = Len(rows) - 1
    BY <2>1, <1>2, <1>3, <1>4, <1>5
  <2>3. ASSUME NEW i \in 1 .. Len(rows'), i < d PROVE rows'[i] = rows[i]
    <3>1. i \in 1 .. Len(above) + Len(below) /\ i <= Len(above) /\ i \in 1 .. d - 1
      BY <2>1, <2>3, <1>2, <1>3, <1>4
    <3> QED
      BY <3>1, <2>1, <1>4
  <2>4. ASSUME NEW i \in 1 .. Len(rows'), ~(i < d) PROVE rows'[i] = rows[i + 1]
    <3> DEFINE j == i - Len(above)
    <3>1. /\ i \in 1 .. Len(above) + Len(below) /\ ~(i <= Len(above))
          /\ j \in 1 .. Len(rows) - d /\ d + j = i + 1
      <4>1. i \in 1 .. Len(rows) - 1
        BY <2>2
      <4> QED
        <5> DEFINE l == Len(rows)
        <5>1. l \in Int /\ d \in Int /\ i \in Int /\ 2 <= d /\ d <= l
              /\ 1 <= i /\ i <= l - 1 /\ d <= i
          BY <4>1, <2>4, <1>2, <1>3
        <5>2. Len(above) = d - 1 /\ Len(below) = l - d
          BY <1>4, <1>5
        <5> HIDE DEF l
        <5>3. /\ i \in 1 .. (d - 1) + (l - d) /\ ~(i <= d - 1)
              /\ i - (d - 1) \in 1 .. l - d /\ d + (i - (d - 1)) = i + 1
          BY <5>1, PlaceBelow
        <5> QED
          BY <5>2, <5>3 DEF l
    <3>2. rows'[i] = below[j]
      BY <3>1, <2>1
    <3> HIDE DEF j
    <3>3. below[j] = rows[d + j]
      BY <3>1, <1>5
    <3> QED
      BY <3>1, <3>2, <3>3
  <2> QED
    BY <2>1, <2>2, <2>3, <2>4
<1>8. rows'[1].nr = Fixed
  BY <1>2, <1>3, <1>7
<1>9. ASSUME NEW i \in 2 .. Len(rows')
      PROVE  rows'[i].nr \in Nat /\ rows'[i].nr >= i - 2
  <2>1. \A j \in 2 .. Len(rows) : rows[j].nr \in Nat /\ rows[j].nr >= j - 2
    BY DEF Table, FieldNumbers
  <2>2. i \in 2 .. Len(rows) /\ i + 1 \in 2 .. Len(rows)
    BY <1>2, <1>7
  <2>3. CASE i < d
    BY <2>1, <2>2, <2>3, <1>7
  <2>4. CASE ~(i < d)
    <3>1. rows'[i] = rows[i + 1]
      BY <2>2, <2>4, <1>7
    <3>2. rows[i + 1].nr \in Nat /\ rows[i + 1].nr >= (i + 1) - 2
      BY <2>1, <2>2
    <3> QED
      BY <3>1, <3>2, <2>2
  <2> QED
    BY <2>3, <2>4
<1>10. counter' \in Nat /\ Len(rows') = counter' + 1
  BY <1>1, <1>2, <1>3, <1>7
<1> QED
  BY <1>7, <1>8, <1>9, <1>10 DEF Table, FieldNumbers

LEMMA TypeKeepsTable ==
  ASSUME NEW n \in DOMAIN rows, NEW name \in Names, NEW weight \in Weights,
         Table, Type(n, name, weight)
  PROVE  Table'
<1> DEFINE r == [rows[n] EXCEPT !.name = name, !.weight = weight]
<1>1. /\ rows \in Seq(RowType) /\ n \in 1 .. Len(rows) /\ Len(rows) \in Nat
      /\ rows' = [rows EXCEPT ![n] = r] /\ counter' = counter
  BY DEF Table, Type
<1>2. rows[n] \in RowType
  BY <1>1
<1>3. r \in RowType /\ r.nr = rows[n].nr
  BY <1>2 DEF RowType
<1> HIDE DEF r
<1>4. /\ rows' \in Seq(RowType) /\ Len(rows') = Len(rows)
      /\ \A i \in 1 .. Len(rows) : rows'[i].nr = rows[i].nr
  BY <1>1, <1>3
<1>5. Len(rows) = counter + 1 /\ counter \in Nat
  BY DEF Table, FieldNumbers
<1>6. rows'[1].nr = Fixed
  BY <1>4, <1>5 DEF Table, FieldNumbers
<1>7. \A i \in 2 .. Len(rows') : rows'[i].nr \in Nat /\ rows'[i].nr >= i - 2
  BY <1>4, <1>5 DEF Table, FieldNumbers
<1> QED
  BY <1>1, <1>4, <1>5, <1>6, <1>7 DEF Table, FieldNumbers

LEMMA StepKeepsTable == Table /\ [Next]_vars => Table'
<1> SUFFICES ASSUME Table, [Next]_vars PROVE Table'
  OBVIOUS
<1>1. CASE AddCategory
  BY <1>1, AddKeepsTable
<1>2. ASSUME NEW i \in DOMAIN rows, DeleteRow(i) PROVE Table'
  BY <1>2, DeleteKeepsTable
<1>3. ASSUME NEW i \in DOMAIN rows, NEW name \in Names, NEW weight \in Weights,
             Type(i, name, weight)
      PROVE  Table'
  BY <1>3, TypeKeepsTable
<1>4. CASE rows' = rows /\ counter' = counter
  BY <1>4 DEF Table, FieldNumbers
<1>5. ASSUME NEW name \in Titles, TypeCourse(name) PROVE Table'
  BY <1>4, <1>5 DEF TypeCourse
<1>6. CASE AddCourse
  BY <1>4, <1>6 DEF AddCourse
<1>7. ASSUME NEW i \in DOMAIN requests, Route(i) \/ Fail(i) \/ Success(i) PROVE Table'
  BY <1>4, <1>7 DEF Route, Fail, Success
<1>8. CASE UNCHANGED vars
  BY <1>4, <1>8 DEF vars
<1> QED
  BY <1>1, <1>2, <1>3, <1>5, <1>6, <1>7, <1>8 DEF Next

(* However rows are added, deleted and typed into, counter is the number of*)
(* rows that can be deleted, and no row has a number below its place.      *)
THEOREM RowsAreNumbered == Spec => []FieldNumbers
<1>1. Spec => []Table
  BY TableInit, StepKeepsTable, PTL DEF Spec
<1>2. Table => FieldNumbers
  BY DEF Table
<1> QED
  BY <1>1, <1>2, PTL
-----------------------------------------------------------------------------
(* The recursion by which Body goes through a table: backwards, from the   *)
(* last of the rows to do.                                                 *)
First(course) == <<<<CourseKey, course>>>>

Step(g, s, course, table) ==
  IF s = {} THEN First(course)
  ELSE Put(g[s \ {Max(s)}], table[Max(s)].name, table[Max(s)].weight)

Fold(g, all, course, table) ==
  g = [s \in all |->
         IF s = {} THEN <<<<CourseKey, course>>>>
         ELSE Put(g[s \ {Max(s)}], table[Max(s)].name, table[Max(s)].weight)]

LEMMA BodyIsFold ==
  ASSUME NEW course, NEW table
  PROVE  Body(course, table) =
           (CHOOSE g : Fold(g, SUBSET DOMAIN table, course, table))[DOMAIN table]
BY DEF Body, FoldLeft, MapThenFoldSet, Fold

(* The recursion has a solution.                                           *)
LEMMA FoldExists ==
  ASSUME NEW course, NEW table, NEW n \in Nat
  PROVE  \E g : Fold(g, SUBSET (1 .. n), course, table)
<1> DEFINE T == {k \in Nat : \E g : Fold(g, SUBSET (1 .. k), course, table)}
<1>1. 0 \in T
  <2> DEFINE g == [s \in SUBSET (1 .. 0) |-> First(course)]
  <2>1. SUBSET (1 .. 0) = {{}}
    OBVIOUS
  <2>2. Fold(g, SUBSET (1 .. 0), course, table)
    BY <2>1 DEF Fold, First
  <2> QED
    BY <2>2
<1>2. ASSUME NEW k \in Nat, k \in T PROVE k + 1 \in T
  <2>1. PICK g : Fold(g, SUBSET (1 .. k), course, table)
    BY <1>2
  <2> DEFINE h == [s \in SUBSET (1 .. k + 1) |-> Step(g, s, course, table)]
  <2>2. \A s \in SUBSET (1 .. k) : s \in SUBSET (1 .. k + 1) /\ h[s] = g[s]
    <3> TAKE s \in SUBSET (1 .. k)
    <3>1. s \in SUBSET (1 .. k + 1)
      OBVIOUS
    <3>2. h[s] = Step(g, s, course, table)
      BY <3>1
    <3>3. g[s] = Step(g, s, course, table)
      BY <2>1 DEF Fold, Step, First
    <3> QED
      BY <3>1, <3>2, <3>3
  <2>3. ASSUME NEW s \in SUBSET (1 .. k + 1), s # {}
        PROVE  s \ {Max(s)} \in SUBSET (1 .. k)
    <3>1. Max(s) \in s /\ \A y \in s : Max(s) >= y
      <4> HIDE DEF h, T
      <4>1. k + 1 \in Nat
        OBVIOUS
      <4> QED
        BY <2>3, <4>1, GreatestIs
    <3>2. ASSUME NEW y \in s \ {Max(s)} PROVE y \in 1 .. k
      <4>1. Max(s) \in 1 .. k + 1 /\ y \in 1 .. k + 1 /\ Max(s) >= y /\ Max(s) # y
        BY <3>1, <3>2
      <4> QED
        BY <4>1
    <3> QED
      BY <3>2
  <2>4. \A s \in SUBSET (1 .. k + 1) :
          Step(g, s, course, table) = Step(h, s, course, table)
    <3> HIDE DEF h
    <3> QED
      BY <2>2, <2>3 DEF Step
  <2>5. h = [s \in SUBSET (1 .. k + 1) |-> Step(h, s, course, table)]
    BY <2>4
  <2>6. Fold(h, SUBSET (1 .. k + 1), course, table)
    <3> HIDE DEF h
    <3> QED
      BY <2>5 DEF Fold, Step, First
  <2> HIDE DEF h
  <2> QED
    BY <2>6
<1> QED
  <2> HIDE DEF T
  <2>1. n \in T
    BY <1>1, <1>2, SetInduction
  <2> QED
    BY <2>1 DEF T

(* What a row is entered into: a row at a time, from the first on.         *)
LEMMA BodyOfPrefix ==
  ASSUME NEW course, NEW R, NEW table \in Seq(R)
  PROVE  \E g : /\ g[0] = First(course)
                /\ \A k \in 1 .. Len(table) :
                     g[k] = Put(g[k - 1], table[k].name, table[k].weight)
                /\ Body(course, table) = g[Len(table)]
<1> DEFINE n == Len(table)
           f == CHOOSE g : Fold(g, SUBSET (1 .. n), course, table)
           h == [k \in 0 .. n |-> f[1 .. k]]
<1>1. n \in Nat /\ DOMAIN table = 1 .. n
  OBVIOUS
<1>2. Fold(f, SUBSET (1 .. n), course, table)
  BY <1>1, FoldExists
<1>3. Body(course, table) = f[1 .. n]
  <2>1. Body(course, table) =
          (CHOOSE g : Fold(g, SUBSET DOMAIN table, course, table))[DOMAIN table]
    BY BodyIsFold
  <2> QED
    BY <1>1, <2>1, Zenon
<1> HIDE DEF f, n
<1>4. \A s \in SUBSET (1 .. n) : f[s] = Step(f, s, course, table)
  BY <1>2 DEF Fold, Step, First
<1>5. h[0] = First(course)
  <2>1. 1 .. 0 = {} /\ 0 \in 0 .. n
    BY <1>1
  <2> QED
    BY <1>4, <2>1 DEF Step
<1>6. ASSUME NEW k \in 1 .. n
      PROVE  h[k] = Put(h[k - 1], table[k].name, table[k].weight)
  <2>1. /\ k \in Nat /\ 1 .. k \in SUBSET (1 .. n) /\ 1 .. k # {}
        /\ k \in 0 .. n /\ k - 1 \in 0 .. n
    BY <1>1
  <2>2. Max(1 .. k) = k
    <3>1. Max(1 .. k) \in 1 .. k /\ \A y \in 1 .. k : Max(1 .. k) >= y
      <4> HIDE DEF h
      <4>1. 1 .. k \in SUBSET (1 .. k)
        OBVIOUS
      <4> QED
        BY <2>1, <4>1, GreatestIs
    <3>2. Max(1 .. k) >= k
      BY <3>1
    <3> QED
      BY <3>1, <3>2
  <2>3. (1 .. k) \ {k} = 1 .. (k - 1)
    BY <2>1
  <2>4. f[1 .. k] = Put(f[1 .. (k - 1)], table[k].name, table[k].weight)
    BY <1>4, <2>1, <2>2, <2>3 DEF Step
  <2> QED
    BY <2>1, <2>4
<1>7. h[n] = f[1 .. n]
  BY <1>1
<1> HIDE DEF h
<1> QED
  BY <1>3, <1>5, <1>6, <1>7 DEF n
-----------------------------------------------------------------------------
(* InsertAt adds one element and keeps all others.                         *)
LEMMA InsertIs ==
  ASSUME NEW S, NEW s \in Seq(S), NEW e \in S, NEW at \in 0 .. Len(s),
         NEW t, t = InsertAt(s, at + 1, e)
  PROVE  /\ t \in Seq(S)
         /\ \A i \in DOMAIN t : t[i] = e \/ \E j \in DOMAIN s : t[i] = s[j]
         /\ \E i \in DOMAIN t : t[i] = e
         /\ \A j \in DOMAIN s : \E i \in DOMAIN t : t[i] = s[j]
<1> DEFINE n == Len(s)
           above == SubSeq(s, 1, at)
           below == SubSeq(s, at + 1, n)
<1>1. n \in Nat /\ at \in Nat /\ at <= n /\ DOMAIN s = 1 .. n
  OBVIOUS
<1>2. /\ above \in Seq(S) /\ Len(above) = at
      /\ \A i \in 1 .. at : above[i] = s[i]
  OBVIOUS
<1>3. /\ below \in Seq(S) /\ Len(below) = n - at
      /\ \A i \in 1 .. n - at : below[i] = s[at + i]
  <2> HIDE DEF above
  <2>1. \A i \in at + 1 .. n : s[i] \in S
    BY <1>1
  <2>2. below = [i \in 1 .. n - at |-> s[at + i]]
    <3>1. below = [i \in 1 .. (IF at + 1 <= n THEN n - (at + 1) + 1 ELSE 0) |-> s[at + 1 + i - 1]]
      BY <1>1
    <3> HIDE DEF below, n
    <3>2. 1 .. (IF at + 1 <= n THEN n - (at + 1) + 1 ELSE 0) = 1 .. n - at
      BY <1>1
    <3>3. \A i \in 1 .. n - at : at + 1 + i - 1 = at + i
      BY <1>1
    <3> QED
      BY <3>1, <3>2, <3>3
  <2> HIDE DEF below, n
  <2>3. \A i \in 1 .. n - at : s[at + i] \in S
    BY <1>1, <2>1
  <2>4. n - at \in Nat
    BY <1>1
  <2> QED
    BY <2>2, <2>3, <2>4
<1>4. t = (above \o <<e>>) \o below
  <2>1. (at + 1) - 1 = at
    BY <1>1
  <2>2. t = (SubSeq(s, 1, (at + 1) - 1) \o <<e>>) \o SubSeq(s, at + 1, Len(s))
    BY Zenon DEF InsertAt
  <2> QED
    BY <2>1, <2>2, Zenon
<1> HIDE DEF above, below, n
<1> DEFINE u == above \o <<e>>
<1>5. /\ u \in Seq(S) /\ Len(u) = at + 1 /\ u[at + 1] = e
      /\ \A i \in 1 .. at : u[i] = above[i]
  BY <1>1, <1>2
<1>6. /\ t \in Seq(S) /\ Len(t) = n + 1 /\ DOMAIN t = 1 .. n + 1
      /\ \A k \in 1 .. n + 1 : t[k] = IF k <= at + 1 THEN u[k] ELSE below[k - (at + 1)]
  <2> HIDE DEF u
  <2>1. t = u \o below
    BY <1>4 DEF u
  <2>2. u \in Seq(S) /\ below \in Seq(S)
    BY <1>3, <1>5
  <2>3. /\ t \in Seq(S) /\ Len(t) = Len(u) + Len(below)
        /\ \A k \in 1 .. Len(u) + Len(below) :
             t[k] = IF k <= Len(u) THEN u[k] ELSE below[k - Len(u)]
    <3>1. /\ u \o below \in Seq(S) /\ Len(u \o below) = Len(u) + Len(below)
          /\ \A k \in 1 .. Len(u) + Len(below) :
               (u \o below)[k] = IF k <= Len(u) THEN u[k] ELSE below[k - Len(u)]
      BY <2>2, ConcatProperties
    <3> QED
      BY <2>1, <3>1, Zenon
  <2>4. Len(u) = at + 1 /\ Len(u) + Len(below) = n + 1
    BY <1>1, <1>3, <1>5
  <2>5. DOMAIN t = 1 .. Len(t)
    BY <2>3
  <2> QED
    BY <2>3, <2>4, <2>5
<1> HIDE DEF u
<1>7. \A i \in 1 .. at : t[i] = s[i]
  <2> TAKE i \in 1 .. at
  <2>1. i \in 1 .. n + 1 /\ i <= at + 1
    BY <1>1
  <2>2. t[i] = u[i]
    BY <1>6, <2>1
  <2> QED
    BY <1>2, <1>5, <2>2
<1>8. t[at + 1] = e
  <2>1. at + 1 \in 1 .. n + 1 /\ at + 1 <= at + 1
    BY <1>1
  <2> QED
    BY <1>5, <1>6, <2>1
<1>9. ASSUME NEW i \in at + 1 .. n PROVE t[i + 1] = s[i]
  <2> DEFINE j == i - at
  <2>1. /\ j \in 1 .. n - at /\ i + 1 \in 1 .. n + 1 /\ ~(i + 1 <= at + 1)
        /\ i + 1 - (at + 1) = j /\ at + j = i
    BY <1>1
  <2> HIDE DEF j
  <2>2. t[i + 1] = below[i + 1 - (at + 1)]
    BY <1>6, <2>1
  <2>3. t[i + 1] = below[j]
    BY <2>1, <2>2
  <2> QED
    BY <1>3, <2>1, <2>3
<1>10. ASSUME NEW i \in DOMAIN t PROVE t[i] = e \/ \E j \in DOMAIN s : t[i] = s[j]
  <2>1. CASE i \in 1 .. at
    BY <1>1, <1>7, <2>1
  <2>2. CASE i = at + 1
    BY <1>8, <2>2
  <2>3. CASE i > at + 1
    <3> DEFINE j == i - 1
    <3>1. j \in at + 1 .. n /\ j + 1 = i /\ j \in DOMAIN s
      BY <1>1, <1>6, <2>3
    <3> HIDE DEF j
    <3> QED
      BY <1>9, <3>1
  <2> QED
    BY <1>1, <1>6, <2>1, <2>2, <2>3
<1>11. \E i \in DOMAIN t : t[i] = e
  <2>1. at + 1 \in DOMAIN t
    BY <1>1, <1>6
  <2> QED
    BY <1>8, <2>1
<1>12. ASSUME NEW j \in DOMAIN s PROVE \E i \in DOMAIN t : t[i] = s[j]
  <2>1. CASE j <= at
    <3>1. j \in 1 .. at /\ j \in DOMAIN t
      BY <1>1, <1>6, <2>1
    <3> QED
      BY <1>7, <3>1
  <2>2. CASE ~(j <= at)
    <3>1. j \in at + 1 .. n /\ j + 1 \in DOMAIN t
      BY <1>1, <1>6, <2>2
    <3> QED
      BY <1>9, <3>1
  <2> QED
    BY <2>1, <2>2
<1> QED
  BY <1>6, <1>10, <1>11, <1>12
-----------------------------------------------------------------------------
(* What an object holds when the first k rows of a table are entered: as   *)
(* keys what was typed there and CourseKey, and under each the weight of   *)
(* the last of its rows, or else the course's name.                        *)
Texts    == Titles \cup {""}
PairType == ({CourseKey} \cup Names \cup {""}) \X (Texts \cup Weights)

Right(pair, course, table, k) ==
  \/ /\ \A n \in 1 .. k : table[n].name # pair[1]
     /\ pair[2] = course
  \/ \E n \in 1 .. k :
       /\ table[n].name = pair[1] /\ table[n].weight = pair[2]
       /\ \A m \in 1 .. k : table[m].name = pair[1] => m <= n

Holds(object, course, table, k) ==
  /\ object \in Seq(PairType)
  /\ Keys(object) = {CourseKey} \cup {table[n].name : n \in 1 .. k}
  /\ \A p \in DOMAIN object : Right(object[p], course, table, k)

(* One row more, whose name is a key already or is not.                    *)
LEMMA PutHolds ==
  ASSUME NEW course \in Texts, NEW table \in Seq(RowType),
         NEW k \in Nat, k + 1 <= Len(table),
         NEW object, Holds(object, course, table, k)
  PROVE  Holds(Put(object, table[k + 1].name, table[k + 1].weight), course, table, k + 1)
<1> DEFINE key == table[k + 1].name
           value == table[k + 1].weight
           e == <<key, value>>
           new == Put(object, key, value)
<1>1. table[k + 1] \in RowType
  <2>1. k + 1 \in 1 .. Len(table)
    OBVIOUS
  <2> QED
    BY <2>1
<1>2. /\ e \in PairType /\ e[1] = key /\ e[2] = value
  BY <1>1 DEF RowType, PairType, Texts
<1>3. 1 .. k + 1 = (1 .. k) \cup {k + 1} /\ \A m \in 1 .. k + 1 : m <= k + 1
  OBVIOUS
<1>4. Right(e, course, table, k + 1)
  BY <1>2, <1>3 DEF Right
<1>5. ASSUME NEW pair, pair[1] # key, Right(pair, course, table, k)
      PROVE  Right(pair, course, table, k + 1)
  <2>1. CASE (\A n \in 1 .. k : table[n].name # pair[1]) /\ pair[2] = course
    BY <1>3, <1>5, <2>1 DEF Right
  <2>2. ASSUME NEW n \in 1 .. k,
               table[n].name = pair[1] /\ table[n].weight = pair[2],
               \A m \in 1 .. k : table[m].name = pair[1] => m <= n
        PROVE  Right(pair, course, table, k + 1)
    <3>1. \A m \in 1 .. k + 1 : table[m].name = pair[1] => m <= n
      BY <1>3, <1>5, <2>2
    <3>2. n \in 1 .. k + 1
      BY <1>3
    <3> QED
      BY <2>2, <3>1, <3>2 DEF Right
  <2> QED
    BY <1>5, <2>1, <2>2 DEF Right
<1>6. /\ object \in Seq(PairType)
      /\ Keys(object) = {CourseKey} \cup {table[n].name : n \in 1 .. k}
      /\ \A p \in DOMAIN object : Right(object[p], course, table, k)
  BY DEF Holds
<1>7. {table[n].name : n \in 1 .. k + 1} = {table[n].name : n \in 1 .. k} \cup {key}
  BY <1>3
<1> HIDE DEF key, value, e, new
<1>8. CASE key \in Keys(object)
  <2>1. new = [i \in DOMAIN object |-> IF object[i][1] = key THEN e ELSE object[i]]
    BY <1>8 DEF Put, new, e
  <2>2. new \in Seq(PairType) /\ DOMAIN new = DOMAIN object
    <3>1. DOMAIN object = 1 .. Len(object) /\ Len(object) \in Nat
      BY <1>6
    <3>2. \A i \in DOMAIN object : object[i] \in PairType
      BY <1>6
    <3>3. DOMAIN new = 1 .. Len(object)
      BY <2>1, <3>1
    <3>4. \A i \in 1 .. Len(object) : new[i] \in PairType
      BY <1>2, <2>1, <3>1, <3>2
    <3>5. new = [i \in 1 .. Len(object) |-> new[i]]
      BY <2>1, <3>1
    <3> QED
      BY <3>1, <3>3, <3>4, <3>5
  <2>3. \A i \in DOMAIN object : new[i][1] = object[i][1]
    BY <1>2, <2>1
  <2>4. Keys(new) = Keys(object)
    BY <2>2, <2>3 DEF Keys
  <2>5. Keys(new) = {CourseKey} \cup {table[n].name : n \in 1 .. k + 1}
    BY <1>6, <1>7, <1>8, <2>4
  <2>6. \A p \in DOMAIN new : Right(new[p], course, table, k + 1)
    BY <1>4, <1>5, <1>6, <2>1, <2>2
  <2> QED
    BY <2>2, <2>5, <2>6 DEF Holds, new, key, value
<1>9. CASE key \notin Keys(object)
  <2> DEFINE earlier == {i \in DOMAIN object : ~Before(key, object[i][1])}
             at == Cardinality(earlier)
  <2>1. new = InsertAt(object, at + 1, e)
    BY <1>9 DEF Put, new, e
  <2>2. at \in 0 .. Len(object)
    <3> DEFINE n == Len(object)
    <3> HIDE DEF e, new
    <3>1. n \in Nat /\ DOMAIN object = 1 .. n
      BY <1>6
    <3> HIDE DEF n
    <3>2. IsFiniteSet(1 .. n) /\ Cardinality(1 .. n) = n
      BY <3>1, FS_Interval
    <3>3. earlier \in SUBSET (1 .. n)
      BY <3>1
    <3> HIDE DEF earlier
    <3>4. IsFiniteSet(earlier) /\ Cardinality(earlier) <= n
      BY <3>2, <3>3, FS_Subset
    <3>5. Cardinality(earlier) \in Nat
      BY <3>4, FS_CardinalityType
    <3> QED
      BY <3>1, <3>4, <3>5 DEF n
  <2> HIDE DEF at
  <2>3. /\ new \in Seq(PairType)
        /\ \A i \in DOMAIN new : new[i] = e \/ \E j \in DOMAIN object : new[i] = object[j]
        /\ \E i \in DOMAIN new : new[i] = e
        /\ \A j \in DOMAIN object : \E i \in DOMAIN new : new[i] = object[j]
    <3> DEFINE S == PairType
    <3> HIDE DEF S
    <3>1. object \in Seq(S) /\ e \in S /\ at \in 0 .. Len(object)
      BY <1>2, <1>6, <2>2 DEF S
    <3>2. /\ new \in Seq(S)
          /\ \A i \in DOMAIN new : new[i] = e \/ \E j \in DOMAIN object : new[i] = object[j]
          /\ \E i \in DOMAIN new : new[i] = e
          /\ \A j \in DOMAIN object : \E i \in DOMAIN new : new[i] = object[j]
      BY <2>1, <3>1, InsertIs
    <3> QED
      BY <3>2 DEF S
  <2>4. Keys(new) = Keys(object) \cup {key}
    BY <1>2, <2>3 DEF Keys
  <2>5. Keys(new) = {CourseKey} \cup {table[n].name : n \in 1 .. k + 1}
    BY <1>6, <1>7, <2>4
  <2>6. \A j \in DOMAIN object : object[j][1] # key
    BY <1>9 DEF Keys
  <2>7. \A p \in DOMAIN new : Right(new[p], course, table, k + 1)
    BY <1>4, <1>5, <1>6, <2>3, <2>6
  <2> QED
    BY <2>3, <2>5, <2>7 DEF Holds, new, key, value
<1> QED
  BY <1>8, <1>9

(* So what is posted holds all rows.                                       *)
LEMMA BodyHolds ==
  ASSUME NEW course \in Texts, NEW table \in Seq(RowType)
  PROVE  Holds(Body(course, table), course, table, Len(table))
<1>1. PICK g : /\ g[0] = First(course)
               /\ \A k \in 1 .. Len(table) :
                    g[k] = Put(g[k - 1], table[k].name, table[k].weight)
               /\ Body(course, table) = g[Len(table)]
  BY BodyOfPrefix
<1> DEFINE T == {k \in Nat : k <= Len(table) => Holds(g[k], course, table, k)}
<1>2. 0 \in T
  <2> DEFINE e == <<CourseKey, course>>
  <2>1. e \in PairType /\ e[1] = CourseKey /\ e[2] = course
    BY DEF PairType, Texts
  <2> HIDE DEF e
  <2>2. g[0] = <<e>>
    BY <1>1 DEF First, e
  <2>3. /\ g[0] \in Seq(PairType) /\ DOMAIN g[0] = {1} /\ g[0][1] = e
    BY <2>1, <2>2
  <2>4. 1 .. 0 = {}
    OBVIOUS
  <2>5. Keys(g[0]) = {CourseKey} \cup {table[n].name : n \in 1 .. 0}
    BY <2>1, <2>3, <2>4 DEF Keys
  <2>6. \A p \in DOMAIN g[0] : Right(g[0][p], course, table, 0)
    BY <2>1, <2>3, <2>4 DEF Right
  <2> QED
    BY <2>3, <2>5, <2>6 DEF Holds
<1>3. ASSUME NEW k \in Nat, k \in T PROVE k + 1 \in T
  <2> SUFFICES ASSUME k + 1 <= Len(table) PROVE Holds(g[k + 1], course, table, k + 1)
    OBVIOUS
  <2>1. k + 1 \in 1 .. Len(table) /\ (k + 1) - 1 = k /\ k <= Len(table)
    OBVIOUS
  <2>2. Holds(g[k], course, table, k)
    BY <1>3, <2>1
  <2>3. g[k + 1] = Put(g[k], table[k + 1].name, table[k + 1].weight)
    BY <1>1, <2>1
  <2> QED
    BY <2>2, <2>3, PutHolds
<1>4. Len(table) \in T
  <2> HIDE DEF T
  <2>1. Len(table) \in Nat
    OBVIOUS
  <2> QED
    BY <1>2, <1>3, <2>1, SetInduction
<1> QED
  BY <1>1, <1>4
-----------------------------------------------------------------------------
(* The posts are what Body makes of a form, and the page has not moved on  *)
(* unless one of them was answered.                                        *)
PostType == [course : Texts, rows : Seq(RowType), body : Seq(PairType),
             state : {"sent", "answered", "failed"}]

Posts ==
  /\ courseName \in Texts
  /\ requests \in Seq(PostType)
  /\ \A i \in DOMAIN requests : requests[i].body = Body(requests[i].course, requests[i].rows)
  /\ page = "home" => \E i \in DOMAIN requests : requests[i].state = "answered"

LEMMA PostsInit == Init => Posts
<1> SUFFICES ASSUME Init PROVE Posts
  OBVIOUS
<1>1. courseName \in Texts /\ requests = <<>> /\ page # "home"
  BY DEF Init, Texts
<1> QED
  BY <1>1 DEF Posts

LEMMA AddCourseKeepsPosts == Table /\ Posts /\ AddCourse => Posts'
<1> SUFFICES ASSUME Table, Posts, AddCourse PROVE Posts'
  OBVIOUS
<1> DEFINE post == [course |-> courseName, rows |-> rows,
                    body |-> Body(courseName, rows), state |-> "sent"]
<1>1. /\ requests' = Append(requests, post) /\ page' # "home" /\ courseName' = courseName
  BY DEF AddCourse, OnPage
<1>2. courseName \in Texts /\ rows \in Seq(RowType)
  BY DEF Posts, Table
<1>3. Body(courseName, rows) \in Seq(PairType)
  BY <1>2, BodyHolds DEF Holds
<1>4. post \in PostType /\ post.body = Body(post.course, post.rows)
  BY <1>2, <1>3 DEF PostType
<1> HIDE DEF post
<1>5. requests \in Seq(PostType)
  BY DEF Posts
<1>6. requests' \in Seq(PostType) /\ Len(requests') = Len(requests) + 1
  BY <1>1, <1>4, <1>5
<1>7. ASSUME NEW i \in DOMAIN requests'
      PROVE  requests'[i].body = Body(requests'[i].course, requests'[i].rows)
  <2>1. CASE i \in DOMAIN requests
    <3>1. requests'[i] = requests[i]
      BY <1>1, <1>4, <1>5, <2>1
    <3> QED
      BY <2>1, <3>1 DEF Posts
  <2>2. CASE i \notin DOMAIN requests
    <3>1. i = Len(requests) + 1
      BY <1>5, <1>6, <1>7, <2>2
    <3>2. requests'[i] = post
      BY <1>1, <1>4, <1>5, <3>1
    <3> QED
      BY <1>4, <3>2
  <2> QED
    BY <2>1, <2>2
<1> QED
  BY <1>1, <1>2, <1>6, <1>7 DEF Posts

(* The state of a post changes while it is on its way, and no later.       *)
LEMMA StateKeepsPosts ==
  ASSUME Posts, NEW i \in DOMAIN requests, NEW state \in {"answered", "failed"},
         requests[i].state = "sent",
         requests' = [requests EXCEPT ![i].state = state],
         UNCHANGED <<page, courseName>>
  PROVE  Posts'
<1>1. /\ requests \in Seq(PostType) /\ DOMAIN requests' = DOMAIN requests
      /\ requests[i] \in PostType
  BY DEF Posts
<1>2. \A j \in DOMAIN requests : j # i => requests'[j] = requests[j]
  OBVIOUS
<1>3. requests'[i] = [requests[i] EXCEPT !.state = state]
  OBVIOUS
<1>4. /\ requests'[i] \in PostType
      /\ requests'[i].course = requests[i].course /\ requests'[i].rows = requests[i].rows
      /\ requests'[i].body = requests[i].body
  BY <1>1, <1>3 DEF PostType
<1>5. requests' \in Seq(PostType)
  <2> DEFINE r == requests'[i]
  <2> HIDE DEF r
  <2>1. requests' = [requests EXCEPT ![i] = r]
    BY <1>1, <1>2 DEF r
  <2>2. r \in PostType
    BY <1>4 DEF r
  <2> QED
    BY <1>1, <2>1, <2>2
<1>6. \A j \in DOMAIN requests' :
        requests'[j].body = Body(requests'[j].course, requests'[j].rows)
  BY <1>1, <1>2, <1>4 DEF Posts
<1>7. page' = "home" => \E j \in DOMAIN requests' : requests'[j].state = "answered"
  <2> SUFFICES ASSUME page = "home"
               PROVE  \E j \in DOMAIN requests' : requests'[j].state = "answered"
    OBVIOUS
  <2>1. PICK j \in DOMAIN requests : requests[j].state = "answered"
    BY DEF Posts
  <2>2. j # i
    BY <2>1
  <2>3. requests'[j] = requests[j] /\ j \in DOMAIN requests'
    BY <1>1, <1>2, <2>2
  <2> QED
    BY <2>1, <2>3
<1> QED
  BY <1>5, <1>6, <1>7 DEF Posts

LEMMA StepKeepsPosts == Table /\ Posts /\ [Next]_vars => Posts'
<1> SUFFICES ASSUME Table, Posts, [Next]_vars PROVE Posts'
  OBVIOUS
<1>1. CASE page' = page /\ requests' = requests /\ courseName' = courseName
  BY <1>1 DEF Posts
<1>2. CASE AddCategory
  BY <1>1, <1>2 DEF AddCategory
<1>3. ASSUME NEW i \in DOMAIN rows, DeleteRow(i) PROVE Posts'
  BY <1>1, <1>3 DEF DeleteRow
<1>4. ASSUME NEW i \in DOMAIN rows, NEW name \in Names, NEW weight \in Weights,
             Type(i, name, weight)
      PROVE  Posts'
  BY <1>1, <1>4 DEF Type
<1>5. ASSUME NEW name \in Titles, TypeCourse(name) PROVE Posts'
  <2>1. /\ page' = page /\ requests' = requests /\ courseName' \in Texts
    BY <1>5 DEF TypeCourse, Texts
  <2> QED
    BY <2>1 DEF Posts
<1>6. CASE AddCourse
  BY <1>6, AddCourseKeepsPosts
<1>7. ASSUME NEW i \in DOMAIN requests, Route(i) PROVE Posts'
  BY <1>7, StateKeepsPosts DEF Route
<1>8. ASSUME NEW i \in DOMAIN requests, Fail(i) PROVE Posts'
  BY <1>8, StateKeepsPosts DEF Fail
<1>9. ASSUME NEW i \in DOMAIN requests, Success(i) PROVE Posts'
  <2>1. /\ requests[i].state = "answered" /\ requests' = requests
        /\ courseName' = courseName
    BY <1>9 DEF Success
  <2> QED
    BY <2>1 DEF Posts
<1>10. CASE UNCHANGED vars
  BY <1>1, <1>10 DEF vars
<1> QED
  BY <1>2, <1>3, <1>4, <1>5, <1>6, <1>7, <1>8, <1>9, <1>10 DEF Next

Entered(course, table, key) ==
  LET named == {n \in DOMAIN table : table[n].name = key}
  IN  IF named = {} THEN course
      ELSE table[CHOOSE n \in named : \A m \in named : m <= n].weight

(* Under each key there is what SentBeforeLeaving says: the CHOOSE there   *)
(* takes the last of the rows of that name, of which there is one.         *)
LEMMA RightIs ==
  ASSUME NEW course, NEW table, NEW k \in Nat, DOMAIN table = 1 .. k,
         NEW pair, Right(pair, course, table, k)
  PROVE  pair[2] = Entered(course, table, pair[1])
<1> DEFINE named == {n \in DOMAIN table : table[n].name = pair[1]}
           last == CHOOSE n \in named : \A m \in named : m <= n
<1>1. ASSUME \A n \in 1 .. k : table[n].name # pair[1], pair[2] = course
      PROVE  pair[2] = IF named = {} THEN course ELSE table[last].weight
  <2>1. named = {}
    BY <1>1
  <2> HIDE DEF named
  <2> QED
    BY <1>1, <2>1
<1>2. ASSUME NEW n \in 1 .. k,
             table[n].name = pair[1] /\ table[n].weight = pair[2],
             \A m \in 1 .. k : table[m].name = pair[1] => m <= n
      PROVE  pair[2] = IF named = {} THEN course ELSE table[last].weight
  <2>1. n \in named /\ \A m \in named : m <= n /\ m \in Nat
    BY <1>2
  <2> HIDE DEF named
  <2>2. last \in named /\ \A m \in named : m <= last
    BY <2>1
  <2>3. last = n
    <3>1. last <= n /\ n <= last /\ last \in Nat /\ n \in Nat
      BY <2>1, <2>2
    <3> QED
      BY <3>1
  <2> HIDE DEF last
  <2> QED
    BY <1>2, <2>1, <2>3
<1>3. pair[2] = IF named = {} THEN course ELSE table[last].weight
  <2> HIDE DEF named, last
  <2> QED
    BY <1>1, <1>2 DEF Right
<1> QED
  BY <1>3, Zenon DEF Entered

(* When the page has moved on, the server has answered a post that holds   *)
(* the form as it was at a press of the button: the course's name and every*)
(* row's weight, but for those that a later row of the same name, or a row *)
(* named like the course's own key, has replaced.                          *)
THEOREM FormIsSent == Spec => []SentBeforeLeaving
<1>1. Spec => [](Table /\ Posts)
  BY TableInit, StepKeepsTable, PostsInit, StepKeepsPosts, PTL DEF Spec
<1>2. Posts => SentBeforeLeaving
  <2> SUFFICES ASSUME Posts, page = "home"
               PROVE  SentBeforeLeaving
    BY DEF SentBeforeLeaving
  <2>1. PICK i \in DOMAIN requests : requests[i].state = "answered"
    BY DEF Posts
  <2> DEFINE r == requests[i]
             named(key) == {n \in DOMAIN r.rows : r.rows[n].name = key}
  <2>2. /\ r.course \in Texts /\ r.rows \in Seq(RowType)
        /\ r.body = Body(r.course, r.rows)
    <3>1. requests[i] \in PostType
      BY DEF Posts
    <3> QED
      BY <3>1 DEF Posts, PostType
  <2> HIDE DEF r
  <2>3. Holds(r.body, r.course, r.rows, Len(r.rows))
    BY <2>2, BodyHolds
  <2>4. Len(r.rows) \in Nat /\ DOMAIN r.rows = 1 .. Len(r.rows)
    BY <2>2
  <2>5. Keys(r.body) = {CourseKey} \cup {r.rows[n].name : n \in DOMAIN r.rows}
    BY <2>3, <2>4 DEF Holds
  <2>6. ASSUME NEW p \in DOMAIN r.body
        PROVE  LET key == r.body[p][1]
               IN  r.body[p][2] =
                     IF named(key) = {} THEN r.course
                     ELSE r.rows[CHOOSE n \in named(key) :
                                   \A m \in named(key) : m <= n].weight
    <3>1. Right(r.body[p], r.course, r.rows, Len(r.rows))
      BY <2>3 DEF Holds
    <3>2. r.body[p][2] = Entered(r.course, r.rows, r.body[p][1])
      BY <2>4, <3>1, RightIs
    <3> QED
      BY <3>2, Zenon DEF Entered
  <2> QED
    BY <2>1, <2>5, <2>6, Zenon DEF SentBeforeLeaving, r
<1> QED
  BY <1>1, <1>2, PTL
=============================================================================
