-------------------------- MODULE GradeLoopsProofs --------------------------
(***************************************************************************)
(* The loops of the roll-ups, for any number of rows, marks, weights and   *)
(* grades, in any order: they compute the closed forms of Grades, what they*)
(* compute is a mean, and it is infinite or undefined just when it must be.*)
(***************************************************************************)
EXTENDS GradeLoops, FlattenProofs, FiniteSetTheorems

(* The sum of the numbers v[x], for the elements x of S, and how the fold  *)
(* of the community modules computes it.                                   *)
Total(v, S) == MapThenSumSet(LAMBDA x : v[x], S)

Sums(g, v, S) ==
  g = [s \in SUBSET S |->
         IF s = {} THEN 0
         ELSE v[CHOOSE x \in s : TRUE] + g[s \ {CHOOSE x \in s : TRUE}]]

LEMMA TotalIsFold ==
  ASSUME NEW v, NEW S
  PROVE  Total(v, S) = (CHOOSE g : Sums(g, v, S))[S]
BY DEF Total, MapThenSumSet, MapThenFoldSet, Sums

(* Induction on the size of a finite set.                                  *)
LEMMA SizeInduction ==
  ASSUME NEW S, IsFiniteSet(S), NEW F,
         {} \in F,
         \A s \in SUBSET S : s # {} /\ (\A x \in s : s \ {x} \in F) => s \in F
  PROVE  SUBSET S \subseteq F
<1> DEFINE T == {n \in Nat : \A s \in SUBSET S : Cardinality(s) = n => s \in F}
<1>1. \A s \in SUBSET S : /\ IsFiniteSet(s) /\ Cardinality(s) \in Nat
                          /\ Cardinality(s) = 0 <=> s = {}
                          /\ \A x \in s : Cardinality(s \ {x}) = Cardinality(s) - 1
  <2> TAKE s \in SUBSET S
  <2>1. IsFiniteSet(s)
    BY FS_Subset
  <2>2. Cardinality(s) \in Nat /\ (Cardinality(s) = 0 <=> s = {})
    BY <2>1, FS_CardinalityType, FS_EmptySet
  <2>3. \A x \in s : Cardinality(s \ {x}) = Cardinality(s) - 1
    BY <2>1, FS_RemoveElement
  <2> QED
    BY <2>1, <2>2, <2>3
<1>2. 0 \in T
  BY <1>1
<1>3. ASSUME NEW n \in Nat, n \in T PROVE n + 1 \in T
  <2> SUFFICES ASSUME NEW s \in SUBSET S, Cardinality(s) = n + 1 PROVE s \in F
    OBVIOUS
  <2>1. s # {}
    <3>1. Cardinality(s) # 0
      OBVIOUS
    <3> QED
      BY <1>1, <3>1
  <2>2. \A x \in s : s \ {x} \in F
    <3> TAKE x \in s
    <3>1. Cardinality(s \ {x}) = n
      BY <1>1
    <3> QED
      BY <1>3, <3>1
  <2> QED
    BY <2>1, <2>2
<1>4. Nat \subseteq T
  <2> HIDE DEF T
  <2> QED
    BY <1>2, <1>3, SetInduction
<1> QED
  BY <1>1, <1>4

(* The recursion has a solution.                                           *)
LEMMA SumsExist ==
  ASSUME NEW v, NEW S, IsFiniteSet(S)
  PROVE  \E g : Sums(g, v, S)
<1> DEFINE one(s) == CHOOSE x \in s : TRUE
           Small(n) == {s \in SUBSET S : Cardinality(s) <= n}
           Upto(g, n) == g = [s \in Small(n) |->
                                IF s = {} THEN 0 ELSE v[one(s)] + g[s \ {one(s)}]]
           T == {n \in Nat : \E g : Upto(g, n)}
<1>1. \A s \in SUBSET S :
        /\ IsFiniteSet(s) /\ Cardinality(s) \in Nat
        /\ Cardinality(s) <= Cardinality(S)
        /\ Cardinality(s) = 0 <=> s = {}
        /\ s # {} => one(s) \in s /\ Cardinality(s \ {one(s)}) = Cardinality(s) - 1
  <2> TAKE s \in SUBSET S
  <2>1. IsFiniteSet(s) /\ Cardinality(s) <= Cardinality(S)
    BY FS_Subset
  <2>2. Cardinality(s) \in Nat /\ (Cardinality(s) = 0 <=> s = {})
    BY <2>1, FS_CardinalityType, FS_EmptySet
  <2>3. s # {} => one(s) \in s
    OBVIOUS
  <2>4. \A x \in s : Cardinality(s \ {x}) = Cardinality(s) - 1
    BY <2>1, FS_RemoveElement
  <2> HIDE DEF one
  <2> QED
    BY <2>1, <2>2, <2>3, <2>4
<1> HIDE DEF one
<1>2. 0 \in T
  <2> DEFINE g == [s \in Small(0) |-> 0]
  <2>1. ASSUME NEW s \in Small(0) PROVE s = {}
    <3>1. Cardinality(s) \in Nat /\ Cardinality(s) <= 0
      BY <1>1
    <3>2. Cardinality(s) = 0
      BY <3>1
    <3> QED
      BY <1>1, <3>2
  <2>2. Upto(g, 0)
    BY <2>1
  <2> HIDE DEF Upto, g
  <2> QED
    BY <2>2
<1>3. ASSUME NEW n \in Nat, n \in T PROVE n + 1 \in T
  <2>1. PICK g : Upto(g, n)
    BY <1>3
  <2> DEFINE h == [s \in Small(n + 1) |->
                     IF s = {} THEN 0 ELSE v[one(s)] + g[s \ {one(s)}]]
  <2>2. ASSUME NEW s \in Small(n) PROVE s \in Small(n + 1)
    <3>1. Cardinality(s) \in Nat /\ Cardinality(s) <= n
      BY <1>1
    <3>2. Cardinality(s) <= n + 1
      BY <3>1
    <3> QED
      BY <3>2
  <2>3. \A s \in Small(n) : h[s] = g[s]
    BY <2>1, <2>2
  <2>4. ASSUME NEW s \in Small(n + 1), s # {} PROVE s \ {one(s)} \in Small(n)
    <3>1. Cardinality(s) \in Nat /\ Cardinality(s) <= n + 1
      BY <1>1
    <3>2. Cardinality(s \ {one(s)}) <= n
      BY <1>1, <2>4, <3>1
    <3> QED
      BY <3>2
  <2>5. Upto(h, n + 1)
    <3>1. \A s \in Small(n + 1) : s # {} => h[s \ {one(s)}] = g[s \ {one(s)}]
      <4> HIDE DEF h, Small
      <4> QED
        BY <2>3, <2>4
    <3> HIDE DEF Small
    <3> QED
      BY <3>1
  <2> HIDE DEF Upto, h
  <2> QED
    BY <2>5
<1>4. Nat \subseteq T
  <2> HIDE DEF T
  <2> QED
    BY <1>2, <1>3, SetInduction
<1>5. Cardinality(S) \in T
  BY <1>4, FS_CardinalityType
<1>6. PICK g : Upto(g, Cardinality(S))
  BY <1>5
<1>7. Small(Cardinality(S)) = SUBSET S
  BY <1>1
<1> QED
  BY <1>6, <1>7, Zenon DEF Sums, one

(* Sums over finite sets of natural numbers: none is 0, and each element   *)
(* adds its number, in whatever order.                                     *)
Adds(g, v, S) ==
  /\ g[{}] = 0
  /\ \A s \in SUBSET S : /\ g[s] \in Nat
                        /\ \A x \in s : g[s] = v[x] + g[s \ {x}]

LEMMA SumsAdd ==
  ASSUME NEW S, IsFiniteSet(S), NEW v, \A x \in S : v[x] \in Nat, NEW g, Sums(g, v, S)
  PROVE  Adds(g, v, S)
<1> DEFINE one(s) == CHOOSE x \in s : TRUE
           N == {s \in SUBSET S : g[s] \in Nat}
           F == {s \in SUBSET S : \A x \in s : g[s] = v[x] + g[s \ {x}]}
<1>1. \A s \in SUBSET S : g[s] = IF s = {} THEN 0 ELSE v[one(s)] + g[s \ {one(s)}]
  BY DEF Sums
<1>2. \A s : s # {} => one(s) \in s
  OBVIOUS
<1> HIDE DEF one
<1>3. g[{}] = 0
  BY <1>1
<1>4. SUBSET S \subseteq N
  <2>1. {} \in N
    BY <1>3
  <2>2. ASSUME NEW s \in SUBSET S, s # {}, \A x \in s : s \ {x} \in N PROVE s \in N
    <3> PICK a : a = one(s)
      OBVIOUS
    <3>1. a \in s /\ g[s] = v[a] + g[s \ {a}]
      BY <1>1, <1>2, <2>2
    <3>2. v[a] \in Nat /\ g[s \ {a}] \in Nat
      BY <2>2, <3>1
    <3> QED
      BY <3>1, <3>2
  <2> HIDE DEF N
  <2> QED
    BY <2>1, <2>2, SizeInduction
<1>5. ASSUME NEW s \in SUBSET S, s # {}, \A x \in s : s \ {x} \in F
      PROVE  s \in F
  <2> PICK a : a = one(s)
    OBVIOUS
  <2>1. a \in s /\ g[s] = v[a] + g[s \ {a}]
    BY <1>1, <1>2, <1>5
  <2>2. ASSUME NEW x \in s, x # a PROVE g[s] = v[x] + g[s \ {x}]
    <3> DEFINE rest == (s \ {x}) \ {a}
    <3>1. g[s \ {a}] = v[x] + g[(s \ {a}) \ {x}]
      BY <1>5, <2>1, <2>2
    <3>2. g[s \ {x}] = v[a] + g[rest]
      BY <1>5, <2>1, <2>2
    <3>3. (s \ {a}) \ {x} = rest
      OBVIOUS
    <3>4. rest \in SUBSET S /\ v[a] \in Nat /\ v[x] \in Nat
      BY <2>1
    <3>5. g[rest] \in Nat
      BY <1>4, <3>4
    <3>6. g[s \ {a}] = v[x] + g[rest]
      BY <3>1, <3>3
    <3> HIDE DEF rest
    <3> QED
      BY <2>1, <3>2, <3>4, <3>5, <3>6
  <2> QED
    BY <2>1, <2>2
<1>6. SUBSET S \subseteq F
  <2>1. {} \in F
    OBVIOUS
  <2> HIDE DEF F
  <2> QED
    BY <2>1, <1>5, SizeInduction
<1> QED
  BY <1>3, <1>4, <1>6 DEF Adds

(* What a sum is: nothing for nothing, and an element more adds its number.*)
LEMMA TotalIs ==
  ASSUME NEW S, IsFiniteSet(S), NEW v, \A x \in S : v[x] \in Nat
  PROVE  /\ Total(v, {}) = 0
         /\ \A s \in SUBSET S :
              /\ Total(v, s) \in Nat
              /\ \A x \in s : Total(v, s) = v[x] + Total(v, s \ {x})
<1> DEFINE of(s) == CHOOSE g : Sums(g, v, s)
<1>1. ASSUME NEW s \in SUBSET S
      PROVE  IsFiniteSet(s) /\ Sums(of(s), v, s) /\ Total(v, s) = of(s)[s]
  <2>1. IsFiniteSet(s)
    BY FS_Subset
  <2> QED
    BY <2>1, SumsExist, TotalIsFold
<1> HIDE DEF of
<1>2. ASSUME NEW s \in SUBSET S
      PROVE  Adds(of(s), v, s)
  <2> PICK g : g = of(s)
    OBVIOUS
  <2>1. IsFiniteSet(s) /\ Sums(g, v, s) /\ \A x \in s : v[x] \in Nat
    BY <1>1
  <2> QED
    BY <2>1, SumsAdd
<1>3. ASSUME NEW s \in SUBSET S, NEW x \in s
      PROVE  of(s)[s \ {x}] = Total(v, s \ {x})
  <2> DEFINE r == s \ {x}
             F == {t \in SUBSET r : of(s)[t] = of(r)[t]}
  <2>1. r \in SUBSET S /\ SUBSET r \subseteq SUBSET s
    OBVIOUS
  <2>2. {} \in F
    BY <1>2, <2>1 DEF Adds
  <2>3. ASSUME NEW t \in SUBSET r, t # {}, \A y \in t : t \ {y} \in F PROVE t \in F
    <3>1. PICK y \in t : TRUE
      BY <2>3
    <3>2. /\ \A u \in SUBSET s : \A z \in u : of(s)[u] = v[z] + of(s)[u \ {z}]
          /\ \A u \in SUBSET r : \A z \in u : of(r)[u] = v[z] + of(r)[u \ {z}]
      <4> HIDE DEF r
      <4> QED
        BY <1>2, <2>1 DEF Adds
    <3> HIDE DEF r
    <3>3. of(s)[t] = v[y] + of(s)[t \ {y}]
      BY <2>1, <3>2
    <3>4. of(r)[t] = v[y] + of(r)[t \ {y}]
      BY <3>2
    <3> QED
      BY <2>3, <3>3, <3>4 DEF r
  <2> HIDE DEF F
  <2>4. SUBSET r \subseteq F
    BY <1>1, <2>1, <2>2, <2>3, SizeInduction
  <2>5. of(s)[r] = of(r)[r]
    BY <2>4 DEF F
  <2> QED
    BY <1>1, <2>1, <2>5
<1>4. Total(v, {}) = 0
  BY <1>1, <1>2 DEF Adds
<1>5. ASSUME NEW s \in SUBSET S
      PROVE  /\ Total(v, s) \in Nat
             /\ \A x \in s : Total(v, s) = v[x] + Total(v, s \ {x})
  <2>1. of(s)[s] \in Nat /\ \A x \in s : of(s)[s] = v[x] + of(s)[s \ {x}]
    BY <1>2 DEF Adds
  <2> QED
    BY <1>1, <1>3, <2>1
<1> QED
  BY <1>4, <1>5

(* A fold that adds the numbers v[x] gives their sum.                      *)
LEMMA SumsAreTotal ==
  ASSUME NEW S, IsFiniteSet(S), NEW v, \A x \in S : v[x] \in Nat, NEW g, Sums(g, v, S)
  PROVE  g[S] = Total(v, S)
<1> PICK h : h = CHOOSE f : Sums(f, v, S)
  OBVIOUS
<1>1. Sums(h, v, S) /\ Total(v, S) = h[S]
  BY SumsExist, TotalIsFold
<1>2. Adds(g, v, S) /\ Adds(h, v, S)
  BY <1>1, SumsAdd
<1> DEFINE F == {s \in SUBSET S : g[s] = h[s]}
<1>3. {} \in F
  BY <1>2 DEF Adds
<1>4. ASSUME NEW s \in SUBSET S, s # {}, \A x \in s : s \ {x} \in F PROVE s \in F
  <2>1. PICK x \in s : TRUE
    BY <1>4
  <2>2. g[s] = v[x] + g[s \ {x}] /\ h[s] = v[x] + h[s \ {x}]
    BY <1>2 DEF Adds
  <2> QED
    BY <1>4, <2>2
<1>5. SUBSET S \subseteq F
  <2> HIDE DEF F
  <2> QED
    BY <1>3, <1>4, SizeInduction
<1> QED
  BY <1>1, <1>5

(* The sums of Grades.                                                     *)
LEMMA SumOfField ==
  ASSUME NEW r, NEW f, NEW S, IsFiniteSet(S), \A x \in S : r[x][f] \in Nat
  PROVE  MapThenSumSet(LAMBDA a : r[a][f], S) = Total([x \in S |-> r[x][f]], S)
<1> DEFINE v == [x \in S |-> r[x][f]]
           one(s) == CHOOSE x \in s : TRUE
           P(g) == g = [s \in SUBSET S |->
                          IF s = {} THEN 0 ELSE r[one(s)][f] + g[s \ {one(s)}]]
<1>1. MapThenSumSet(LAMBDA a : r[a][f], S) = (CHOOSE g : P(g))[S]
  BY DEF MapThenSumSet, MapThenFoldSet
<1>2. \A s \in SUBSET S : s # {} => v[one(s)] = r[one(s)][f]
  OBVIOUS
<1> HIDE DEF v
<1>3. \A g : P(g) <=> Sums(g, v, S)
  BY <1>2 DEF Sums
<1> HIDE DEF P
<1>4. P(CHOOSE g : P(g))
  BY <1>3, SumsExist
<1>5. \A x \in S : v[x] \in Nat
  BY DEF v
<1> QED
  BY <1>1, <1>3, <1>4, <1>5, SumsAreTotal DEF v

LEMMA SumOfCredits ==
  ASSUME NEW r, NEW S, IsFiniteSet(S), \A x \in S : r[x].credit \in Nat
  PROVE  MapThenSumSet(LAMBDA a : r[a].credit, S) = Total([x \in S |-> r[x].credit], S)
BY SumOfField, ZenonT(40)

LEMMA SumOfTotals ==
  ASSUME NEW r, NEW S, IsFiniteSet(S), \A x \in S : r[x].total \in Nat
  PROVE  MapThenSumSet(LAMBDA a : r[a].total, S) = Total([x \in S |-> r[x].total], S)
BY SumOfField, ZenonT(40)

LEMMA SumOfWeights ==
  ASSUME NEW r, NEW S, IsFiniteSet(S), \A x \in S : r[x].weight \in Nat
  PROVE  MapThenSumSet(LAMBDA k : r[k].weight, S) = Total([x \in S |-> r[x].weight], S)
BY SumOfField, ZenonT(40)

LEMMA SumOfProducts ==
  ASSUME NEW r, NEW S, IsFiniteSet(S), \A x \in S : r[x].weight * r[x].grade \in Nat
  PROVE  MapThenSumSet(LAMBDA k : r[k].weight * r[k].grade, S)
           = Total([x \in S |-> r[x].weight * r[x].grade], S)
<1> DEFINE v == [x \in S |-> r[x].weight * r[x].grade]
           one(s) == CHOOSE x \in s : TRUE
           P(g) == g = [s \in SUBSET S |->
                          IF s = {} THEN 0
                          ELSE (r[one(s)].weight * r[one(s)].grade) + g[s \ {one(s)}]]
<1>1. MapThenSumSet(LAMBDA k : r[k].weight * r[k].grade, S) = (CHOOSE g : P(g))[S]
  BY DEF MapThenSumSet, MapThenFoldSet
<1>2. \A s \in SUBSET S : s # {} => v[one(s)] = r[one(s)].weight * r[one(s)].grade
  OBVIOUS
<1> HIDE DEF v
<1>3. \A g : P(g) <=> Sums(g, v, S)
  BY <1>2, ZenonT(40) DEF Sums
<1> HIDE DEF P
<1>4. P(CHOOSE g : P(g))
  BY <1>3, SumsExist
<1>5. \A x \in S : v[x] \in Nat
  BY DEF v
<1> QED
  BY <1>1, <1>3, <1>4, <1>5, SumsAreTotal DEF v

(* Sums that are compared element by element.                              *)
LEMMA TotalAtMost ==
  ASSUME NEW S, IsFiniteSet(S), NEW v, NEW w,
         \A x \in S : v[x] \in Nat /\ w[x] \in Nat,
         NEW m \in Nat, NEW n \in Nat, \A x \in S : m * v[x] <= n * w[x]
  PROVE  m * Total(v, S) <= n * Total(w, S)
<1> DEFINE F == {s \in SUBSET S : m * Total(v, s) <= n * Total(w, s)}
<1>1. {} \in F
  BY TotalIs
<1>2. ASSUME NEW s \in SUBSET S, s # {}, \A x \in s : s \ {x} \in F PROVE s \in F
  <2>1. PICK x \in s : TRUE
    BY <1>2
  <2> PICK a, b, c, d : /\ a = v[x] /\ b = Total(v, s \ {x})
                        /\ c = w[x] /\ d = Total(w, s \ {x})
    OBVIOUS
  <2>2. Total(v, s) = a + b /\ Total(w, s) = c + d
    BY TotalIs
  <2>3. a \in Nat /\ b \in Nat /\ c \in Nat /\ d \in Nat
    BY TotalIs
  <2>4. m * a <= n * c /\ m * b <= n * d
    BY <1>2
  <2>5. m * (a + b) = m * a + m * b /\ n * (c + d) = n * c + n * d
    BY <2>3
  <2>6. m * (a + b) <= n * (c + d)
    BY <2>3, <2>4, <2>5
  <2> QED
    BY <2>2, <2>6
<1>3. SUBSET S \subseteq F
  <2> HIDE DEF F
  <2> QED
    BY <1>1, <1>2, SizeInduction
<1> QED
  BY <1>3

LEMMA TotalLess ==
  ASSUME NEW S, IsFiniteSet(S), S # {}, NEW v, NEW w,
         \A x \in S : v[x] \in Nat /\ w[x] \in Nat,
         NEW m \in Nat, NEW n \in Nat, \A x \in S : m * v[x] < n * w[x]
  PROVE  m * Total(v, S) < n * Total(w, S)
<1>1. PICK x \in S : TRUE
  OBVIOUS
<1> PICK R : R = S \ {x}
  OBVIOUS
<1> PICK a, b, c, d : a = v[x] /\ b = Total(v, R) /\ c = w[x] /\ d = Total(w, R)
  OBVIOUS
<1>2. Total(v, S) = a + b /\ Total(w, S) = c + d
  BY TotalIs
<1>3. a \in Nat /\ b \in Nat /\ c \in Nat /\ d \in Nat
  BY TotalIs
<1>4. m * b <= n * d
  <2>1. IsFiniteSet(R) /\ \A y \in R : /\ v[y] \in Nat /\ w[y] \in Nat
                                     /\ m * v[y] <= n * w[y]
    BY FS_Subset
  <2> QED
    BY <2>1, TotalAtMost
<1>5. m * a < n * c
  OBVIOUS
<1>6. m * (a + b) = m * a + m * b /\ n * (c + d) = n * c + n * d
  BY <1>3
<1>7. m * (a + b) < n * (c + d)
  BY <1>3, <1>4, <1>5, <1>6
<1> QED
  BY <1>2, <1>7

(* A sum is zero if all its numbers are.                                   *)
LEMMA TotalZero ==
  ASSUME NEW S, IsFiniteSet(S), NEW v, \A x \in S : v[x] \in Nat
  PROVE  Total(v, S) = 0 <=> \A x \in S : v[x] = 0
<1>1. Total(v, S) \in Nat
  BY TotalIs
<1>2. ASSUME NEW x \in S PROVE v[x] <= Total(v, S)
  <2>1. Total(v, S) = v[x] + Total(v, S \ {x}) /\ Total(v, S \ {x}) \in Nat
    BY TotalIs
  <2> QED
    BY <2>1
<1>3. ASSUME \A x \in S : v[x] = 0 PROVE Total(v, S) = 0
  <2>1. \A x \in S : 1 * v[x] <= 0 * v[x]
    BY <1>3
  <2>2. 1 * Total(v, S) <= 0 * Total(v, S)
    BY <2>1, TotalAtMost
  <2> QED
    BY <1>1, <2>2
<1> QED
  BY <1>1, <1>2, <1>3

-----------------------------------------------------------------------------
(* The rows a loop has counted, and the numbers it adds for them.          *)
Counted == DOMAIN rows \ todo

Credits == [a \in DOMAIN rows |-> rows[a].credit]
Totals  == [a \in DOMAIN rows |-> rows[a].total]
Weights == [k \in DOMAIN rows |-> rows[k].weight]

(* A category whose grade is Inf adds no number.                           *)
Products ==
  [k \in DOMAIN rows |-> IF rows[k].grade = Inf THEN 0 ELSE rows[k].weight * rows[k].grade]

Terms(S) == {Weighted(rows[k].weight, rows[k].grade) : k \in S}

SumOf(S) ==
  CASE NaN \in Terms(S) -> NaN
    [] NaN \notin Terms(S) /\ Inf \in Terms(S) -> Inf
    [] OTHER -> Total(Products, S)

RowsOfAssignments == kind = "assignments" /\ rows \in UNION {[S -> Marks] : S \in SUBSET Ids}
RowsOfCategories  == kind = "categories" /\ rows \in UNION {[S -> Shares] : S \in SUBSET Ids}

(* The sums are those of the rows counted so far, and a grade is stored    *)
(* when all are.                                                           *)
LoopInv ==
  /\ RowsOfAssignments \/ RowsOfCategories
  /\ todo \subseteq DOMAIN rows
  /\ kind = "assignments" =>
       /\ sum = Total(Credits, Counted) /\ divisor = Total(Totals, Counted)
       /\ grade # Pending => todo = {} /\ grade = Quotient(10000 * sum, divisor)
  /\ kind = "categories" =>
       /\ sum = SumOf(Counted) /\ divisor = Total(Weights, Counted)
       /\ grade # Pending => todo = {} /\ grade = Quotient(sum, divisor)

(* The numbers in the rows of a snapshot.                                  *)
LEMMA MarkRows ==
  ASSUME LoopsAssumption, RowsOfAssignments
  PROVE  /\ IsFiniteSet(DOMAIN rows)
         /\ \A a \in DOMAIN rows :
              /\ rows[a].credit \in Nat /\ Credits[a] = rows[a].credit
              /\ rows[a].total \in Nat /\ Totals[a] = rows[a].total
<1>1. PICK S \in SUBSET Ids : rows \in [S -> Marks]
  BY DEF RowsOfAssignments
<1>2. DOMAIN rows = S /\ IsFiniteSet(S)
  BY <1>1, FS_Subset DEF LoopsAssumption
<1>3. ASSUME NEW a \in DOMAIN rows PROVE rows[a].credit \in Nat /\ rows[a].total \in Nat
  <2>1. rows[a] \in [credit : Nat, total : Nat]
    BY <1>1, <1>2 DEF LoopsAssumption
  <2> QED
    BY <2>1
<1> QED
  BY <1>2, <1>3 DEF Credits, Totals

LEMMA ShareRows ==
  ASSUME LoopsAssumption, RowsOfCategories
  PROVE  /\ IsFiniteSet(DOMAIN rows)
         /\ \A k \in DOMAIN rows :
              /\ rows[k].weight \in Nat /\ Weights[k] = rows[k].weight
              /\ rows[k].grade \in Nat \/ rows[k].grade = Inf
              /\ Products[k] \in Nat
              /\ rows[k].grade \in Nat =>
                   /\ Products[k] = rows[k].weight * rows[k].grade
                   /\ Weighted(rows[k].weight, rows[k].grade) = Products[k]
              /\ rows[k].grade = Inf =>
                   Weighted(rows[k].weight, rows[k].grade)
                     = IF rows[k].weight = 0 THEN NaN ELSE Inf
<1>1. PICK S \in SUBSET Ids : rows \in [S -> Shares]
  BY DEF RowsOfCategories
<1>2. DOMAIN rows = S /\ IsFiniteSet(S)
  BY <1>1, FS_Subset DEF LoopsAssumption
<1>3. ASSUME NEW k \in DOMAIN rows
      PROVE  rows[k].weight \in Nat /\ (rows[k].grade \in Nat \/ rows[k].grade = Inf)
  <2>1. rows[k] \in [weight : Nat, grade : Nat \cup {Inf}]
    BY <1>1, <1>2 DEF LoopsAssumption
  <2> QED
    BY <2>1
<1>4. ASSUME NEW k \in DOMAIN rows, NEW w \in Nat, NEW g, w = rows[k].weight,
             g = rows[k].grade, g \in Nat \/ g = Inf
      PROVE  /\ Products[k] \in Nat
             /\ g \in Nat => Products[k] = w * g /\ Weighted(w, g) = Products[k]
             /\ g = Inf => Weighted(w, g) = IF w = 0 THEN NaN ELSE Inf
  <2>1. Products[k] = IF g = Inf THEN 0 ELSE w * g
    BY <1>4 DEF Products
  <2>2. CASE g \in Nat
    <3>1. g # Inf /\ g # NaN
      BY <2>2, SpecialValues
    <3>2. Weighted(w, g) = w * g /\ w * g \in Nat
      BY <2>2, <3>1 DEF Weighted
    <3> QED
      BY <2>1, <2>2, <3>1, <3>2
  <2>3. CASE g = Inf
    <3>1. g \notin Nat /\ g # NaN
      BY <2>3, SpecialValues
    <3>2. Weighted(w, g) = IF w = 0 THEN NaN ELSE Inf
      BY <2>3, <3>1 DEF Weighted
    <3> QED
      BY <2>1, <2>3, <3>1, <3>2
  <2> QED
    BY <1>4, <2>2, <2>3
<1>5. \A k \in DOMAIN rows : Weights[k] = rows[k].weight
  BY DEF Weights
<1> QED
  BY <1>2, <1>3, <1>4, <1>5

(* One more row is counted.                                                *)
LEMMA CountedNext ==
  ASSUME NEW S, IsFiniteSet(S), NEW left \in SUBSET S, NEW x \in left
  PROVE  \A v : (\A y \in S : v[y] \in Nat) =>
           /\ Total(v, S \ (left \ {x})) = Total(v, S \ left) + v[x]
           /\ Total(v, S \ left) \in Nat
<1> TAKE v
<1> HAVE \A y \in S : v[y] \in Nat
<1>1. PICK R, M : R = S \ left /\ M = S \ (left \ {x})
  OBVIOUS
<1>2. R \in SUBSET S /\ M \in SUBSET S /\ x \in M /\ R = M \ {x} /\ v[x] \in Nat
  BY <1>1
<1>3. \A s \in SUBSET S : /\ Total(v, s) \in Nat
                          /\ \A y \in s : Total(v, s) = v[y] + Total(v, s \ {y})
  BY TotalIs
<1>4. Total(v, M) = v[x] + Total(v, R) /\ Total(v, R) \in Nat
  BY <1>2, <1>3
<1>5. Total(v, M) = Total(v, R) + v[x]
  BY <1>2, <1>4
<1> QED
  BY <1>1, <1>4, <1>5

(* LoopInv holds at first and is kept by every step.                       *)
LEMMA LoopInit == ASSUME LoopsAssumption, Init PROVE LoopInv
<1>1. RowsOfAssignments \/ RowsOfCategories
  BY DEF Init, RowsOfAssignments, RowsOfCategories
<1>2. Counted = {} /\ Terms({}) = {}
  BY DEF Init, Counted, Terms
<1>3. CASE kind = "assignments"
  <2>1. RowsOfAssignments
    BY <1>1, <1>3 DEF RowsOfCategories
  <2>2. Total(Credits, {}) = 0 /\ Total(Totals, {}) = 0
    BY <2>1, MarkRows, TotalIs
  <2> QED
    BY <1>1, <1>2, <1>3, <2>2 DEF Init, LoopInv
<1>4. CASE kind = "categories"
  <2>1. RowsOfCategories
    BY <1>1, <1>4 DEF RowsOfAssignments
  <2>2. Total(Weights, {}) = 0 /\ Total(Products, {}) = 0
    BY <2>1, ShareRows, TotalIs
  <2>3. SumOf({}) = 0
    BY <1>2, <2>2 DEF SumOf
  <2> QED
    BY <1>1, <1>2, <1>4, <2>2, <2>3 DEF Init, LoopInv
<1> QED
  BY <1>1, <1>3, <1>4 DEF RowsOfAssignments, RowsOfCategories

LEMMA CountAssignmentKeeps ==
  ASSUME LoopsAssumption, LoopInv, NEW a, CountAssignment(a)
  PROVE  LoopInv'
<1>1. /\ kind = "assignments" /\ a \in todo /\ todo' = todo \ {a}
      /\ sum' = sum + rows[a].credit /\ divisor' = divisor + rows[a].total
      /\ kind' = kind /\ rows' = rows /\ grade' = grade
  BY DEF CountAssignment
<1>2. RowsOfAssignments /\ todo \in SUBSET DOMAIN rows /\ a \in DOMAIN rows
  BY <1>1 DEF LoopInv, RowsOfCategories
<1>3. grade = Pending
  BY <1>1 DEF LoopInv
<1>4. Credits' = Credits /\ Totals' = Totals /\ Counted' = DOMAIN rows \ (todo \ {a})
  BY <1>1 DEF Credits, Totals, Counted
<1>5. /\ Total(Credits, DOMAIN rows \ (todo \ {a})) = Total(Credits, Counted) + rows[a].credit
      /\ Total(Totals, DOMAIN rows \ (todo \ {a})) = Total(Totals, Counted) + rows[a].total
  <2>1. /\ IsFiniteSet(DOMAIN rows)
        /\ \A x \in DOMAIN rows : Credits[x] \in Nat /\ Totals[x] \in Nat
        /\ Credits[a] = rows[a].credit /\ Totals[a] = rows[a].total
    BY <1>2, MarkRows
  <2>2. ASSUME NEW v, \A x \in DOMAIN rows : v[x] \in Nat
        PROVE  Total(v, DOMAIN rows \ (todo \ {a})) = Total(v, DOMAIN rows \ todo) + v[a]
    <3>1. \A u : (\A y \in DOMAIN rows : u[y] \in Nat) =>
            /\ Total(u, DOMAIN rows \ (todo \ {a})) = Total(u, DOMAIN rows \ todo) + u[a]
            /\ Total(u, DOMAIN rows \ todo) \in Nat
      BY <1>1, <1>2, <2>1, CountedNext
    <3> QED
      BY <2>2, <3>1
  <2> QED
    BY <2>1, <2>2, Zenon DEF Counted
<1>6. sum' = Total(Credits, Counted)' /\ divisor' = Total(Totals, Counted)'
  <2>1. /\ Total(Credits, Counted)' = Total(Credits', Counted')
        /\ Total(Totals, Counted)' = Total(Totals', Counted')
    BY Zenon DEF Total, MapThenSumSet, MapThenFoldSet
  <2> QED
    BY <1>1, <1>4, <1>5, <2>1 DEF LoopInv
<1>7. RowsOfAssignments' /\ (todo \subseteq DOMAIN rows)'
  BY <1>1, <1>2 DEF RowsOfAssignments
<1> QED
  BY <1>1, <1>3, <1>6, <1>7 DEF LoopInv

LEMMA CountCategoryKeeps ==
  ASSUME LoopsAssumption, LoopInv, NEW k, CountCategory(k)
  PROVE  LoopInv'
<1> DEFINE term == Weighted(rows[k].weight, rows[k].grade)
           more == DOMAIN rows \ (todo \ {k})
<1>1. /\ kind = "categories" /\ k \in todo /\ todo' = todo \ {k}
      /\ sum' = Plus(sum, term) /\ divisor' = divisor + rows[k].weight
      /\ kind' = kind /\ rows' = rows /\ grade' = grade
  BY DEF CountCategory
<1>2. RowsOfCategories /\ todo \in SUBSET DOMAIN rows /\ k \in DOMAIN rows
  BY <1>1 DEF LoopInv, RowsOfAssignments
<1>3. grade = Pending
  BY <1>1 DEF LoopInv
<1>4. /\ Weights' = Weights /\ Products' = Products /\ Counted' = more
      /\ \A S : Terms(S)' = Terms(S)
  BY <1>1 DEF Weights, Products, Counted, Terms
<1>5. /\ Total(Weights, more) = Total(Weights, Counted) + rows[k].weight
      /\ Total(Products, more) = Total(Products, Counted) + Products[k]
      /\ Total(Products, Counted) \in Nat
      /\ more = Counted \cup {k}
  <2>1. /\ IsFiniteSet(DOMAIN rows)
        /\ \A x \in DOMAIN rows : Weights[x] \in Nat /\ Products[x] \in Nat
        /\ Weights[k] = rows[k].weight
    BY <1>2, ShareRows
  <2>2. ASSUME NEW v, \A x \in DOMAIN rows : v[x] \in Nat
        PROVE  /\ Total(v, more) = Total(v, DOMAIN rows \ todo) + v[k]
               /\ Total(v, DOMAIN rows \ todo) \in Nat
    <3>1. \A u : (\A y \in DOMAIN rows : u[y] \in Nat) =>
            /\ Total(u, DOMAIN rows \ (todo \ {k})) = Total(u, DOMAIN rows \ todo) + u[k]
            /\ Total(u, DOMAIN rows \ todo) \in Nat
      BY <1>1, <1>2, <2>1, CountedNext
    <3> QED
      BY <2>2, <3>1
  <2>3. more = (DOMAIN rows \ todo) \cup {k}
    BY <1>1, <1>2
  <2> QED
    BY <2>1, <2>2, <2>3, Zenon DEF Counted
<1>6. Terms(more) = Terms(Counted) \cup {term}
  BY <1>5 DEF Terms
<1>7. term \in {Inf, NaN} \/ (term = Products[k] /\ term \in Nat)
  BY <1>2, ShareRows
<1> HIDE DEF term, more
<1>8. Plus(SumOf(Counted), term) = SumOf(more)
  <2> PICK old : old = Total(Products, Counted)
    OBVIOUS
  <2>1. CASE NaN \in Terms(more)
    <3>1. SumOf(more) = NaN
      BY <2>1 DEF SumOf
    <3>2. SumOf(Counted) = NaN \/ term = NaN
      BY <1>6, <2>1 DEF SumOf
    <3> QED
      BY <3>1, <3>2 DEF Plus
  <2>2. CASE NaN \notin Terms(more) /\ Inf \in Terms(more)
    <3>1. SumOf(more) = Inf
      BY <2>2 DEF SumOf
    <3>2. /\ SumOf(Counted) = Inf \/ term = Inf
          /\ term # NaN /\ SumOf(Counted) # NaN
      BY <1>5, <1>6, <2>2, SpecialValues DEF SumOf
    <3> QED
      BY <3>1, <3>2 DEF Plus
  <2>3. CASE NaN \notin Terms(more) /\ Inf \notin Terms(more)
    <3>1. SumOf(more) = old + term /\ SumOf(Counted) = old /\ term \in Nat /\ old \in Nat
      BY <1>5, <1>6, <1>7, <2>3 DEF SumOf
    <3>2. {Inf, NaN} \cap {old, term} = {}
      BY <3>1, SpecialValues
    <3> QED
      BY <3>1, <3>2 DEF Plus
  <2> QED
    BY <2>1, <2>2, <2>3
<1>9. sum' = SumOf(Counted)' /\ divisor' = Total(Weights, Counted)'
  <2>1. Total(Weights, Counted)' = Total(Weights', Counted')
    BY Zenon DEF Total, MapThenSumSet, MapThenFoldSet
  <2>2. SumOf(Counted)' = SumOf(more)
    <3>1. Total(Products, Counted)' = Total(Products', Counted')
      BY Zenon DEF Total, MapThenSumSet, MapThenFoldSet
    <3> QED
      BY <1>4, <3>1 DEF SumOf
  <2> QED
    BY <1>1, <1>4, <1>5, <1>8, <2>1, <2>2 DEF LoopInv
<1>10. RowsOfCategories' /\ (todo \subseteq DOMAIN rows)'
  BY <1>1, <1>2 DEF RowsOfCategories
<1> QED
  BY <1>1, <1>3, <1>9, <1>10 DEF LoopInv

(* Nothing but the grade changes: the sums stay what they are.             *)
LEMMA SumsKeep ==
  ASSUME UNCHANGED <<kind, rows, todo>>
  PROVE  /\ Total(Credits, Counted)' = Total(Credits, Counted)
         /\ Total(Totals, Counted)' = Total(Totals, Counted)
         /\ Total(Weights, Counted)' = Total(Weights, Counted)
         /\ SumOf(Counted)' = SumOf(Counted)
         /\ RowsOfAssignments' <=> RowsOfAssignments
         /\ RowsOfCategories' <=> RowsOfCategories
<1>1. kind' = kind /\ rows' = rows /\ todo' = todo
  OBVIOUS
<1>2. /\ Total(Credits, Counted)' = Total(Credits', Counted')
      /\ Total(Totals, Counted)' = Total(Totals', Counted')
      /\ Total(Weights, Counted)' = Total(Weights', Counted')
      /\ Total(Products, Counted)' = Total(Products', Counted')
  BY Zenon DEF Total, MapThenSumSet, MapThenFoldSet
<1>3. /\ Credits' = Credits /\ Totals' = Totals /\ Counted' = Counted
      /\ Weights' = Weights /\ Products' = Products
      /\ Terms(Counted)' = Terms(Counted)
  BY <1>1 DEF Credits, Totals, Weights, Products, Counted, Terms
<1>4. SumOf(Counted)' = SumOf(Counted)
  BY <1>2, <1>3 DEF SumOf
<1>5. (RowsOfAssignments' <=> RowsOfAssignments) /\ (RowsOfCategories' <=> RowsOfCategories)
  BY <1>1 DEF RowsOfAssignments, RowsOfCategories
<1> QED
  BY <1>2, <1>3, <1>4, <1>5

LEMMA FinishKeeps ==
  ASSUME LoopInv, FinishAssignments \/ FinishCategories
  PROVE  LoopInv'
<1>1. UNCHANGED <<kind, rows, todo, sum, divisor>>
  BY DEF FinishAssignments, FinishCategories
<1>2. /\ Total(Credits, Counted)' = Total(Credits, Counted)
      /\ Total(Totals, Counted)' = Total(Totals, Counted)
      /\ Total(Weights, Counted)' = Total(Weights, Counted)
      /\ SumOf(Counted)' = SumOf(Counted)
      /\ RowsOfAssignments' <=> RowsOfAssignments
      /\ RowsOfCategories' <=> RowsOfCategories
  BY <1>1, SumsKeep
<1>3. CASE FinishAssignments
  <2>1. kind = "assignments" /\ todo = {} /\ grade' = Quotient(10000 * sum, divisor)
    BY <1>3 DEF FinishAssignments
  <2>2. (Quotient(10000 * sum, divisor))' = Quotient(10000 * sum, divisor)
    BY <1>1 DEF Quotient
  <2> QED
    BY <1>1, <1>2, <2>1, <2>2 DEF LoopInv
<1>4. CASE FinishCategories
  <2>1. kind = "categories" /\ todo = {} /\ grade' = Quotient(sum, divisor)
    BY <1>4 DEF FinishCategories
  <2>2. (Quotient(sum, divisor))' = Quotient(sum, divisor)
    BY <1>1 DEF Quotient
  <2> QED
    BY <1>1, <1>2, <2>1, <2>2 DEF LoopInv
<1> QED
  BY <1>3, <1>4

LEMMA LoopStep == ASSUME LoopsAssumption, LoopInv, [Next]_vars PROVE LoopInv'
<1>1. CASE UNCHANGED vars
  <2>1. UNCHANGED <<kind, rows, todo, sum, divisor, grade>>
    BY <1>1 DEF vars
  <2>2. /\ Total(Credits, Counted)' = Total(Credits, Counted)
        /\ Total(Totals, Counted)' = Total(Totals, Counted)
        /\ Total(Weights, Counted)' = Total(Weights, Counted)
        /\ SumOf(Counted)' = SumOf(Counted)
        /\ RowsOfAssignments' <=> RowsOfAssignments
        /\ RowsOfCategories' <=> RowsOfCategories
    BY <2>1, SumsKeep
  <2>3. /\ (Quotient(10000 * sum, divisor))' = Quotient(10000 * sum, divisor)
        /\ (Quotient(sum, divisor))' = Quotient(sum, divisor)
    BY <2>1 DEF Quotient
  <2> QED
    BY <2>1, <2>2, <2>3 DEF LoopInv
<1>2. CASE Next
  BY <1>2, CountAssignmentKeeps, CountCategoryKeeps, FinishKeeps DEF Next
<1> QED
  BY <1>1, <1>2

-----------------------------------------------------------------------------
(* The rounded quotient is the whole number nearest to n / d.              *)
LEMMA Rounded ==
  ASSUME NEW n \in Nat, NEW d \in Nat, d > 0
  PROVE  /\ RoundedQuotient(n, d) \in Nat
         /\ 2 * (d * RoundedQuotient(n, d)) <= 2 * n + d
         /\ 2 * n + d < 2 * (d * RoundedQuotient(n, d)) + 2 * d
<1> PICK a, b : a = 2 * n + d /\ b = 2 * d
  OBVIOUS
<1>1. a \in Nat /\ b \in Nat /\ b > 0
  OBVIOUS
<1> PICK q, r : q = a \div b /\ r = a % b
  OBVIOUS
<1>2. q \in Int /\ r \in Nat /\ r < b /\ a = b * q + r
  BY <1>1
<1>3. q \in Nat
  BY <1>1, <1>2
<1>4. b * q = 2 * (d * q)
  BY <1>3
<1>5. RoundedQuotient(n, d) = q
  BY DEF RoundedQuotient
<1>6. d * q \in Nat
  BY <1>3
<1> QED
  BY <1>2, <1>3, <1>4, <1>5, <1>6

(* What the loops have stored when they are done.                          *)
LEMMA MarksDone ==
  ASSUME LoopsAssumption, LoopInv, Done, kind = "assignments",
         NEW c, NEW t, c = Total(Credits, DOMAIN rows), t = Total(Totals, DOMAIN rows)
  PROVE  /\ RowsOfAssignments /\ c \in Nat /\ t \in Nat
         /\ c = 0 => grade = 0
         /\ c # 0 => grade = RoundedQuotient(10000 * c, t)
<1>1. RowsOfAssignments
  BY DEF LoopInv, RowsOfCategories
<1>2. todo = {} /\ grade = Quotient(10000 * sum, divisor)
  BY DEF LoopInv, Done
<1>3. Counted = DOMAIN rows
  BY <1>2 DEF Counted
<1>4. sum = c /\ divisor = t
  BY <1>3 DEF LoopInv
<1>5. c \in Nat /\ t \in Nat
  BY <1>1, MarkRows, TotalIs
<1>6. 10000 * c \in Nat /\ (10000 * c = 0 <=> c = 0) /\ 10000 * c \notin {Inf, NaN}
  BY <1>5, SpecialValues
<1>7. grade = Quotient(10000 * c, t)
  BY <1>2, <1>4
<1> QED
  BY <1>1, <1>5, <1>6, <1>7 DEF Quotient

LEMMA SharesDone ==
  ASSUME LoopsAssumption, LoopInv, Done, kind = "categories",
         NEW p, NEW w, p = Total(Products, DOMAIN rows), w = Total(Weights, DOMAIN rows)
  PROVE  /\ RowsOfCategories /\ p \in Nat /\ w \in Nat
         /\ NaN \in Terms(DOMAIN rows) => grade = NaN
         /\ NaN \notin Terms(DOMAIN rows) /\ Inf \in Terms(DOMAIN rows) => grade = Inf
         /\ NaN \notin Terms(DOMAIN rows) /\ Inf \notin Terms(DOMAIN rows) =>
              grade = IF p = 0 THEN 0 ELSE RoundedQuotient(p, w)
<1>1. RowsOfCategories
  BY DEF LoopInv, RowsOfAssignments
<1>2. todo = {} /\ grade = Quotient(sum, divisor)
  BY DEF LoopInv, Done
<1>3. Counted = DOMAIN rows
  BY <1>2 DEF Counted
<1>4. sum = SumOf(DOMAIN rows) /\ divisor = w
  BY <1>3 DEF LoopInv
<1>5. p \in Nat /\ w \in Nat
  BY <1>1, ShareRows, TotalIs
<1>6. p \notin {Inf, NaN} /\ 0 \notin {Inf, NaN}
  BY <1>5, SpecialValues
<1>7. grade = Quotient(SumOf(DOMAIN rows), w)
  BY <1>2, <1>4
<1> PICK s : s = SumOf(DOMAIN rows)
  OBVIOUS
<1>8. /\ NaN \in Terms(DOMAIN rows) => s = NaN
      /\ NaN \notin Terms(DOMAIN rows) /\ Inf \in Terms(DOMAIN rows) => s = Inf
      /\ NaN \notin Terms(DOMAIN rows) /\ Inf \notin Terms(DOMAIN rows) => s = p
  BY DEF SumOf
<1> QED
  BY <1>1, <1>5, <1>6, <1>7, <1>8 DEF Quotient

(* In whatever order the rows come: the closed forms of Grades.            *)
LEMMA LoopsCompute ==
  ASSUME LoopsAssumption, LoopInv PROVE LoopsComputeGrades
<1> SUFFICES ASSUME Done
    PROVE  grade = IF kind = "assignments" THEN CategoryGrade(rows) ELSE CourseGrade(rows)
  BY DEF LoopsComputeGrades
<1>1. CASE kind = "assignments"
  <2> PICK c, t : c = Total(Credits, DOMAIN rows) /\ t = Total(Totals, DOMAIN rows)
    OBVIOUS
  <2>1. /\ RowsOfAssignments
        /\ c = 0 => grade = 0
        /\ c # 0 => grade = RoundedQuotient(10000 * c, t)
    BY <1>1, MarksDone
  <2>2. /\ IsFiniteSet(DOMAIN rows)
        /\ \A a \in DOMAIN rows : rows[a].credit \in Nat /\ rows[a].total \in Nat
    BY <2>1, MarkRows
  <2>3. MapThenSumSet(LAMBDA a : rows[a].credit, DOMAIN rows) = c
    <3>1. MapThenSumSet(LAMBDA a : rows[a].credit, DOMAIN rows)
            = Total([x \in DOMAIN rows |-> rows[x].credit], DOMAIN rows)
      BY <2>2, SumOfCredits
    <3>2. [x \in DOMAIN rows |-> rows[x].credit] = Credits
      BY DEF Credits
    <3> QED
      BY <3>1, <3>2
  <2>4. MapThenSumSet(LAMBDA a : rows[a].total, DOMAIN rows) = t
    <3>1. MapThenSumSet(LAMBDA a : rows[a].total, DOMAIN rows)
            = Total([x \in DOMAIN rows |-> rows[x].total], DOMAIN rows)
      BY <2>2, SumOfTotals
    <3>2. [x \in DOMAIN rows |-> rows[x].total] = Totals
      BY DEF Totals
    <3> QED
      BY <3>1, <3>2
  <2>5. CategoryGrade(rows) = IF c = 0 THEN 0 ELSE RoundedQuotient(10000 * c, t)
    BY <2>3, <2>4 DEF CategoryGrade
  <2> QED
    BY <1>1, <2>1, <2>5
<1>2. CASE kind = "categories"
  <2> PICK p, w : p = Total(Products, DOMAIN rows) /\ w = Total(Weights, DOMAIN rows)
    OBVIOUS
  <2>1. /\ RowsOfCategories
        /\ NaN \in Terms(DOMAIN rows) => grade = NaN
        /\ NaN \notin Terms(DOMAIN rows) /\ Inf \in Terms(DOMAIN rows) => grade = Inf
        /\ NaN \notin Terms(DOMAIN rows) /\ Inf \notin Terms(DOMAIN rows) =>
             grade = IF p = 0 THEN 0 ELSE RoundedQuotient(p, w)
        /\ p \in Nat
    BY <1>2, SharesDone
  <2>2. /\ IsFiniteSet(DOMAIN rows)
        /\ \A k \in DOMAIN rows : rows[k].weight \in Nat
    BY <2>1, ShareRows
  <2>3. MapThenSumSet(LAMBDA k : rows[k].weight, DOMAIN rows) = w
    <3>1. MapThenSumSet(LAMBDA k : rows[k].weight, DOMAIN rows)
            = Total([x \in DOMAIN rows |-> rows[x].weight], DOMAIN rows)
      BY <2>2, SumOfWeights
    <3>2. [x \in DOMAIN rows |-> rows[x].weight] = Weights
      BY DEF Weights
    <3> QED
      BY <3>1, <3>2
  <2>4. CASE NaN \in Terms(DOMAIN rows)
    <3>1. WeightedSum(rows) = NaN
      BY <2>4 DEF WeightedSum, Terms
    <3>2. CourseGrade(rows) = NaN
      BY <3>1, SpecialValues DEF CourseGrade
    <3> QED
      BY <1>2, <2>1, <2>4, <3>2
  <2>5. CASE NaN \notin Terms(DOMAIN rows) /\ Inf \in Terms(DOMAIN rows)
    <3>1. WeightedSum(rows) = Inf
      BY <2>5 DEF WeightedSum, Terms
    <3>2. CourseGrade(rows) = Inf
      BY <3>1, SpecialValues DEF CourseGrade
    <3> QED
      BY <1>2, <2>1, <2>5, <3>2
  <2>6. CASE NaN \notin Terms(DOMAIN rows) /\ Inf \notin Terms(DOMAIN rows)
    <3>1. ASSUME NEW k \in DOMAIN rows
          PROVE  /\ rows[k].weight * rows[k].grade \in Nat
                 /\ Products[k] = rows[k].weight * rows[k].grade
      <4>1. Weighted(rows[k].weight, rows[k].grade) \in Terms(DOMAIN rows)
        BY DEF Terms
      <4>2. rows[k].grade # Inf
        BY <2>1, <2>6, <4>1, ShareRows
      <4> QED
        BY <2>1, <4>2, ShareRows
    <3>2. MapThenSumSet(LAMBDA k : rows[k].weight * rows[k].grade, DOMAIN rows)
            = Total([x \in DOMAIN rows |-> rows[x].weight * rows[x].grade], DOMAIN rows)
      BY <2>2, <3>1, SumOfProducts
    <3>3. [x \in DOMAIN rows |-> rows[x].weight * rows[x].grade] = Products
      BY <3>1 DEF Products
    <3>4. MapThenSumSet(LAMBDA k : rows[k].weight * rows[k].grade, DOMAIN rows) = p
      BY <3>2, <3>3
    <3>5. WeightedSum(rows) = p
      BY <2>6, <3>4, Zenon DEF WeightedSum, Terms
    <3>6. p # Inf /\ p # NaN
      BY <2>1, SpecialValues
    <3>7. CourseGrade(rows) = IF p = 0 THEN 0 ELSE RoundedQuotient(p, w)
      BY <2>3, <3>5, <3>6, Zenon DEF CourseGrade
    <3> QED
      BY <1>2, <2>1, <2>6, <3>7
  <2> QED
    BY <2>4, <2>5, <2>6
<1> QED
  BY <1>1, <1>2 DEF LoopInv, RowsOfAssignments, RowsOfCategories

(* What sums of zero come from.                                            *)
LEMMA LoopsUndefined ==
  ASSUME LoopsAssumption, LoopInv PROVE Undefined
<1>1. CASE Done /\ kind = "assignments"
  <2> PICK c, t : c = Total(Credits, DOMAIN rows) /\ t = Total(Totals, DOMAIN rows)
    OBVIOUS
  <2>1. /\ RowsOfAssignments /\ c \in Nat /\ t \in Nat
        /\ c = 0 => grade = 0
        /\ c # 0 => grade = RoundedQuotient(10000 * c, t)
    BY <1>1, MarksDone
  <2>2. /\ IsFiniteSet(DOMAIN rows)
        /\ \A a \in DOMAIN rows : /\ rows[a].credit \in Nat /\ Credits[a] = rows[a].credit
                                  /\ rows[a].total \in Nat /\ Totals[a] = rows[a].total
    BY <2>1, MarkRows
  <2>3. c = 0 <=> ~ \E a \in DOMAIN rows : rows[a].credit > 0
    <3>1. c = 0 <=> \A a \in DOMAIN rows : Credits[a] = 0
      BY <2>2, TotalZero
    <3> QED
      BY <2>2, <3>1
  <2>4. t = 0 <=> Counting = {}
    <3>1. t = 0 <=> \A a \in DOMAIN rows : Totals[a] = 0
      BY <2>2, TotalZero
    <3>2. Counting = {} <=> \A a \in DOMAIN rows : rows[a].total = 0
      BY <1>1, <2>2 DEF Counting
    <3> QED
      BY <2>2, <3>1, <3>2
  <2>5. CASE c = 0
    <3>1. grade # NaN /\ grade # Inf
      BY <2>1, <2>5, SpecialValues
    <3> QED
      BY <1>1, <2>3, <2>5, <3>1 DEF Undefined
  <2>6. CASE c # 0 /\ t = 0
    <3>1. 10000 * c # 0
      BY <2>1, <2>6
    <3>2. grade = Inf
      BY <2>1, <2>6, <3>1 DEF RoundedQuotient
    <3> QED
      BY <1>1, <2>3, <2>4, <2>6, <3>2, SpecialValues DEF Undefined
  <2>7. CASE c # 0 /\ t # 0
    <3>1. t > 0 /\ 10000 * c \in Nat
      BY <2>1, <2>7
    <3>2. grade \in Nat
      BY <2>1, <2>7, <3>1, Rounded
    <3>3. grade # Inf /\ grade # NaN
      BY <3>2, SpecialValues
    <3> QED
      BY <1>1, <2>4, <2>7, <3>3 DEF Undefined
  <2> QED
    BY <2>5, <2>6, <2>7
<1>2. CASE Done /\ kind = "categories"
  <2> PICK p, w : p = Total(Products, DOMAIN rows) /\ w = Total(Weights, DOMAIN rows)
    OBVIOUS
  <2>1. /\ RowsOfCategories /\ p \in Nat /\ w \in Nat
        /\ NaN \in Terms(DOMAIN rows) => grade = NaN
        /\ NaN \notin Terms(DOMAIN rows) /\ Inf \in Terms(DOMAIN rows) => grade = Inf
        /\ NaN \notin Terms(DOMAIN rows) /\ Inf \notin Terms(DOMAIN rows) =>
             grade = IF p = 0 THEN 0 ELSE RoundedQuotient(p, w)
    BY <1>2, SharesDone
  <2>2. /\ IsFiniteSet(DOMAIN rows)
        /\ \A k \in DOMAIN rows :
             /\ rows[k].weight \in Nat /\ Weights[k] = rows[k].weight
             /\ rows[k].grade \in Nat \/ rows[k].grade = Inf
             /\ Products[k] \in Nat
             /\ rows[k].grade \in Nat =>
                  /\ Products[k] = rows[k].weight * rows[k].grade
                  /\ Weighted(rows[k].weight, rows[k].grade) = Products[k]
             /\ rows[k].grade = Inf =>
                  Weighted(rows[k].weight, rows[k].grade)
                    = IF rows[k].weight = 0 THEN NaN ELSE Inf
    BY <2>1, ShareRows
  <2>3. NaN \in Terms(DOMAIN rows)
          <=> \E k \in DOMAIN rows : rows[k].grade = Inf /\ rows[k].weight = 0
    BY <2>2, SpecialValues DEF Terms
  <2>4. NaN \in Terms(DOMAIN rows) \/ Inf \in Terms(DOMAIN rows)
          <=> \E k \in DOMAIN rows : rows[k].grade = Inf
    BY <2>2, SpecialValues DEF Terms
  <2>5. Finite(RowGrades) <=> ~ \E k \in DOMAIN rows : rows[k].grade = Inf
    <3>1. RowGrades = {rows[k].grade : k \in DOMAIN rows}
      BY <1>2 DEF RowGrades
    <3> QED
      BY <2>2, <3>1, SpecialValues DEF Finite
  <2>6. ASSUME NaN \notin Terms(DOMAIN rows), Inf \notin Terms(DOMAIN rows)
        PROVE  grade # Inf /\ grade # NaN
    <3>1. p # 0 => w # 0
      <4>1. ASSUME w = 0 PROVE \A k \in DOMAIN rows : Products[k] = 0
        <5>1. \A k \in DOMAIN rows : Weights[k] = 0
          BY <2>2, <4>1, TotalZero
        <5>2. \A k \in DOMAIN rows : rows[k].weight = 0 /\ rows[k].grade \in Nat
          BY <2>2, <2>4, <2>6, <5>1
        <5> QED
          BY <2>2, <5>2
      <4> QED
        BY <2>2, <4>1, TotalZero
    <3>2. grade \in Nat
      <4>1. CASE p = 0
        BY <2>1, <2>6, <4>1
      <4>2. CASE p # 0
        <5>1. w > 0
          BY <2>1, <3>1, <4>2
        <5> QED
          BY <2>1, <2>6, <4>2, <5>1, Rounded
      <4> QED
        BY <4>1, <4>2
    <3> QED
      BY <3>2, SpecialValues
  <2>7. grade \in {Inf, NaN} <=> ~ Finite(RowGrades)
    BY <2>1, <2>4, <2>5, <2>6
  <2>8. grade = NaN <=> \E k \in DOMAIN rows : rows[k].grade = Inf /\ rows[k].weight = 0
    BY <2>1, <2>3, <2>6, SpecialValues
  <2> QED
    BY <1>2, <2>7, <2>8 DEF Undefined
<1>3. kind = "assignments" \/ kind = "categories"
  BY DEF LoopInv, RowsOfAssignments, RowsOfCategories
<1>4. CASE ~ Done
  BY <1>4 DEF Undefined
<1> QED
  BY <1>1, <1>2, <1>3, <1>4

(* A grade of a mark, and one above or below it.                           *)
LEMMA NearMark ==
  ASSUME NEW c \in Nat, NEW t \in Nat, t > 0, NEW q, q = RoundedQuotient(10000 * c, t)
  PROVE  q \in Nat /\ (2 * q - 1) * t <= 20000 * c /\ 20000 * c < (2 * q + 1) * t
<1> PICK n : n = 10000 * c
  OBVIOUS
<1>1. n \in Nat /\ q = RoundedQuotient(n, t)
  OBVIOUS
<1>2. q \in Nat /\ 2 * (t * q) <= 2 * n + t /\ 2 * n + t < 2 * (t * q) + 2 * t
  BY <1>1, Rounded
<1>3. (2 * q - 1) * t = 2 * (t * q) - t /\ (2 * q + 1) * t = 2 * (t * q) + t
  BY <1>2
<1>4. t * q \in Nat
  BY <1>2
<1> QED
  BY <1>2, <1>3, <1>4

(* A multiple of a number no greater is no greater.                        *)
LEMMA Times ==
  ASSUME NEW a \in Int, NEW b \in Int, a <= b, NEW t \in Nat
  PROVE  a * t <= b * t /\ a * t \in Int /\ b * t \in Int
<1> PICK d : d = b - a
  OBVIOUS
<1>1. d \in Nat /\ b = a + d
  OBVIOUS
<1>2. (a + d) * t = a * t + d * t /\ d * t \in Nat
  BY <1>1
<1> QED
  BY <1>1, <1>2

LEMMA MarkAbove ==
  ASSUME NEW c \in Nat, NEW t \in Nat, t > 0, NEW G \in Nat,
         ~ (RoundedQuotient(10000 * c, t) <= G)
  PROVE  (2 * G + 1) * t <= 20000 * c
<1> PICK q : q = RoundedQuotient(10000 * c, t)
  OBVIOUS
<1>1. q \in Nat /\ (2 * q - 1) * t <= 20000 * c
  BY NearMark
<1> PICK a, b : a = 2 * G + 1 /\ b = 2 * q - 1
  OBVIOUS
<1>2. a \in Int /\ b \in Int /\ a <= b
  BY <1>1
<1>3. a * t <= b * t /\ a * t \in Int /\ b * t \in Int
  BY <1>2, Times
<1> QED
  BY <1>1, <1>3

LEMMA MarkBelow ==
  ASSUME NEW c \in Nat, NEW t \in Nat, t > 0, NEW G \in Nat,
         ~ (G <= RoundedQuotient(10000 * c, t))
  PROVE  G >= 1 /\ 20000 * c < (2 * G - 1) * t
<1> PICK q : q = RoundedQuotient(10000 * c, t)
  OBVIOUS
<1>1. q \in Nat /\ 20000 * c < (2 * q + 1) * t
  BY NearMark
<1> PICK a, b : a = 2 * q + 1 /\ b = 2 * G - 1
  OBVIOUS
<1>2. a \in Int /\ b \in Int /\ a <= b /\ G >= 1
  BY <1>1
<1>3. a * t <= b * t /\ a * t \in Int /\ b * t \in Int
  BY <1>2, Times
<1> QED
  BY <1>1, <1>2, <1>3

(* The mean of assignments: a grade below, or above, that of every row     *)
(* would make the sums differ.                                             *)
LEMMA MarksMean ==
  ASSUME NEW S, IsFiniteSet(S), S # {}, NEW u, NEW v,
         \A x \in S : u[x] \in Nat /\ v[x] \in Nat /\ v[x] > 0
  PROVE  \A G : /\ Total(u, S) = 0 => G = 0
                /\ Total(u, S) # 0 =>
                     G = RoundedQuotient(10000 * Total(u, S), Total(v, S))
           => /\ \E x \in S : RoundedQuotient(10000 * u[x], v[x]) <= G
              /\ \E x \in S : G <= RoundedQuotient(10000 * u[x], v[x])
<1>1. PICK C, T : C = Total(u, S) /\ T = Total(v, S)
  OBVIOUS
<1>2. ASSUME NEW m \in Nat, NEW n \in Nat, \A x \in S : m * v[x] <= n * u[x]
      PROVE  m * T <= n * C
  <2>1. m * Total(v, S) <= n * Total(u, S)
    BY <1>2, TotalAtMost
  <2> QED
    BY <1>1, <2>1
<1>3. ASSUME NEW m \in Nat, NEW n \in Nat, \A x \in S : m * u[x] < n * v[x]
      PROVE  m * C < n * T
  <2>1. m * Total(u, S) < n * Total(v, S)
    BY <1>3, TotalLess
  <2> QED
    BY <1>1, <2>1
<1>4. C \in Nat /\ T \in Nat
  BY <1>1, TotalIs
<1>5. T > 0
  <2>1. T # 0
    BY <1>1, TotalZero
  <2> QED
    BY <1>4, <2>1
<1>6. ASSUME NEW G, C = 0 => G = 0, C # 0 => G = RoundedQuotient(10000 * C, T)
      PROVE  /\ \E x \in S : RoundedQuotient(10000 * u[x], v[x]) <= G
             /\ \E x \in S : G <= RoundedQuotient(10000 * u[x], v[x])
  <2>1. G \in Nat /\ (C # 0 => (2 * G - 1) * T <= 20000 * C) /\ 20000 * C < (2 * G + 1) * T
    <3>1. CASE C = 0
      BY <1>4, <1>5, <1>6, <3>1
    <3>2. CASE C # 0
      BY <1>4, <1>5, <1>6, <3>2, NearMark
    <3> QED
      BY <3>1, <3>2
  <2>2. ASSUME \A x \in S : ~ (RoundedQuotient(10000 * u[x], v[x]) <= G) PROVE FALSE
    <3>1. PICK m, n : m = 2 * G + 1 /\ n = 20000
      OBVIOUS
    <3>2. m \in Nat /\ n \in Nat
      BY <2>1, <3>1
    <3>3. \A x \in S : m * v[x] <= n * u[x]
      <4> TAKE x \in S
      <4> PICK a, b : a = u[x] /\ b = v[x]
        OBVIOUS
      <4>1. a \in Nat /\ b \in Nat /\ b > 0 /\ ~ (RoundedQuotient(10000 * a, b) <= G)
        BY <2>2
      <4>2. (2 * G + 1) * b <= 20000 * a
        BY <2>1, <4>1, MarkAbove
      <4> QED
        BY <3>1, <4>2
    <3>4. m * T <= n * C
      BY <1>2, <3>2, <3>3
    <3>5. m * T \in Int /\ n * C \in Int
      BY <1>4, <3>2
    <3> QED
      BY <2>1, <3>1, <3>4, <3>5
  <2>3. ASSUME \A x \in S : ~ (G <= RoundedQuotient(10000 * u[x], v[x])) PROVE FALSE
    <3>1. ASSUME NEW x \in S PROVE G >= 1 /\ 20000 * u[x] < (2 * G - 1) * v[x]
      <4> PICK a, b : a = u[x] /\ b = v[x]
        OBVIOUS
      <4>1. a \in Nat /\ b \in Nat /\ b > 0 /\ ~ (G <= RoundedQuotient(10000 * a, b))
        BY <2>3
      <4>2. G >= 1 /\ 20000 * a < (2 * G - 1) * b
        BY <2>1, <4>1, MarkBelow
      <4> QED
        BY <4>2
    <3>2. PICK m, n : m = 20000 /\ n = 2 * G - 1
      OBVIOUS
    <3>3. G >= 1 /\ m \in Nat /\ n \in Nat
      BY <2>1, <3>1, <3>2
    <3>4. m * C < n * T
      <4>1. \A x \in S : m * u[x] < n * v[x]
        BY <3>1, <3>2
      <4> QED
        BY <1>3, <3>3, <4>1
    <3>5. m * C \in Int /\ n * T \in Int /\ C # 0
      BY <1>4, <1>6, <3>3
    <3> QED
      BY <2>1, <3>2, <3>4, <3>5
  <2> QED
    BY <2>2, <2>3
<1> QED
  BY <1>1, <1>6

(* The weighted mean of categories, of which those of weight zero count    *)
(* for nothing.                                                            *)
LEMMA SharesMean ==
  ASSUME NEW S, IsFiniteSet(S), NEW p, NEW w, NEW g,
         \A x \in S : w[x] \in Nat /\ g[x] \in Nat /\ p[x] = w[x] * g[x],
         \E x \in S : w[x] > 0
  PROVE  \A G : G = (IF Total(p, S) = 0 THEN 0
                      ELSE RoundedQuotient(Total(p, S), Total(w, S)))
           => /\ \E x \in S : w[x] > 0 /\ g[x] <= G
              /\ \E x \in S : w[x] > 0 /\ G <= g[x]
<1>1. PICK P, W : P = Total(p, S) /\ W = Total(w, S)
  OBVIOUS
<1>2. \A x \in S : p[x] \in Nat /\ w[x] \in Nat
  <2> TAKE x \in S
  <2> PICK a, b : a = w[x] /\ b = g[x]
    OBVIOUS
  <2>1. a \in Nat /\ b \in Nat /\ p[x] = a * b
    OBVIOUS
  <2> QED
    BY <2>1
<1>3. ASSUME NEW m \in Nat, \A x \in S : m * w[x] <= 1 * p[x] PROVE m * W <= P
  <2>1. m * Total(w, S) <= 1 * Total(p, S)
    BY <1>2, <1>3, TotalAtMost
  <2>2. Total(p, S) \in Nat
    BY <1>2, TotalIs
  <2> QED
    BY <1>1, <2>1, <2>2
<1>4. ASSUME NEW n \in Nat, \A x \in S : 1 * p[x] <= n * w[x] PROVE P <= n * W
  <2>1. 1 * Total(p, S) <= n * Total(w, S)
    BY <1>2, <1>4, TotalAtMost
  <2>2. Total(p, S) \in Nat
    BY <1>2, TotalIs
  <2> QED
    BY <1>1, <2>1, <2>2
<1>5. P \in Nat /\ W \in Nat /\ W > 0
  <2>1. P \in Nat /\ W \in Nat
    BY <1>1, <1>2, TotalIs
  <2>2. W # 0
    BY <1>1, TotalZero
  <2> QED
    BY <2>1, <2>2
<1>6. ASSUME NEW G, G = IF P = 0 THEN 0 ELSE RoundedQuotient(P, W)
      PROVE  /\ \E x \in S : w[x] > 0 /\ g[x] <= G
             /\ \E x \in S : w[x] > 0 /\ G <= g[x]
  <2>1. /\ G \in Nat
        /\ P # 0 => 2 * (W * G) <= 2 * P + W /\ 2 * P + W < 2 * (W * G) + 2 * W
    <3>1. CASE P = 0
      BY <1>6, <3>1
    <3>2. CASE P # 0
      <4>1. G = RoundedQuotient(P, W)
        BY <1>6, <3>2
      <4> QED
        BY <1>5, <4>1, Rounded
    <3> QED
      BY <3>1, <3>2
  <2>2. ASSUME \A x \in S : w[x] > 0 => ~ (g[x] <= G) PROVE FALSE
    <3>1. PICK m : m = G + 1
      OBVIOUS
    <3>2. m \in Nat
      BY <2>1, <3>1
    <3>3. ASSUME NEW x \in S PROVE m * w[x] <= 1 * p[x]
      <4> PICK a, b : a = w[x] /\ b = g[x]
        OBVIOUS
      <4>1. a \in Nat /\ b \in Nat /\ p[x] = a * b /\ (a > 0 => b >= m)
        BY <2>1, <2>2, <3>1
      <4>2. a > 0 => m * a <= b * a
        BY <3>2, <4>1, Times
      <4>3. b * a = a * b /\ m * 0 = 0 /\ a * b \in Nat
        BY <3>2, <4>1
      <4>4. CASE a = 0
        BY <4>1, <4>3, <4>4
      <4>5. CASE a > 0
        BY <4>1, <4>2, <4>3, <4>5
      <4> QED
        BY <4>1, <4>4, <4>5
    <3>4. m * W <= P
      BY <1>3, <3>2, <3>3
    <3>5. m * W = W * G + W /\ W * G \in Nat
      BY <1>5, <2>1, <3>1
    <3> QED
      BY <1>5, <2>1, <3>4, <3>5
  <2>3. ASSUME \A x \in S : w[x] > 0 => ~ (G <= g[x]) PROVE FALSE
    <3>1. PICK n : n = G - 1
      OBVIOUS
    <3>2. G >= 1 /\ n \in Nat
      BY <2>1, <2>3, <3>1
    <3>3. ASSUME NEW x \in S PROVE 1 * p[x] <= n * w[x]
      <4> PICK a, b : a = w[x] /\ b = g[x]
        OBVIOUS
      <4>1. a \in Nat /\ b \in Nat /\ p[x] = a * b /\ (a > 0 => b <= n)
        BY <2>1, <2>3, <3>1
      <4>2. a > 0 => b * a <= n * a
        BY <3>2, <4>1, Times
      <4>3. b * a = a * b /\ n * 0 = 0 /\ a * b \in Nat
        BY <3>2, <4>1
      <4>4. CASE a = 0
        BY <4>1, <4>3, <4>4
      <4>5. CASE a > 0
        BY <4>1, <4>2, <4>3, <4>5
      <4> QED
        BY <4>1, <4>4, <4>5
    <3>4. P <= n * W
      BY <1>4, <3>2, <3>3
    <3>5. n * W = W * G - W /\ W * G \in Nat
      BY <1>5, <2>1, <3>1
    <3>6. P # 0
      BY <1>6, <3>2
    <3> QED
      BY <1>5, <2>1, <3>4, <3>5, <3>6
  <2> QED
    BY <2>2, <2>3
<1> QED
  BY <1>1, <1>6

(* GradeIsMean follows from the means of both kinds of rows.               *)
LEMMA LoopsMean ==
  ASSUME LoopsAssumption, LoopInv PROVE GradeIsMean
<1>1. CASE Done /\ kind = "assignments" /\ Finite(RowGrades)
  <2> PICK c, t : c = Total(Credits, DOMAIN rows) /\ t = Total(Totals, DOMAIN rows)
    OBVIOUS
  <2>1. /\ RowsOfAssignments
        /\ c = 0 => grade = 0
        /\ c # 0 => grade = RoundedQuotient(10000 * c, t)
    BY <1>1, MarksDone
  <2>2. /\ IsFiniteSet(DOMAIN rows)
        /\ \A a \in DOMAIN rows : /\ rows[a].credit \in Nat /\ Credits[a] = rows[a].credit
                                  /\ rows[a].total \in Nat /\ Totals[a] = rows[a].total
    BY <2>1, MarkRows
  <2>3. \A a \in DOMAIN rows : rows[a].total > 0
    <3> SUFFICES ASSUME NEW a \in DOMAIN rows, rows[a].total = 0 PROVE FALSE
      BY <2>2
    <3>1. AssignmentGrade(rows[a]) \in {Inf, NaN}
      BY DEF AssignmentGrade, RoundedQuotient
    <3>2. AssignmentGrade(rows[a]) \in RowGrades
      BY <1>1 DEF RowGrades
    <3> QED
      BY <1>1, <3>1, <3>2 DEF Finite
  <2>4. Counting = DOMAIN rows
    BY <1>1, <2>3 DEF Counting
  <2>5. CASE DOMAIN rows = {}
    <3>1. c = 0
      BY <2>2, <2>5, TotalIs
    <3> QED
      BY <1>1, <2>1, <2>4, <2>5, <3>1 DEF GradeIsMean
  <2>6. CASE DOMAIN rows # {}
    <3>1. /\ \E a \in DOMAIN rows : RoundedQuotient(10000 * Credits[a], Totals[a]) <= grade
          /\ \E a \in DOMAIN rows : grade <= RoundedQuotient(10000 * Credits[a], Totals[a])
      <4> PICK S, u, v : S = DOMAIN rows /\ u = Credits /\ v = Totals
        OBVIOUS
      <4>1. /\ IsFiniteSet(S) /\ S # {}
            /\ \A x \in S : u[x] \in Nat /\ v[x] \in Nat /\ v[x] > 0
        BY <2>2, <2>3, <2>6
      <4>2. /\ Total(u, S) = 0 => grade = 0
            /\ Total(u, S) # 0 => grade = RoundedQuotient(10000 * Total(u, S), Total(v, S))
        BY <2>1
      <4>3. /\ \E x \in S : RoundedQuotient(10000 * u[x], v[x]) <= grade
            /\ \E x \in S : grade <= RoundedQuotient(10000 * u[x], v[x])
        BY <4>1, <4>2, MarksMean
      <4> QED
        BY <4>3
    <3>2. \A a \in DOMAIN rows :
            AssignmentGrade(rows[a]) = RoundedQuotient(10000 * Credits[a], Totals[a])
      BY <2>2 DEF AssignmentGrade
    <3>3. /\ \E a \in DOMAIN rows : AssignmentGrade(rows[a]) <= grade
          /\ \E a \in DOMAIN rows : grade <= AssignmentGrade(rows[a])
      BY <3>1, <3>2
    <3> QED
      BY <1>1, <2>4, <2>6, <3>3 DEF GradeIsMean
  <2> QED
    BY <2>5, <2>6
<1>2. CASE Done /\ kind = "categories" /\ Finite(RowGrades)
  <2> PICK p, w : p = Total(Products, DOMAIN rows) /\ w = Total(Weights, DOMAIN rows)
    OBVIOUS
  <2>1. /\ RowsOfCategories /\ p \in Nat /\ w \in Nat
        /\ NaN \notin Terms(DOMAIN rows) /\ Inf \notin Terms(DOMAIN rows) =>
             grade = IF p = 0 THEN 0 ELSE RoundedQuotient(p, w)
    BY <1>2, SharesDone
  <2>2. \A k \in DOMAIN rows : rows[k].grade \in Nat
    <3> SUFFICES ASSUME NEW k \in DOMAIN rows, rows[k].grade = Inf PROVE FALSE
      BY <2>1, ShareRows
    <3>1. rows[k].grade \in RowGrades
      BY <1>2 DEF RowGrades
    <3> QED
      BY <1>2, <3>1 DEF Finite
  <2>3. /\ IsFiniteSet(DOMAIN rows)
        /\ \A k \in DOMAIN rows :
             /\ rows[k].weight \in Nat /\ Weights[k] = rows[k].weight
             /\ Products[k] \in Nat
             /\ Products[k] = rows[k].weight * rows[k].grade
             /\ Weighted(rows[k].weight, rows[k].grade) = Products[k]
    BY <2>1, <2>2, ShareRows
  <2>4. grade = IF p = 0 THEN 0 ELSE RoundedQuotient(p, w)
    <3>1. Terms(DOMAIN rows) \subseteq Nat
      BY <2>3 DEF Terms
    <3> QED
      BY <2>1, <3>1, SpecialValues
  <2>5. Counting = {k \in DOMAIN rows : rows[k].weight > 0}
    BY <1>2 DEF Counting
  <2>6. CASE Counting = {}
    <3>1. \A k \in DOMAIN rows : rows[k].weight = 0
      BY <2>3, <2>5, <2>6
    <3>2. \A k \in DOMAIN rows : Products[k] = 0
      BY <2>2, <2>3, <3>1
    <3>3. p = 0
      BY <2>3, <3>2, TotalZero
    <3> QED
      BY <1>2, <2>4, <2>6, <3>3 DEF GradeIsMean
  <2>7. CASE Counting # {}
    <3> DEFINE g == [k \in DOMAIN rows |-> rows[k].grade]
    <3>1. /\ \E k \in DOMAIN rows : Weights[k] > 0 /\ g[k] <= grade
          /\ \E k \in DOMAIN rows : Weights[k] > 0 /\ grade <= g[k]
      <4>1. /\ \A k \in DOMAIN rows :
                 Weights[k] \in Nat /\ g[k] \in Nat /\ Products[k] = Weights[k] * g[k]
            /\ \E k \in DOMAIN rows : Weights[k] > 0
        BY <2>2, <2>3, <2>5, <2>7
      <4> HIDE DEF g
      <4>2. PICK S, u, v : S = DOMAIN rows /\ u = Products /\ v = Weights
        OBVIOUS
      <4>3. /\ IsFiniteSet(S) /\ \E x \in S : v[x] > 0
            /\ \A x \in S : v[x] \in Nat /\ g[x] \in Nat /\ u[x] = v[x] * g[x]
        BY <2>3, <4>1, <4>2
      <4>4. grade = IF Total(u, S) = 0 THEN 0 ELSE RoundedQuotient(Total(u, S), Total(v, S))
        BY <2>4, <4>2
      <4>5. /\ \E x \in S : v[x] > 0 /\ g[x] <= grade
            /\ \E x \in S : v[x] > 0 /\ grade <= g[x]
        BY <4>3, <4>4, SharesMean, Zenon
      <4> QED
        BY <4>2, <4>5
    <3>2. /\ \E k \in Counting : rows[k].grade <= grade
          /\ \E k \in Counting : grade <= rows[k].grade
      BY <2>3, <2>5, <3>1
    <3> QED
      BY <1>2, <2>7, <3>2 DEF GradeIsMean
  <2> QED
    BY <2>6, <2>7
<1>3. kind = "assignments" \/ kind = "categories"
  BY DEF LoopInv, RowsOfAssignments, RowsOfCategories
<1>4. CASE ~ (Done /\ Finite(RowGrades))
  BY <1>4 DEF GradeIsMean
<1> QED
  BY <1>1, <1>2, <1>3, <1>4

-----------------------------------------------------------------------------
(* The inductive invariant behind the three results.                       *)
THEOREM LoopInvAlways == ASSUME LoopsAssumption PROVE Spec => []LoopInv
<1>1. Init => LoopInv
  BY LoopInit
<1>2. LoopInv /\ [Next]_vars => LoopInv'
  BY LoopStep
<1> QED
  BY <1>1, <1>2, PTL DEF Spec

(* In whatever order the rows of a snapshot come, and however many, the    *)
(* loops of the two handlers store the grade that Grades states in closed  *)
(* form, which are the roll-ups of GradeKeep.                              *)
THEOREM LoopsComputeTheGrade ==
  ASSUME LoopsAssumption PROVE Spec => []LoopsComputeGrades
<1>1. LoopInv => LoopsComputeGrades
  BY LoopsCompute
<1> QED
  BY <1>1, LoopInvAlways, PTL

(* A stored grade lies between the lowest and the highest of the rows that *)
(* count: rounding to a hundredth never carries it past them.              *)
THEOREM TheGradeIsAMean ==
  ASSUME LoopsAssumption PROVE Spec => []GradeIsMean
<1>1. LoopInv => GradeIsMean
  BY LoopsMean
<1> QED
  BY <1>1, LoopInvAlways, PTL

(* Which rows make the grade above them infinite, and which undefined.     *)
THEOREM WhenTheGradeIsUndefined ==
  ASSUME LoopsAssumption PROVE Spec => []Undefined
<1>1. LoopInv => Undefined
  BY LoopsUndefined
<1> QED
  BY <1>1, LoopInvAlways, PTL
=============================================================================
