--------------------------- MODULE FlattenProofs ---------------------------
(***************************************************************************)
(* What FlattenSeq returns, for every sequence of sequences: a leader of   *)
(* leveldb's writers concatenates the batches of its group with it         *)
(* (BuildBatchGroup of WriterQueue), and so does the history of completed  *)
(* writes.  Each place of the result is a place of one of the sequences,   *)
(* each of theirs is one of the result, and the order is kept.  FlattenSeq *)
(* is defined by recursion; the induction is on the set of the numbers of  *)
(* sequences for which this holds (SetInduction), which needs no operator  *)
(* parameter.                                                              *)
(***************************************************************************)
EXTENDS Integers, SequencesExt, SequenceTheorems, WellFoundedInduction, TLAPS

(* Induction on the natural numbers, for a set of numbers.                 *)
LEMMA SetInduction ==
  ASSUME NEW T, 0 \in T, \A n \in Nat : n \in T => n + 1 \in T
  PROVE  Nat \subseteq T
<1> DEFINE U == Nat \ T
<1>1. SUFFICES ASSUME U # {} PROVE FALSE
  OBVIOUS
<1>2. PICK m \in U : \A y \in U : ~(<<y, m>> \in OpToRel(<, Nat))
  <2> HIDE DEF U
  <2>1. U \subseteq Nat
    BY DEF U
  <2> QED
    BY <1>1, <2>1, WFMin, NatLessThanWellFounded
<1>3. m \in Nat /\ m \notin T /\ m # 0
  OBVIOUS
<1>4. m - 1 \in Nat /\ m - 1 < m
  BY <1>3
<1>5. m - 1 \notin U
  BY <1>2, <1>3, <1>4 DEF OpToRel
<1>6. m - 1 \in T
  BY <1>4, <1>5
<1>7. (m - 1) + 1 \in T
  BY <1>4, <1>6
<1> QED
  BY <1>3, <1>7

(* The greatest of some numbers, by which FoldLeft and FoldRight go through*)
(* a sequence.                                                             *)
LEMMA GreatestIs ==
  ASSUME NEW n \in Nat, NEW s \in SUBSET (1 .. n), s # {}
  PROVE  Max(s) \in s /\ \A y \in s : Max(s) >= y
<1> DEFINE Greatest(t) == \E x \in t : \A y \in t : x >= y
           T == {k \in Nat : \A t \in SUBSET (1 .. k) : t # {} => Greatest(t)}
<1>1. 0 \in T
  <2>1. 1 .. 0 = {}
    OBVIOUS
  <2> QED
    BY <2>1
<1>2. ASSUME NEW k \in Nat, k \in T PROVE k + 1 \in T
  <2> SUFFICES ASSUME NEW t \in SUBSET (1 .. k + 1), t # {} PROVE Greatest(t)
    OBVIOUS
  <2>1. CASE k + 1 \in t
    BY <2>1
  <2>2. CASE k + 1 \notin t
    <3>1. t \in SUBSET (1 .. k)
      BY <2>2
    <3> QED
      BY <1>2, <3>1
  <2> QED
    BY <2>1, <2>2
<1>3. n \in T
  <2> HIDE DEF T
  <2> QED
    BY <1>1, <1>2, SetInduction
<1> QED
  BY <1>3 DEF Max

(* flat is the concatenation of the first n of the sequences ss: its       *)
(* element i is element at[i] of sequence from[i], in order.               *)
Places(flat, ss, n, from, at) ==
  /\ \A i \in 1 .. Len(flat) :
       /\ from[i] \in 1 .. n
       /\ at[i] \in 1 .. Len(ss[from[i]])
       /\ flat[i] = ss[from[i]][at[i]]
  /\ \A i, j \in 1 .. Len(flat) : i < j =>
       from[i] < from[j] \/ (from[i] = from[j] /\ at[i] < at[j])
  /\ \A j \in 1 .. n : \A k \in 1 .. Len(ss[j]) :
       \E i \in 1 .. Len(flat) : from[i] = j /\ at[i] = k

Concatenates(flat, ss, n) == \E from, at : Places(flat, ss, n, from, at)

(* One sequence more.                                                      *)
LEMMA ConcatenatesNext ==
  ASSUME NEW S, NEW ss \in Seq(Seq(S)), NEW n \in 0 .. Len(ss) - 1,
         NEW flat \in Seq(S), Concatenates(flat, ss, n)
  PROVE  /\ flat \o ss[n + 1] \in Seq(S)
         /\ Concatenates(flat \o ss[n + 1], ss, n + 1)
<1> DEFINE more == ss[n + 1]
           all == flat \o more
<1>1. PICK from, at : Places(flat, ss, n, from, at)
  BY DEF Concatenates
<1> DEFINE from2 == [i \in 1 .. Len(all) |-> IF i <= Len(flat) THEN from[i] ELSE n + 1]
           at2 == [i \in 1 .. Len(all) |-> IF i <= Len(flat) THEN at[i] ELSE i - Len(flat)]
<1>2. more \in Seq(S) /\ Len(more) \in Nat /\ Len(flat) \in Nat /\ n \in Nat
      /\ Len(ss) \in Nat
  OBVIOUS
<1>3. /\ all \in Seq(S) /\ Len(all) = Len(flat) + Len(more)
      /\ \A i \in 1 .. Len(flat) : all[i] = flat[i]
      /\ \A i \in 1 .. Len(more) : all[i + Len(flat)] = more[i]
  BY <1>2
<1> HIDE DEF all
<1>4. \A i \in 1 .. Len(all) :
        \/ i \in 1 .. Len(flat) /\ from2[i] = from[i] /\ at2[i] = at[i]
        \/ /\ i \in Len(flat) + 1 .. Len(flat) + Len(more)
           /\ i - Len(flat) \in 1 .. Len(more)
           /\ from2[i] = n + 1 /\ at2[i] = i - Len(flat)
  BY <1>2, <1>3
<1> HIDE DEF from2, at2
<1>5. ASSUME NEW i \in 1 .. Len(all)
      PROVE  /\ from2[i] \in 1 .. n + 1
             /\ at2[i] \in 1 .. Len(ss[from2[i]])
             /\ all[i] = ss[from2[i]][at2[i]]
  <2>1. CASE i \in 1 .. Len(flat) /\ from2[i] = from[i] /\ at2[i] = at[i]
    <3>1. from[i] \in 1 .. n /\ at[i] \in 1 .. Len(ss[from[i]])
          /\ flat[i] = ss[from[i]][at[i]]
      BY <2>1, <1>1 DEF Places
    <3>2. from[i] \in 1 .. n + 1 /\ all[i] = flat[i]
      BY <2>1, <3>1, <1>2, <1>3
    <3> QED
      BY <2>1, <3>1, <3>2
  <2>2. CASE /\ i \in Len(flat) + 1 .. Len(flat) + Len(more)
             /\ i - Len(flat) \in 1 .. Len(more)
             /\ from2[i] = n + 1 /\ at2[i] = i - Len(flat)
    <3>1. all[(i - Len(flat)) + Len(flat)] = more[i - Len(flat)]
      BY <2>2, <1>3
    <3>2. (i - Len(flat)) + Len(flat) = i
      BY <1>2
    <3>3. n + 1 \in 1 .. n + 1
      BY <1>2
    <3>4. all[i] = more[i - Len(flat)]
      BY <3>1, <3>2
    <3> QED
      BY <2>2, <3>3, <3>4
  <2> QED
    BY <2>1, <2>2, <1>4
<1>6. ASSUME NEW i \in 1 .. Len(all), NEW j \in 1 .. Len(all), i < j
      PROVE  from2[i] < from2[j] \/ (from2[i] = from2[j] /\ at2[i] < at2[j])
  <2>1. CASE i \in 1 .. Len(flat) /\ j \in 1 .. Len(flat)
    <3>1. /\ from2[i] = from[i] /\ at2[i] = at[i]
          /\ from2[j] = from[j] /\ at2[j] = at[j]
      BY <2>1, <1>2, <1>4
    <3> QED
      BY <3>1, <2>1, <1>6, <1>1 DEF Places
  <2>2. CASE i \in 1 .. Len(flat) /\ j \notin 1 .. Len(flat)
    <3>1. from2[i] = from[i] /\ from[i] \in 1 .. n /\ from2[j] = n + 1
      <4>1. from[i] \in 1 .. n
        BY <2>2, <1>1 DEF Places
      <4>2. from2[i] = from[i]
        BY <2>2, <1>2, <1>4
      <4>3. from2[j] = n + 1
        BY <2>2, <1>2, <1>4
      <4> QED
        BY <4>1, <4>2, <4>3
    <3> QED
      BY <3>1, <1>2
  <2>3. CASE i \notin 1 .. Len(flat)
    <3>1. /\ from2[i] = n + 1 /\ at2[i] = i - Len(flat)
          /\ from2[j] = n + 1 /\ at2[j] = j - Len(flat)
      BY <2>3, <1>2, <1>4, <1>6
    <3> QED
      BY <3>1, <1>2, <1>6
  <2> QED
    BY <2>1, <2>2, <2>3
<1>7. ASSUME NEW j \in 1 .. n + 1, NEW k \in 1 .. Len(ss[j])
      PROVE  \E i \in 1 .. Len(all) : from2[i] = j /\ at2[i] = k
  <2>1. CASE j \in 1 .. n
    <3>1. PICK i \in 1 .. Len(flat) : from[i] = j /\ at[i] = k
      BY <2>1, <1>1 DEF Places
    <3>2. i \in 1 .. Len(all) /\ i \notin Len(flat) + 1 .. Len(flat) + Len(more)
      BY <1>2, <1>3
    <3> QED
      BY <3>1, <3>2, <1>4
  <2>2. CASE j = n + 1
    <3>1. k + Len(flat) \in 1 .. Len(all) /\ k + Len(flat) \notin 1 .. Len(flat)
          /\ (k + Len(flat)) - Len(flat) = k
      BY <2>2, <1>2, <1>3
    <3> QED
      BY <3>1, <2>2, <1>4
  <2> QED
    BY <2>1, <2>2, <1>2
<1>8. Places(all, ss, n + 1, from2, at2)
  BY <1>5, <1>6, <1>7 DEF Places
<1> QED
  BY <1>3, <1>8 DEF Concatenates, all

(* What FlattenSeq computes.                                               *)
LEMMA FlattenConcatenates ==
  ASSUME NEW S, NEW ss \in Seq(Seq(S)), ss # <<>>
  PROVE  /\ FlattenSeq(ss) \in Seq(S)
         /\ Concatenates(FlattenSeq(ss), ss, Len(ss))
<1> DEFINE L == Len(ss)
           Flattens(g, n) ==
             g = [i \in 1 .. n |-> IF i = 1 THEN ss[i] ELSE g[i - 1] \o ss[i]]
           Good(n) == \E g : /\ Flattens(g, n)
                             /\ g[n] \in Seq(S)
                             /\ Concatenates(g[n], ss, n)
           T == {n \in Nat : n + 1 <= L => Good(n + 1)}
<1>1. L \in Nat /\ L >= 1 /\ \A i \in 1 .. L : ss[i] \in Seq(S)
  OBVIOUS
<1>2. 0 \in T
  <2> DEFINE g == [i \in 1 .. 1 |-> ss[1]]
  <2>1. Flattens(g, 1) /\ g[1] = ss[1]
    OBVIOUS
  <2>2. <<>> \in Seq(S) /\ Places(<<>>, ss, 0, <<>>, <<>>)
    BY DEF Places
  <2>3. ss[1] \in Seq(S) /\ <<>> \o ss[1] = ss[1]
    BY <1>1
  <2>4. Concatenates(ss[1], ss, 1)
    <3>1. 0 \in 0 .. Len(ss) - 1 /\ Concatenates(<<>>, ss, 0)
      BY <1>1, <2>2 DEF Concatenates
    <3>2. Concatenates(<<>> \o ss[0 + 1], ss, 0 + 1)
      BY <2>2, <3>1, ConcatenatesNext
    <3> QED
      BY <3>2, <2>3
  <2> HIDE DEF g, Flattens
  <2>5. 0 \in Nat /\ 0 + 1 = 1
    OBVIOUS
  <2> QED
    BY <2>1, <2>3, <2>4, <2>5
<1>3. ASSUME NEW n \in Nat, n \in T PROVE n + 1 \in T
  <2> SUFFICES ASSUME n + 2 <= L PROVE Good(n + 2)
    <3> HIDE DEF Good
    <3>1. n + 1 \in Nat /\ (n + 1) + 1 = n + 2
      OBVIOUS
    <3> QED
      BY <3>1
  <2>0. Good(n + 1)
    <3> HIDE DEF Good
    <3> QED
      BY <1>1, <1>3
  <2>1. PICK g : /\ Flattens(g, n + 1)
                 /\ g[n + 1] \in Seq(S)
                 /\ Concatenates(g[n + 1], ss, n + 1)
    BY <2>0
  <2> DEFINE h == [i \in 1 .. n + 2 |-> IF i = n + 2 THEN g[n + 1] \o ss[n + 2] ELSE g[i]]
  <2>2. \A i \in 1 .. n + 1 : h[i] = g[i]
    OBVIOUS
  <2>3. h[n + 2] = g[n + 1] \o ss[n + 2]
    <3>1. n + 2 \in 1 .. n + 2
      OBVIOUS
    <3> QED
      BY <3>1, Zenon
  <2>4. \A i \in 1 .. n + 1 : g[i] = IF i = 1 THEN ss[i] ELSE g[i - 1] \o ss[i]
    BY <2>1
  <2>5. Flattens(h, n + 2)
    <3> SUFFICES ASSUME NEW i \in 1 .. n + 2
                 PROVE  h[i] = IF i = 1 THEN ss[i] ELSE h[i - 1] \o ss[i]
      OBVIOUS
    <3> HIDE DEF h
    <3>1. CASE i \in 1 .. n + 1
      <4>1. i # 1 => i - 1 \in 1 .. n + 1
        BY <3>1
      <4> QED
        BY <3>1, <4>1, <2>2, <2>4
    <3>2. CASE i = n + 2
      <4>1. i # 1 /\ i - 1 = n + 1 /\ n + 1 \in 1 .. n + 1
        BY <3>2
      <4> QED
        BY <3>2, <4>1, <2>2, <2>3
    <3> QED
      BY <3>1, <3>2
  <2>6. n + 1 \in 0 .. Len(ss) - 1 /\ (n + 1) + 1 = n + 2
    BY <1>1
  <2>7. g[n + 1] \o ss[n + 2] \in Seq(S) /\ Concatenates(g[n + 1] \o ss[n + 2], ss, n + 2)
    BY <2>1, <2>6, ConcatenatesNext
  <2> HIDE DEF h, Flattens
  <2> QED
    BY <2>3, <2>5, <2>7
<1>4. Nat \subseteq T
  <2> HIDE DEF T
  <2> QED
    BY <1>2, <1>3, SetInduction
<1>5. Good(L)
  <2> HIDE DEF Good
  <2>1. L - 1 \in Nat /\ (L - 1) + 1 = L /\ L <= L
    BY <1>1
  <2>2. L - 1 \in T
    BY <1>4, <2>1
  <2> QED
    BY <2>1, <2>2
<1>6. PICK g : Flattens(g, L) /\ g[L] \in Seq(S) /\ Concatenates(g[L], ss, L)
  BY <1>5
<1> DEFINE f == CHOOSE f : Flattens(f, L)
<1>7. Flattens(f, L)
  BY <1>6
<1>8. FlattenSeq(ss) = f[L]
  BY <1>1 DEF FlattenSeq
<1>9. f[L] = g[L]
  <2> DEFINE U == {n \in Nat : n + 1 <= L => f[n + 1] = g[n + 1]}
  <2> HIDE DEF f
  <2>1. \A i \in 1 .. L : /\ f[i] = IF i = 1 THEN ss[i] ELSE f[i - 1] \o ss[i]
                          /\ g[i] = IF i = 1 THEN ss[i] ELSE g[i - 1] \o ss[i]
    BY <1>6, <1>7
  <2>2. 0 \in U
    BY <2>1, <1>1
  <2>3. ASSUME NEW n \in Nat, n \in U PROVE n + 1 \in U
    <3> SUFFICES ASSUME n + 2 <= L PROVE f[n + 2] = g[n + 2]
      OBVIOUS
    <3>1. f[n + 1] = g[n + 1]
      BY <2>3, <1>1
    <3>2. n + 2 \in 1 .. L /\ n + 2 # 1 /\ (n + 2) - 1 = n + 1
      BY <1>1
    <3> QED
      BY <3>1, <3>2, <2>1
  <2>4. Nat \subseteq U
    <3> HIDE DEF U
    <3> QED
      BY <2>2, <2>3, SetInduction
  <2>5. L - 1 \in Nat /\ (L - 1) + 1 = L /\ L <= L
    BY <1>1
  <2>6. L - 1 \in U
    BY <2>4, <2>5
  <2> QED
    BY <2>5, <2>6
<1> QED
  BY <1>6, <1>8, <1>9
=============================================================================
