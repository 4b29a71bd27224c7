--------------------------- MODULE DBFilesProofs ---------------------------
(***************************************************************************)
(* What is proved of DBFiles for any number of writes, crashes and files.  *)
(*                                                                         *)
(* FilesInv says which numbers files may have: a number in use is below    *)
(* the next one to be given out, across the file CURRENT, the manifests,   *)
(* the memory of the process and an open that stopped half way; and that   *)
(* the tables somebody holds are there.  It is inductive whatever fails.   *)
(*                                                                         *)
(* AnswersInv says where the answered writes are, wherever a crash would   *)
(* cut off the manifest and the logs: each cut has tables and logs that    *)
(* hold them all.  It is inductive beside FilesInv if a record is appended *)
(* whole or not at all (WholeRecords).  The hypothesis is needed.  The     *)
(* reader of a log does not return what follows a torn record in its       *)
(* block, and a write after a failed append is answered ok; a manifest     *)
(* with a torn record before its end is not read at all, and a compaction  *)
(* still appends its edit behind one that failed.                          *)
(***************************************************************************)
EXTENDS DBFiles, FlattenProofs

-----------------------------------------------------------------------------
(* The largest of some numbers up to a bound.                              *)
LEMMA MaxExists ==
  ASSUME NEW n \in Nat, NEW t \in SUBSET (1 .. n), t # {}
  PROVE  Max(t) \in t /\ \A y \in t : Max(t) >= y
<1> DEFINE d == {n - x : x \in t}
<1>1. d \subseteq Nat /\ d # {}
  <2>1. \A x \in t : n - x \in Nat
    OBVIOUS
  <2> QED
    BY <2>1
<1>2. PICK m \in d : \A y \in d : ~(<<y, m>> \in OpToRel(<, Nat))
  <2> HIDE DEF d
  <2> QED
    BY <1>1, WFMin, NatLessThanWellFounded
<1>3. PICK x \in t : m = n - x
  OBVIOUS
<1>4. \A y \in t : x >= y
  <2> SUFFICES ASSUME NEW y \in t, ~(x >= y) PROVE FALSE
    OBVIOUS
  <2>1. n - y \in d /\ n - y \in Nat /\ n - x \in Nat /\ n - y < n - x
    BY <1>3
  <2> QED
    BY <2>1, <1>2, <1>3 DEF OpToRel
<1> QED
  BY <1>4 DEF Max

(* What is left of the tables that the edits in a set of places added.     *)
Left(s, t) ==
  {f \in UNION {s[i].add : i \in t} :
     \E i \in t : f \in s[i].add /\ \A j \in t : j > i => f \notin s[j].del}

(* One turn of Builder::Apply.                                             *)
IsFold(iter, s) ==
  iter = [t \in SUBSET DOMAIN s |->
            IF t = {} THEN {}
            ELSE (iter[t \ {Max(t)}] \ s[Max(t)].del) \cup s[Max(t)].add]

LEMMA FilesAreFolded ==
  ASSUME NEW s
  PROVE  Files(s) = (CHOOSE iter : IsFold(iter, s))[DOMAIN s]
BY DEF Files, FoldLeft, MapThenFoldSet, IsFold

LEMMA LeftIsFold ==
  ASSUME NEW s \in Seq(EditType)
  PROVE  IsFold([t \in SUBSET DOMAIN s |-> Left(s, t)], s)
<1> DEFINE l == [t \in SUBSET DOMAIN s |-> Left(s, t)]
<1>1. DOMAIN s = 1 .. Len(s) /\ Len(s) \in Nat
  OBVIOUS
<1>2. SUFFICES ASSUME NEW t \in SUBSET DOMAIN s
               PROVE  Left(s, t) = IF t = {} THEN {}
                        ELSE (l[t \ {Max(t)}] \ s[Max(t)].del) \cup s[Max(t)].add
  BY DEF IsFold
<1>3. CASE t = {}
  BY <1>3 DEF Left
<1>4. CASE t # {}
  <2>1. PICK x : x = Max(t) /\ x \in t /\ \A y \in t : x >= y
    BY <1>1, <1>4, MaxExists
  <2>2. t \subseteq Nat
    BY <1>1
  <2>3. l[t \ {x}] = Left(s, t \ {x})
    OBVIOUS
  <2>4. Left(s, t) = (Left(s, t \ {x}) \ s[x].del) \cup s[x].add
    <3>1. ASSUME NEW f \in Left(s, t) PROVE f \in (Left(s, t \ {x}) \ s[x].del) \cup s[x].add
      <4>1. PICK i \in t : f \in s[i].add /\ \A j \in t : j > i => f \notin s[j].del
        BY <3>1 DEF Left
      <4>2. CASE i = x
        BY <4>1, <4>2
      <4>3. CASE i # x
        <5>1. x > i
          BY <4>3, <2>1, <2>2
        <5> QED
          BY <4>1, <4>3, <5>1, <2>1 DEF Left
      <4> QED
        BY <4>2, <4>3
    <3>2. ASSUME NEW f \in Left(s, t \ {x}), f \notin s[x].del PROVE f \in Left(s, t)
      <4>1. PICK i \in t \ {x} : f \in s[i].add /\ \A j \in t \ {x} : j > i => f \notin s[j].del
        BY <3>2 DEF Left
      <4> QED
        BY <4>1, <3>2 DEF Left
    <3>3. ASSUME NEW f \in s[x].add PROVE f \in Left(s, t)
      <4>1. \A j \in t : ~(j > x)
        BY <2>1, <2>2
      <4> QED
        BY <4>1, <2>1 DEF Left
    <3> QED
      BY <3>1, <3>2, <3>3
  <2> QED
    BY <1>4, <2>1, <2>3, <2>4
<1> QED
  BY <1>3, <1>4

LEMMA FoldIsUnique ==
  ASSUME NEW s \in Seq(EditType), NEW a, NEW b, IsFold(a, s), IsFold(b, s)
  PROVE  a[DOMAIN s] = b[DOMAIN s]
<1> DEFINE T == {k \in Nat : \A t \in SUBSET (1 .. k) : t \subseteq DOMAIN s => a[t] = b[t]}
<1>1. DOMAIN s = 1 .. Len(s) /\ Len(s) \in Nat
  OBVIOUS
<1>2. \A t \in SUBSET DOMAIN s :
        /\ a[t] = IF t = {} THEN {} ELSE (a[t \ {Max(t)}] \ s[Max(t)].del) \cup s[Max(t)].add
        /\ b[t] = IF t = {} THEN {} ELSE (b[t \ {Max(t)}] \ s[Max(t)].del) \cup s[Max(t)].add
  BY DEF IsFold
<1>3. 0 \in T
  <2>1. \A t \in SUBSET (1 .. 0) : t = {}
    OBVIOUS
  <2>2. a[{}] = {} /\ b[{}] = {}
    BY <1>2
  <2> QED
    BY <2>1, <2>2
<1>4. ASSUME NEW k \in Nat, k \in T PROVE k + 1 \in T
  <2>0. SUFFICES ASSUME NEW t \in SUBSET (1 .. k + 1), t \subseteq DOMAIN s PROVE a[t] = b[t]
    OBVIOUS
  <2>1. CASE t = {}
    BY <2>1, <1>2
  <2>2. CASE t # {}
    <3>0. k + 1 \in Nat
      OBVIOUS
    <3>1. PICK x : x = Max(t) /\ x \in t /\ \A y \in t : x >= y
      BY <2>2, <3>0, MaxExists
    <3>2. t \ {x} \in SUBSET (1 .. k)
      <4>1. \A y \in t : y \in 1 .. k + 1
        BY <2>0
      <4>2. \A y \in t \ {x} : y \in 1 .. k
        BY <3>1, <4>1
      <4> QED
        BY <4>2
    <3>3. a[t \ {x}] = b[t \ {x}]
      <4>1. \A u \in SUBSET (1 .. k) : u \subseteq DOMAIN s => a[u] = b[u]
        BY <1>4
      <4> HIDE DEF T
      <4> QED
        BY <4>1, <2>0, <3>2
    <3>4. t \in SUBSET DOMAIN s
      BY <2>0
    <3>5. /\ a[t] = (a[t \ {x}] \ s[x].del) \cup s[x].add
          /\ b[t] = (b[t \ {x}] \ s[x].del) \cup s[x].add
      <4>1. /\ a[t] = (a[t \ {Max(t)}] \ s[Max(t)].del) \cup s[Max(t)].add
            /\ b[t] = (b[t \ {Max(t)}] \ s[Max(t)].del) \cup s[Max(t)].add
        <5> HIDE DEF T
        <5> QED
          BY <2>2, <3>4, <1>2
      <4> QED
        BY <4>1, <3>1
    <3> QED
      BY <3>3, <3>5
  <2> QED
    BY <2>1, <2>2
<1>5. Nat \subseteq T
  <2> HIDE DEF T
  <2> QED
    BY <1>3, <1>4, SetInduction
<1> QED
  BY <1>1, <1>5

(* What Builder makes of edits: each table that one of them added and no   *)
(* later one deleted.                                                      *)
LEMMA FilesAreLeft ==
  ASSUME NEW s \in Seq(EditType)
  PROVE  Files(s) = Left(s, DOMAIN s)
<1> DEFINE l == [t \in SUBSET DOMAIN s |-> Left(s, t)]
           c == CHOOSE iter : IsFold(iter, s)
<1>1. IsFold(l, s)
  BY LeftIsFold
<1>2. IsFold(c, s)
  BY <1>1
<1>3. c[DOMAIN s] = l[DOMAIN s]
  <2> HIDE DEF l, c
  <2> QED
    BY <1>1, <1>2, FoldIsUnique
<1>4. l[DOMAIN s] = Left(s, DOMAIN s)
  OBVIOUS
<1> QED
  BY <1>3, <1>4, FilesAreFolded

(* One edit more.                                                          *)
LEMMA FilesAppend ==
  ASSUME NEW s \in Seq(EditType), NEW e \in EditType
  PROVE  Files(Append(s, e)) = (Files(s) \ e.del) \cup e.add
<1> DEFINE n == Len(s)
           a == Append(s, e)
<1>1. /\ n \in Nat /\ a \in Seq(EditType) /\ DOMAIN s = 1 .. n /\ DOMAIN a = 1 .. n + 1
      /\ \A i \in 1 .. n : a[i] = s[i]
      /\ a[n + 1] = e
  OBVIOUS
<1> HIDE DEF n, a
<1>2. Left(a, 1 .. n + 1) = (Left(s, 1 .. n) \ e.del) \cup e.add
  <2>1. ASSUME NEW f \in Left(a, 1 .. n + 1) PROVE f \in (Left(s, 1 .. n) \ e.del) \cup e.add
    <3>1. PICK i \in 1 .. n + 1 : f \in a[i].add /\ \A j \in 1 .. n + 1 : j > i => f \notin a[j].del
      BY DEF Left
    <3>2. CASE i = n + 1
      BY <3>1, <3>2, <1>1
    <3>3. CASE i \in 1 .. n
      <4>1. n + 1 \in 1 .. n + 1 /\ n + 1 > i
        BY <1>1, <3>3
      <4>2. f \notin e.del /\ f \in s[i].add
        BY <3>1, <3>3, <4>1, <1>1
      <4>3. \A j \in 1 .. n : j > i => f \notin s[j].del
        BY <3>1, <1>1
      <4> QED
        BY <4>2, <4>3, <3>3 DEF Left
    <3> QED
      BY <3>2, <3>3, <1>1
  <2>2. ASSUME NEW f \in Left(s, 1 .. n), f \notin e.del PROVE f \in Left(a, 1 .. n + 1)
    <3>1. PICK i \in 1 .. n : f \in s[i].add /\ \A j \in 1 .. n : j > i => f \notin s[j].del
      BY DEF Left
    <3>2. i \in 1 .. n + 1 /\ f \in a[i].add
      BY <3>1, <1>1
    <3>3. ASSUME NEW j \in 1 .. n + 1, j > i PROVE f \notin a[j].del
      <4>1. CASE j = n + 1
        BY <4>1, <1>1, <2>2
      <4>2. CASE j \in 1 .. n
        BY <4>2, <3>1, <3>3, <1>1
      <4> QED
        BY <4>1, <4>2, <1>1
    <3> QED
      BY <3>2, <3>3 DEF Left
  <2>3. ASSUME NEW f \in e.add PROVE f \in Left(a, 1 .. n + 1)
    <3>1. n + 1 \in 1 .. n + 1 /\ \A j \in 1 .. n + 1 : ~(j > n + 1)
      BY <1>1
    <3> QED
      BY <3>1, <1>1 DEF Left
  <2> QED
    BY <2>1, <2>2, <2>3
<1> QED
  BY <1>1, <1>2, FilesAreLeft DEF a

LEMMA FilesOfOne ==
  ASSUME NEW e \in EditType
  PROVE  Files(<<e>>) = e.add
<1>1. <<e>> \in Seq(EditType) /\ DOMAIN <<e>> = {1} /\ <<e>>[1] = e
  OBVIOUS
<1>2. Left(<<e>>, {1}) = e.add
  BY <1>1 DEF Left
<1> QED
  BY <1>1, <1>2, FilesAreLeft
-----------------------------------------------------------------------------
(* The types.                                                              *)

ManifestType ==
  {m \in [records : Seq(EditType \cup {Torn}), synced : Nat] : m.synced <= Len(m.records)}

LogType(written) ==
  {l \in [records : Seq(written \cup {Torn}), synced : Nat] : l.synced <= Len(l.records)}

TypedFiles(files, T) == DOMAIN files \subseteq Nat /\ \A n \in DOMAIN files : files[n] \in T

Started == 1 .. started

Typed ==
  /\ current \in Nat \cup {None}
  /\ TypedFiles(manifests, ManifestType)
  /\ TypedFiles(logs, LogType(Started))
  /\ TypedFiles(tables, (SUBSET Started) \cup {Torn})
  /\ phase \in {"closed", "new", "logs", "manifest", "current", "open"}
  /\ version \in SUBSET Nat
  /\ logNumber \in Nat /\ nextFile \in Nat /\ manifestNumber \in Nat /\ logfile \in Nat
  /\ mem \in SUBSET Started
  /\ imm \in (SUBSET Started) \cup {None}
  /\ pending \in SUBSET Nat
  /\ bgError \in BOOLEAN
  /\ edit \in EditType
  /\ toRecover \in SUBSET Nat
  /\ writing \in WritingType \cup {None}
  /\ flush \in Nat \cup {None}
  /\ compaction \in CompactionType \cup {None}
  /\ writing # None => writing.id \in Started
  /\ compaction # None => compaction.left \subseteq Started
  /\ applying \in {"no", "started", "logged"}
  /\ reading \in SUBSET Nat
  /\ acked \in SUBSET Started /\ durable \in SUBSET Started
  /\ started \in 0 .. MaxWrites /\ stops \in Nat

(* The tables after the first edits of a manifest, if none of them is torn,*)
(* and the numbers below another.                                          *)
FilesAt(m, c) == Files(SubSeq(m.records, 1, c))

Whole(m, c) == \A i \in 1 .. c : m.records[i] # Torn

Below(n) == 0 .. n - 1

-----------------------------------------------------------------------------
(* Manifests: one with an edit more, one that is cut off.                  *)
LEMMA AppendedManifest ==
  ASSUME NEW m \in ManifestType, NEW e \in EditType \cup {Torn}
  PROVE  /\ Appended(m, e) \in ManifestType
         /\ Appended(m, e).synced = m.synced
         /\ Len(m.records) \in Nat
         /\ Len(Appended(m, e).records) = Len(m.records) + 1
         /\ Appended(m, e).records[Len(m.records) + 1] = e
         /\ \A c \in 0 .. Len(m.records) :
              /\ FilesAt(Appended(m, e), c) = FilesAt(m, c)
              /\ Whole(Appended(m, e), c) <=> Whole(m, c)
         /\ \A c \in 1 .. Len(m.records) : Appended(m, e).records[c] = m.records[c]
         /\ Whole(Appended(m, e), Len(m.records) + 1) <=> Whole(m, Len(m.records)) /\ e # Torn
<1> DEFINE n == Len(m.records)
           a == Appended(m, e)
<1>1. m.records \in Seq(EditType \cup {Torn}) /\ n \in Nat /\ m.synced \in Nat
  BY DEF ManifestType
<1>2. a.records = Append(m.records, e) /\ a.synced = m.synced
  BY DEF ManifestType, Appended
<1>3. /\ a.records \in Seq(EditType \cup {Torn}) /\ Len(a.records) = n + 1
      /\ a.records[n + 1] = e /\ \A c \in 1 .. n : a.records[c] = m.records[c]
  BY <1>1, <1>2
<1>4. a \in ManifestType
  BY <1>1, <1>3 DEF ManifestType, Appended
<1> HIDE DEF a, n
<1>5. ASSUME NEW c \in 0 .. n
      PROVE  FilesAt(a, c) = FilesAt(m, c) /\ (Whole(a, c) <=> Whole(m, c))
  <2>1. SubSeq(a.records, 1, c) = SubSeq(m.records, 1, c)
    BY <1>1, <1>3 DEF n
  <2>2. \A i \in 1 .. c : a.records[i] = m.records[i]
    BY <1>1, <1>3
  <2> QED
    BY <2>1, <2>2 DEF FilesAt, Whole
<1>6. Whole(a, n + 1) <=> Whole(m, n) /\ e # Torn
  <2>1. 1 .. n + 1 = (1 .. n) \cup {n + 1}
    BY <1>1
  <2> QED
    BY <1>3, <2>1 DEF Whole
<1> QED
  BY <1>1, <1>2, <1>3, <1>4, <1>5, <1>6 DEF a, n

LEMMA AppendedFiles ==
  ASSUME NEW m \in ManifestType, NEW e \in EditType, Whole(m, Len(m.records))
  PROVE  FilesAt(Appended(m, e), Len(m.records) + 1)
           = (FilesAt(m, Len(m.records)) \ e.del) \cup e.add
<1> DEFINE n == Len(m.records)
<1>1. m.records \in Seq(EditType \cup {Torn}) /\ n \in Nat
  BY DEF ManifestType
<1>2. \A i \in 1 .. n : m.records[i] \in EditType
  BY <1>1 DEF Whole
<1>3. m.records \in Seq(EditType)
  <2>1. m.records = [i \in 1 .. n |-> m.records[i]]
    BY <1>1
  <2> QED
    BY <1>1, <1>2, <2>1
<1>4. Appended(m, e).records = Append(m.records, e)
  BY DEF ManifestType, Appended
<1>5. SubSeq(Append(m.records, e), 1, n + 1) = Append(m.records, e)
  BY <1>1, <1>3
<1>6. SubSeq(m.records, 1, n) = m.records
  BY <1>1, <1>3
<1> QED
  BY <1>3, <1>4, <1>5, <1>6, FilesAppend DEF FilesAt

CutOff(m, k) == [records |-> SubSeq(m.records, 1, k), synced |-> k]

LEMMA CutManifest ==
  ASSUME NEW m \in ManifestType, NEW k \in 0 .. Len(m.records)
  PROVE  /\ CutOff(m, k) \in ManifestType
         /\ CutOff(m, k).synced = k
         /\ Len(CutOff(m, k).records) = k
         /\ \A c \in 0 .. k : /\ FilesAt(CutOff(m, k), c) = FilesAt(m, c)
                              /\ Whole(CutOff(m, k), c) <=> Whole(m, c)
         /\ \A c \in 1 .. k : CutOff(m, k).records[c] = m.records[c]
<1> DEFINE a == CutOff(m, k)
<1>1. m.records \in Seq(EditType \cup {Torn}) /\ Len(m.records) \in Nat
  BY DEF ManifestType
<1>2. a.records = SubSeq(m.records, 1, k) /\ a.synced = k /\ k \in Nat
  BY <1>1 DEF CutOff
<1>3. /\ a.records \in Seq(EditType \cup {Torn}) /\ Len(a.records) = k
      /\ \A c \in 1 .. k : a.records[c] = m.records[c]
  BY <1>1, <1>2
<1>4. a \in ManifestType
  BY <1>2, <1>3 DEF ManifestType, CutOff
<1> HIDE DEF a
<1>5. ASSUME NEW c \in 0 .. k
      PROVE  FilesAt(a, c) = FilesAt(m, c) /\ (Whole(a, c) <=> Whole(m, c))
  <2>1. SubSeq(a.records, 1, c) = SubSeq(m.records, 1, c)
    BY <1>1, <1>2, <1>3
  <2>2. \A i \in 1 .. c : a.records[i] = m.records[i]
    BY <1>1, <1>3
  <2> QED
    BY <2>1, <2>2 DEF FilesAt, Whole
<1> QED
  BY <1>2, <1>3, <1>4, <1>5 DEF a

LEMMA SyncedManifest ==
  ASSUME NEW m \in ManifestType
  PROVE  /\ Synced(m) \in ManifestType
         /\ Synced(m).records = m.records
         /\ Synced(m).synced = Len(m.records)
         /\ \A c : FilesAt(Synced(m), c) = FilesAt(m, c) /\ (Whole(Synced(m), c) <=> Whole(m, c))
BY DEF ManifestType, Synced, FilesAt, Whole

LEMMA FirstManifest ==
  ASSUME DBFilesAssumption, NEW e \in EditType, NEW k \in 0 .. 1
  PROVE  /\ [records |-> <<e>>, synced |-> k] \in ManifestType
         /\ Len(<<e>>) = 1 /\ <<e>>[1] = e
         /\ FilesAt([records |-> <<e>>, synced |-> k], 1) = e.add
         /\ Whole([records |-> <<e>>, synced |-> k], 1)
<1> DEFINE s == <<e>>
           m == [records |-> s, synced |-> k]
<1>1. s \in Seq(EditType) /\ Len(s) = 1 /\ s[1] = e
  OBVIOUS
<1>2. Files(s) = e.add
  BY FilesOfOne
<1> HIDE DEF s
<1>3. SubSeq(s, 1, 1) = s
  BY <1>1
<1>4. s \in Seq(EditType \cup {Torn})
  BY <1>1
<1>5. m \in ManifestType
  <2>1. k \in Nat /\ k <= Len(s)
    BY <1>1
  <2>2. m \in [records : Seq(EditType \cup {Torn}), synced : Nat]
    BY <1>4, <2>1
  <2> QED
    BY <2>1, <2>2 DEF ManifestType
<1>6. e # Torn
  BY DBFilesAssumption DEF DBFilesAssumption
<1>7. FilesAt(m, 1) = e.add
  BY <1>2, <1>3 DEF FilesAt
<1>8. Whole(m, 1)
  BY <1>1, <1>6 DEF Whole
<1> QED
  BY <1>1, <1>5, <1>7, <1>8 DEF s

-----------------------------------------------------------------------------
(* The numbers of files.  In a manifest each edit names, as the next file  *)
(* number, one above the manifest's own, above the log's and above those of *)
(* all the tables that it or an edit before it leaves.                     *)
Numbers(n, m) ==
  \A d \in 1 .. Len(m.records) : Whole(m, d) =>
     /\ n < m.records[d].next
     /\ m.records[d].log < m.records[d].next
     /\ \A c \in 1 .. d : FilesAt(m, c) \subseteq Below(m.records[d].next)

AllBelow(m, next) ==
  \A c \in 1 .. Len(m.records) : Whole(m, c) => FilesAt(m, c) \subseteq Below(next)

LEMMA WholePrefix ==
  ASSUME NEW m \in ManifestType, NEW d \in Nat, NEW c \in 0 .. d, Whole(m, d)
  PROVE  Whole(m, c)
BY DEF Whole

LEMMA BelowGrows ==
  ASSUME NEW m \in ManifestType, NEW k \in Nat, NEW j \in Nat, k <= j, AllBelow(m, k)
  PROVE  AllBelow(m, j)
<1>1. Below(k) \subseteq Below(j)
  BY DEF Below
<1> QED
  BY <1>1 DEF AllBelow

LEMMA BelowAppend ==
  ASSUME NEW m \in ManifestType, NEW e \in EditType, NEW k \in Nat,
         AllBelow(m, k), e.add \subseteq Below(k)
  PROVE  AllBelow(Appended(m, e), k)
<1> DEFINE l == Len(m.records)
           a == Appended(m, e)
<1>1. /\ l \in Nat /\ Len(a.records) = l + 1
      /\ \A c \in 0 .. l : FilesAt(a, c) = FilesAt(m, c) /\ (Whole(a, c) <=> Whole(m, c))
      /\ Whole(a, l + 1) => Whole(m, l)
  BY AppendedManifest
<1>2. Whole(m, l) => FilesAt(a, l + 1) = (FilesAt(m, l) \ e.del) \cup e.add
  BY AppendedFiles
<1>3. SUFFICES ASSUME NEW c \in 1 .. l + 1, Whole(a, c) PROVE FilesAt(a, c) \subseteq Below(k)
  BY <1>1 DEF AllBelow
<1> HIDE DEF a
<1>4. CASE c \in 1 .. l
  BY <1>1, <1>3, <1>4 DEF AllBelow
<1>5. CASE c = l + 1
  <2>1. FilesAt(m, l) \subseteq Below(k)
    <3>1. CASE l = 0
      <4>1. SubSeq(m.records, 1, 0) = <<>>
        BY DEF ManifestType
      <4>2. <<>> \in Seq(EditType) /\ DOMAIN <<>> = {}
        OBVIOUS
      <4>3. Files(<<>>) = {}
        BY <4>2, FilesAreLeft DEF Left
      <4> QED
        BY <3>1, <4>1, <4>3 DEF FilesAt
    <3>2. CASE l # 0
      <4>1. l \in 1 .. Len(m.records)
        BY <3>2, <1>1
      <4> QED
        BY <4>1, <1>1, <1>3, <1>5 DEF AllBelow
    <3> QED
      BY <3>1, <3>2
  <2> QED
    BY <2>1, <1>1, <1>2, <1>3, <1>5
<1> QED
  BY <1>1, <1>4, <1>5

LEMMA NumbersAppend ==
  ASSUME NEW n \in Nat, NEW m \in ManifestType, NEW e \in EditType,
         Numbers(n, m), n < e.next, e.log < e.next,
         e.add \subseteq Below(e.next), AllBelow(m, e.next)
  PROVE  Numbers(n, Appended(m, e))
<1> DEFINE l == Len(m.records)
           a == Appended(m, e)
<1>1. /\ l \in Nat /\ Len(a.records) = l + 1 /\ a.records[l + 1] = e
      /\ \A c \in 0 .. l : FilesAt(a, c) = FilesAt(m, c) /\ (Whole(a, c) <=> Whole(m, c))
      /\ \A c \in 1 .. l : a.records[c] = m.records[c]
      /\ a \in ManifestType
  BY AppendedManifest
<1>2. AllBelow(a, e.next)
  BY BelowAppend DEF EditType
<1> HIDE DEF a
<1>3. SUFFICES ASSUME NEW d \in 1 .. l + 1, Whole(a, d)
      PROVE  /\ n < a.records[d].next
             /\ a.records[d].log < a.records[d].next
             /\ \A c \in 1 .. d : FilesAt(a, c) \subseteq Below(a.records[d].next)
  BY <1>1 DEF Numbers, a
<1>4. CASE d \in 1 .. l
  <2>1. Whole(m, d) /\ a.records[d] = m.records[d]
    BY <1>1, <1>3, <1>4
  <2>2. /\ n < m.records[d].next
        /\ m.records[d].log < m.records[d].next
        /\ \A c \in 1 .. d : FilesAt(m, c) \subseteq Below(m.records[d].next)
    BY <2>1, <1>4 DEF Numbers
  <2>3. \A c \in 1 .. d : FilesAt(a, c) = FilesAt(m, c)
    BY <1>1, <1>4
  <2> QED
    BY <2>1, <2>2, <2>3
<1>5. CASE d = l + 1
  <2>1. ASSUME NEW c \in 1 .. d PROVE FilesAt(a, c) \subseteq Below(e.next)
    <3>1. Whole(a, c)
      BY <1>1, <1>3, <1>5, WholePrefix
    <3> QED
      BY <3>1, <1>1, <1>2, <1>5 DEF AllBelow
  <2> QED
    BY <2>1, <1>1, <1>5
<1> QED
  BY <1>1, <1>4, <1>5

(* A torn record counts for nothing.                                       *)
LEMMA NumbersTorn ==
  ASSUME NEW n \in Nat, NEW m \in ManifestType, NEW k \in Nat, Numbers(n, m), AllBelow(m, k)
  PROVE  Numbers(n, Appended(m, Torn)) /\ AllBelow(Appended(m, Torn), k)
<1> DEFINE l == Len(m.records)
           a == Appended(m, Torn)
<1>1. /\ l \in Nat /\ Len(a.records) = l + 1
      /\ \A c \in 0 .. l : FilesAt(a, c) = FilesAt(m, c) /\ (Whole(a, c) <=> Whole(m, c))
      /\ \A c \in 1 .. l : a.records[c] = m.records[c]
      /\ ~Whole(a, l + 1)
  BY AppendedManifest
<1> HIDE DEF a
<1>2. AllBelow(a, k)
  BY <1>1 DEF AllBelow
<1>3. ASSUME NEW d \in 1 .. l, Whole(a, d)
      PROVE  /\ n < a.records[d].next
             /\ a.records[d].log < a.records[d].next
             /\ \A c \in 1 .. d : FilesAt(a, c) \subseteq Below(a.records[d].next)
  <2>1. Whole(m, d) /\ a.records[d] = m.records[d]
    BY <1>1, <1>3
  <2>2. /\ n < m.records[d].next
        /\ m.records[d].log < m.records[d].next
        /\ \A c \in 1 .. d : FilesAt(m, c) \subseteq Below(m.records[d].next)
    BY <2>1 DEF Numbers
  <2>3. \A c \in 1 .. d : FilesAt(a, c) = FilesAt(m, c)
    BY <1>1
  <2> QED
    BY <2>1, <2>2, <2>3
<1>4. \A d \in 1 .. l + 1 : d \in 1 .. l \/ d = l + 1
  BY <1>1
<1> QED
  BY <1>1, <1>2, <1>3, <1>4 DEF Numbers, a

LEMMA NumbersCut ==
  ASSUME NEW n \in Nat, NEW m \in ManifestType, NEW k \in 0 .. Len(m.records), Numbers(n, m)
  PROVE  Numbers(n, CutOff(m, k))
<1> DEFINE a == CutOff(m, k)
<1>1. /\ Len(m.records) \in Nat /\ Len(a.records) = k
      /\ \A c \in 0 .. k : FilesAt(a, c) = FilesAt(m, c) /\ (Whole(a, c) <=> Whole(m, c))
      /\ \A c \in 1 .. k : a.records[c] = m.records[c]
  BY CutManifest DEF ManifestType
<1> HIDE DEF a
<1>2. SUFFICES ASSUME NEW d \in 1 .. k, Whole(a, d)
      PROVE  /\ n < a.records[d].next
             /\ a.records[d].log < a.records[d].next
             /\ \A c \in 1 .. d : FilesAt(a, c) \subseteq Below(a.records[d].next)
  BY <1>1 DEF Numbers, a
<1>3. Whole(m, d) /\ a.records[d] = m.records[d]
  BY <1>1, <1>2
<1>4. /\ n < m.records[d].next
      /\ m.records[d].log < m.records[d].next
      /\ \A c \in 1 .. d : FilesAt(m, c) \subseteq Below(m.records[d].next)
  BY <1>1, <1>3 DEF Numbers
<1>5. \A c \in 1 .. d : FilesAt(a, c) = FilesAt(m, c)
  BY <1>1
<1> QED
  BY <1>3, <1>4, <1>5

LEMMA NumbersSynced ==
  ASSUME NEW n, NEW m \in ManifestType, NEW k
  PROVE  /\ Numbers(n, m) => Numbers(n, Synced(m))
         /\ AllBelow(m, k) => AllBelow(Synced(m), k)
BY SyncedManifest DEF Numbers, AllBelow

LEMMA NumbersFirst ==
  ASSUME DBFilesAssumption, NEW n \in Nat, NEW e \in EditType, NEW k \in 0 .. 1,
         n < e.next, e.log < e.next, e.add \subseteq Below(e.next)
  PROVE  /\ Numbers(n, [records |-> <<e>>, synced |-> k])
         /\ AllBelow([records |-> <<e>>, synced |-> k], e.next)
<1> DEFINE m == [records |-> <<e>>, synced |-> k]
<1>1. /\ Len(m.records) = 1 /\ m.records[1] = e
      /\ FilesAt(m, 1) = e.add
  BY FirstManifest
<1> HIDE DEF m
<1>2. \A c \in 1 .. 1 : c = 1
  OBVIOUS
<1> QED
  BY <1>1, <1>2 DEF Numbers, AllBelow, m

-----------------------------------------------------------------------------
(* Nothing is in memory but while the database is open, or is opened.      *)
Closed ==
  phase # "open" =>
    /\ mem = {} /\ imm = None /\ pending = {} /\ bgError = FALSE
    /\ writing = None /\ flush = None /\ compaction = None
    /\ applying = "no" /\ reading = {}

Forgotten ==
  phase \in {"closed", "new"} =>
    version = {} /\ edit = Edit({}, {}, 0, 0) /\ logfile = 0

ManifestsNumbered == \A n \in DOMAIN manifests : Numbers(n, manifests[n])

Flushing == {flush} \ {None}

(* The number to be given out next is above all those that are in use; the *)
(* table being flushed is not one of the others; what a compaction wrote   *)
(* is protected from deletion.                                             *)
MemoryNumbered ==
  /\ phase \notin {"closed", "new"} =>
       /\ version \cup edit.add \cup reading \cup Base \cup Outputs \cup Flushing
            \subseteq Below(nextFile)
       /\ manifestNumber < nextFile /\ logfile < nextFile /\ logNumber < nextFile
  /\ phase \in {"manifest", "current"} =>
       edit.next = nextFile /\ edit.log < nextFile
  /\ phase \in {"current", "open"} =>
       /\ manifestNumber \in DOMAIN manifests
       /\ AllBelow(manifests[manifestNumber], nextFile)
  /\ Flushing \cap (version \cup reading \cup Base \cup Outputs) = {}
  /\ Outputs \subseteq pending

(* So is the next number of the edit being applied, which is the open      *)
(* database's only one.                                                    *)
EditNumbered ==
  /\ phase = "open" /\ applying = "no" => edit.add = {}
  /\ applying # "no" =>
       /\ edit.next <= nextFile /\ manifestNumber < edit.next /\ edit.log < edit.next
       /\ edit.add \subseteq Below(edit.next)
  /\ applying = "started" => AllBelow(manifests[manifestNumber], edit.next)

(* Each of the tables in use has its file.                                 *)
Present ==
  /\ version \cup edit.add \cup reading \cup Base \cup Outputs \subseteq DOMAIN tables
  /\ flush # None => imm # None /\ (imm # {} => flush \in DOMAIN tables)

(* CURRENT names a manifest that is there: the one the database works on,  *)
(* or, while it is being opened, an older one.                             *)
CurrentNamed ==
  /\ current # None => current \in DOMAIN manifests
  /\ phase = "new" => 1 \in DOMAIN manifests
  /\ phase \in {"logs", "manifest", "current"} => current # None /\ current < manifestNumber
  /\ phase = "open" => current = manifestNumber

(* The logs still to be read are there.                                    *)
Recovering == toRecover \subseteq DOMAIN logs /\ (phase # "logs" => toRecover = {})

FilesInv ==
  /\ Typed /\ Closed /\ Forgotten /\ CurrentNamed /\ Recovering
  /\ ManifestsNumbered /\ MemoryNumbered /\ EditNumbered /\ Present

-----------------------------------------------------------------------------
(* Files that are made, changed and deleted keep their types.              *)
LEMMA TypedCreate ==
  ASSUME NEW files, NEW T, TypedFiles(files, T), NEW n \in Nat, NEW x \in T
  PROVE  TypedFiles(Create(files, n, x), T)
BY DEF TypedFiles, Create

LEMMA TypedUpdate ==
  ASSUME NEW files, NEW T, TypedFiles(files, T), NEW n, NEW x,
         n \in DOMAIN files => x \in T
  PROVE  TypedFiles([files EXCEPT ![n] = x], T)
BY DEF TypedFiles

LEMMA TypedOnly ==
  ASSUME NEW files, NEW T, TypedFiles(files, T), NEW numbers
  PROVE  TypedFiles(Only(files, numbers), T)
BY DEF TypedFiles, Only

LEMMA TypedMore ==
  ASSUME NEW files, NEW T, TypedFiles(files, T), NEW U, T \subseteq U
  PROVE  TypedFiles(files, U)
BY DEF TypedFiles

(* Of the old files, those that are kept and perhaps others.               *)
Thinned(new, old, kept) ==
  /\ DOMAIN new \subseteq DOMAIN old
  /\ \A n \in DOMAIN new : new[n] = old[n]
  /\ DOMAIN old \cap kept \subseteq DOMAIN new

LEMMA TypedThinned ==
  ASSUME NEW new, NEW old, NEW kept, NEW T, TypedFiles(old, T), Thinned(new, old, kept)
  PROVE  TypedFiles(new, T)
BY DEF TypedFiles, Thinned

(* DeleteObsoleteFiles: after an error all files stay, else those that are *)
(* needed.                                                                 *)
LEMMA ObsoleteDeleted ==
  ASSUME NEW error \in BOOLEAN, NEW live, NEW log \in Nat, NEW ms, manifestNumber \in Nat,
         TypedFiles(logs, LogType(Started)), TypedFiles(ms, ManifestType),
         DeleteObsoleteFiles(error, live, log, ms)
  PROVE  /\ Thinned(tables', tables, IF error THEN DOMAIN tables ELSE live)
         /\ Thinned(logs', logs, IF error THEN DOMAIN logs ELSE {n \in Nat : n >= log})
         /\ Thinned(manifests', ms,
                    IF error THEN DOMAIN ms ELSE {n \in Nat : n >= manifestNumber})
<1>1. CASE error
  BY <1>1 DEF DeleteObsoleteFiles, Thinned
<1>2. CASE ~error
  <2>1. PICK left : /\ tables'    = Only(tables, live \cup left)
                    /\ logs'      = Only(logs, NotOlder(logs, log) \cup left)
                    /\ manifests' = Only(ms, NotOlder(ms, manifestNumber) \cup left)
    BY <1>2 DEF DeleteObsoleteFiles, Keep
  <2> QED
    BY <1>2, <2>1 DEF Only, NotOlder, Thinned, TypedFiles
<1> QED
  BY <1>1, <1>2

LEMMA EmptyFile ==
  ASSUME NEW written
  PROVE  NewFile \in LogType(written)
BY DEF NewFile, LogType

-----------------------------------------------------------------------------
(* Each step keeps the invariant.  First those of DB::Open.                *)
USE DEF disk, state, memtables, work, calls, memory, history

LEMMA NewDBKeepsFilesInv ==
  ASSUME DBFilesAssumption, FilesInv, NewDB
  PROVE  FilesInv'
<1> DEFINE e == Edit({}, {}, 0, 2)
           m == [records |-> <<e>>, synced |-> 0]
<1>1. e \in EditType /\ e.add = {} /\ e.log = 0 /\ e.next = 2
  BY DEF Edit, EditType
<1> HIDE DEF e
<1>2. m \in ManifestType /\ Numbers(1, m)
  <2>1. e.add \subseteq Below(e.next) /\ 1 < e.next /\ e.log < e.next
    BY <1>1
  <2>2. 0 \in 0 .. 1 /\ 1 \in Nat
    OBVIOUS
  <2> QED
    BY <1>1, <2>1, <2>2, FirstManifest, NumbersFirst
<1> HIDE DEF m
<1>3. manifests' = Create(manifests, 1, m)
  BY DEF NewDB, m, e
<1>4. TypedFiles(manifests', ManifestType)
  BY <1>2, <1>3, TypedCreate DEF FilesInv, Typed
<1>5. Typed'
  BY <1>4 DEF FilesInv, NewDB, Typed, Started
<1>6. ManifestsNumbered'
  BY <1>2, <1>3 DEF FilesInv, ManifestsNumbered, Create
<1>7. Closed' /\ Forgotten' /\ CurrentNamed' /\ Recovering'
  BY <1>3 DEF FilesInv, NewDB, Closed, Forgotten, CurrentNamed, Recovering,
         Create
<1>8. MemoryNumbered' /\ EditNumbered' /\ Present'
  BY DEF FilesInv, NewDB, Closed, Forgotten, MemoryNumbered, EditNumbered, Present,
         Flushing, Base, Outputs, Output, Edit
<1> QED
  BY <1>5, <1>6, <1>7, <1>8 DEF FilesInv

LEMMA CreateCurrentKeepsFilesInv ==
  ASSUME DBFilesAssumption, FilesInv, CreateCurrent
  PROVE  FilesInv'
<1>1. Typed'
  BY DEF FilesInv, CreateCurrent, Typed, Started
<1>2. ManifestsNumbered'
  BY DEF FilesInv, CreateCurrent, ManifestsNumbered
<1>3. Closed' /\ Forgotten' /\ CurrentNamed' /\ Recovering'
  BY DEF FilesInv, CreateCurrent, Closed, Forgotten, CurrentNamed, Recovering
<1>4. MemoryNumbered' /\ EditNumbered' /\ Present'
  BY DEF FilesInv, CreateCurrent, Closed, Forgotten, MemoryNumbered, EditNumbered,
         Present, Flushing, Base, Outputs, Output, Edit
<1> QED
  BY <1>1, <1>2, <1>3, <1>4 DEF FilesInv

(* What is read of a manifest that can be read: its first edits, all of    *)
(* them if none is torn.                                                   *)
LEMMA ReadableManifest ==
  ASSUME NEW m \in ManifestType, Edits(m) # <<>>,
         \A i \in DOMAIN Edits(m) : m.records[i] # Torn
  PROVE  \E d \in 1 .. Len(m.records) :
           /\ Whole(m, d)
           /\ Files(Edits(m)) = FilesAt(m, d)
           /\ Last(Edits(m)) = m.records[d]
           /\ m.records[d] \in EditType
           /\ Whole(m, Len(m.records)) => d = Len(m.records)
<1> DEFINE n == Len(m.records)
<1>1. m.records \in Seq(EditType \cup {Torn}) /\ n \in Nat
  BY DEF ManifestType
<1>2. CASE m.records # <<>> /\ Last(m.records) = Torn
  <2>1. n \in Nat \ {0} /\ m.records[n] = Torn
    BY <1>1, <1>2 DEF Last
  <2>2. Edits(m) = SubSeq(m.records, 1, n - 1)
    BY <1>2, <1>1 DEF Edits, Front
  <2>3. n - 1 \in Nat /\ Len(SubSeq(m.records, 1, n - 1)) = n - 1
    BY <1>1, <2>1
  <2>4. n - 1 # 0
    <3>1. SUFFICES ASSUME n - 1 = 0 PROVE FALSE
      OBVIOUS
    <3>2. SubSeq(m.records, 1, n - 1) = <<>>
      <4>1. SubSeq(m.records, 1, n - 1) \in Seq(EditType \cup {Torn})
        BY <1>1, <2>3
      <4> QED
        BY <4>1, <2>3, <3>1
    <3> QED
      BY <3>2, <2>2
  <2>5. DOMAIN Edits(m) = 1 .. n - 1
    BY <2>2, <2>3, <1>1
  <2>6. Whole(m, n - 1)
    BY <2>5 DEF Whole
  <2>7. Last(Edits(m)) = m.records[n - 1]
    BY <2>2, <2>3, <2>4, <1>1 DEF Last
  <2>8. n - 1 \in 1 .. n /\ m.records[n - 1] \in EditType
    <3>1. n - 1 \in 1 .. n /\ n - 1 \in 1 .. n - 1
      <4> HIDE DEF n
      <4> QED
        BY <2>1, <2>3, <2>4
    <3>2. m.records[n - 1] \in EditType \cup {Torn}
      BY <3>1, <1>1
    <3> QED
      BY <3>1, <3>2, <2>6 DEF Whole
  <2>9. ~Whole(m, n)
    BY <2>1 DEF Whole
  <2> QED
    BY <2>2, <2>6, <2>7, <2>8, <2>9 DEF FilesAt
<1>3. CASE ~(m.records # <<>> /\ Last(m.records) = Torn)
  <2>1. Edits(m) = m.records /\ n # 0
    BY <1>1, <1>3 DEF Edits
  <2>2. n \in 1 .. n /\ DOMAIN m.records = 1 .. n
    BY <2>1, <1>1
  <2>3. Whole(m, n)
    BY <2>1, <2>2 DEF Whole
  <2>4. SubSeq(m.records, 1, n) = m.records
    BY <1>1
  <2>5. m.records[n] \in EditType
    BY <2>2, <2>3, <1>1 DEF Whole
  <2> QED
    BY <2>1, <2>2, <2>3, <2>4, <2>5 DEF FilesAt, Last
<1> QED
  BY <1>2, <1>3

(* The database's state after the manifest was read.                       *)
LEMMA RecoveredState ==
  ASSUME DBFilesAssumption, FilesInv, Recover
  PROVE  /\ version' \in SUBSET Nat /\ version' \subseteq DOMAIN tables
         /\ logNumber' \in Nat /\ manifestNumber' \in Nat /\ nextFile' \in Nat
         /\ version' \subseteq Below(nextFile')
         /\ 0 < nextFile' /\ logNumber' < nextFile' /\ manifestNumber' < nextFile'
         /\ current < manifestNumber'
         /\ toRecover' = {n \in DOMAIN logs : n >= logNumber'}
<1> DEFINE m == manifests[current]
<1>1. m \in ManifestType /\ Numbers(current, m) /\ current \in Nat
  BY DEF FilesInv, Typed, TypedFiles, ManifestsNumbered, CurrentNamed, Recover
<1>2. /\ Edits(m) # <<>>
      /\ \A i \in DOMAIN Edits(m) : m.records[i] # Torn
      /\ Files(Edits(m)) \subseteq DOMAIN tables
  BY DEF Recover, Readable
<1>3. /\ version' = Files(Edits(m)) /\ logNumber' = Last(Edits(m)).log
      /\ manifestNumber' = Last(Edits(m)).next /\ nextFile' = Last(Edits(m)).next + 1
      /\ toRecover' = {n \in DOMAIN logs : n >= Last(Edits(m)).log}
  BY DEF Recover
<1> HIDE DEF m
<1>4. PICK d \in 1 .. Len(m.records) :
        /\ Whole(m, d) /\ Files(Edits(m)) = FilesAt(m, d)
        /\ Last(Edits(m)) = m.records[d] /\ m.records[d] \in EditType
  BY <1>1, <1>2, ReadableManifest
<1>5. Len(m.records) \in Nat
  BY <1>1 DEF ManifestType
<1>6. /\ current < m.records[d].next /\ m.records[d].log < m.records[d].next
      /\ FilesAt(m, d) \subseteq Below(m.records[d].next)
  <2>1. d \in 1 .. d
    BY <1>5
  <2> QED
    BY <1>1, <1>4, <2>1 DEF Numbers
<1>7. PICK l, x : l = Last(Edits(m)).log /\ x = Last(Edits(m)).next
  OBVIOUS
<1>8. l \in Nat /\ x \in Nat /\ current < x /\ l < x
  BY <1>4, <1>6, <1>7 DEF EditType
<1>9. 0 < x + 1 /\ l < x + 1 /\ x < x + 1 /\ x + 1 \in Nat /\ Below(x) \subseteq Below(x + 1)
  BY <1>8 DEF Below
<1>10. version' \subseteq Below(x)
  BY <1>3, <1>4, <1>6, <1>7
<1>11. version' \in SUBSET Nat
  BY <1>8, <1>10 DEF Below
<1>12. logNumber' = l /\ manifestNumber' = x /\ nextFile' = x + 1
  BY <1>3, <1>7
<1>13. version' \subseteq Below(x + 1)
  BY <1>9, <1>10
<1> QED
  BY <1>2, <1>3, <1>7, <1>8, <1>9, <1>11, <1>12, <1>13

LEMMA RecoverKeepsFilesInv ==
  ASSUME DBFilesAssumption, FilesInv, Recover
  PROVE  FilesInv'
<1>1. /\ version' \in SUBSET Nat /\ version' \subseteq DOMAIN tables
      /\ logNumber' \in Nat /\ manifestNumber' \in Nat /\ nextFile' \in Nat
      /\ version' \subseteq Below(nextFile')
      /\ 0 < nextFile' /\ logNumber' < nextFile' /\ manifestNumber' < nextFile'
      /\ current < manifestNumber'
      /\ toRecover' \subseteq DOMAIN logs
  BY RecoveredState
<1>2. /\ phase = "closed" /\ phase' = "logs" /\ current # None
      /\ UNCHANGED <<disk, memtables, work, calls, history, bgError, edit>>
  BY DEF Recover
<1>3. toRecover' \in SUBSET Nat
  BY <1>1 DEF FilesInv, Typed, TypedFiles
<1>4. Typed'
  BY <1>1, <1>2, <1>3 DEF FilesInv, Typed, Started
<1>5. ManifestsNumbered' /\ Closed' /\ Forgotten' /\ CurrentNamed' /\ Recovering'
  BY <1>1, <1>2 DEF FilesInv, ManifestsNumbered, Closed, Forgotten, CurrentNamed, Recovering
<1>6. MemoryNumbered'
  <2>1. edit' = Edit({}, {}, 0, 0) /\ logfile' = 0
    BY <1>2 DEF FilesInv, Forgotten
  <2>2. reading' = {} /\ compaction' = None /\ flush' = None /\ pending' = {}
    BY <1>2 DEF FilesInv, Closed
  <2>3. edit'.add = {} /\ logfile' < nextFile'
    BY <2>1, <1>1 DEF Edit
  <2> QED
    BY <1>1, <1>2, <2>2, <2>3 DEF MemoryNumbered, Base, Outputs, Output, Flushing
<1>7. EditNumbered' /\ Present'
  BY <1>1, <1>2 DEF FilesInv, Closed, Forgotten, EditNumbered, Present, Base, Outputs,
                    Output, Edit
<1> QED
  BY <1>4, <1>5, <1>6, <1>7 DEF FilesInv

LEMMA MinExists ==
  ASSUME NEW t \in SUBSET Nat, t # {}
  PROVE  Min(t) \in t /\ \A y \in t : Min(t) <= y
<1>1. PICK m \in t : \A y \in t : ~(<<y, m>> \in OpToRel(<, Nat))
  BY WFMin, NatLessThanWellFounded
<1>2. \A y \in t : m <= y
  <2> SUFFICES ASSUME NEW y \in t, ~(m <= y) PROVE FALSE
    OBVIOUS
  <2>1. y \in Nat /\ m \in Nat /\ y < m
    OBVIOUS
  <2> QED
    BY <2>1, <1>1 DEF OpToRel
<1> QED
  BY <1>2 DEF Min

LEMMA MarkedIsAbove ==
  ASSUME NEW next \in Nat, NEW n \in Nat
  PROVE  /\ MarkFileNumberUsed(next, n) \in Nat
         /\ next <= MarkFileNumberUsed(next, n) /\ n < MarkFileNumberUsed(next, n)
<1> DEFINE s == {next, n + 1}
<1>1. \E x \in s : \A y \in s : x >= y
  OBVIOUS
<1>2. Max(s) \in s /\ \A y \in s : Max(s) >= y
  BY <1>1 DEF Max
<1> QED
  BY <1>2 DEF MarkFileNumberUsed

LEMMA ReadIsWritten ==
  ASSUME NEW written, NEW l \in LogType(written)
  PROVE  Read(l) \subseteq written
<1>1. l.records \in Seq(written \cup {Torn})
  BY DEF LogType
<1>2. ASSUME NEW i \in DOMAIN l.records, \A k \in 1 .. i : l.records[k] # Torn
      PROVE  l.records[i] \in written
  <2>1. i \in 1 .. i
    BY <1>1
  <2>2. l.records[i] # Torn
    BY <2>1, <1>2
  <2> QED
    BY <1>1, <2>2
<1> QED
  BY <1>2 DEF Read

LEMMA RecoverLogFileKeepsFilesInv ==
  ASSUME DBFilesAssumption, FilesInv, RecoverLogFile
  PROVE  FilesInv'
<1> DEFINE n == Min(toRecover)
           next == IF Read(logs[n]) = {} THEN nextFile ELSE nextFile + 1
<1>1. /\ phase = "logs" /\ toRecover # {} /\ toRecover' = toRecover \ {n}
      /\ nextFile' = MarkFileNumberUsed(next, n)
      /\ \/ tables' = tables /\ edit' = edit
         \/ /\ tables' = Create(tables, nextFile, Read(logs[n])) /\ next = nextFile + 1
            /\ edit' = [edit EXCEPT !.add = @ \cup {nextFile}]
      /\ UNCHANGED <<current, manifests, logs, phase, state, memtables, work,
                     calls, history, bgError>>
  BY DEF RecoverLogFile
<1>2. nextFile \in Nat /\ toRecover \in SUBSET Nat /\ edit \in EditType
  BY DEF FilesInv, Typed
<1>3. n \in Nat
  BY <1>1, <1>2, MinExists
<1>4. next \in Nat /\ nextFile <= next
  BY <1>2
<1> HIDE DEF n, next
<1>5. /\ nextFile' \in Nat /\ next <= nextFile' /\ Below(next) \subseteq Below(nextFile')
      /\ Below(nextFile) \subseteq Below(nextFile')
      /\ next = nextFile + 1 => nextFile \in Below(nextFile')
  <2>1. PICK x : x = nextFile'
    OBVIOUS
  <2>2. x \in Nat /\ next <= x
    BY <1>1, <1>3, <1>4, <2>1, MarkedIsAbove
  <2>3. Below(next) \subseteq Below(x) /\ Below(nextFile) \subseteq Below(x)
    BY <1>2, <1>4, <2>2 DEF Below
  <2>4. next = nextFile + 1 => nextFile \in Below(x)
    BY <1>2, <2>2 DEF Below
  <2> QED
    BY <2>1, <2>2, <2>3, <2>4
<1>6. /\ TypedFiles(tables', (SUBSET Started) \cup {Torn})
      /\ edit' \in EditType
      /\ edit'.add \subseteq edit.add \cup {nextFile} /\ edit'.add \subseteq DOMAIN tables'
      /\ DOMAIN tables \subseteq DOMAIN tables'
      /\ edit'.add # edit.add => next = nextFile + 1
  <2>1. CASE tables' = tables /\ edit' = edit
    BY <1>2, <2>1 DEF FilesInv, Typed, Present
  <2>2. CASE /\ tables' = Create(tables, nextFile, Read(logs[n])) /\ next = nextFile + 1
             /\ edit' = [edit EXCEPT !.add = @ \cup {nextFile}]
    <3>1. Read(logs[n]) \subseteq Started
      <4>1. CASE n \in DOMAIN logs
        BY <4>1, ReadIsWritten DEF FilesInv, Typed, TypedFiles
      <4>2. CASE n \notin DOMAIN logs
        BY <4>2, <1>1, <1>2, MinExists DEF FilesInv, Recovering, n
      <4> QED
        BY <4>1, <4>2
    <3>2. TypedFiles(tables', (SUBSET Started) \cup {Torn})
      BY <1>2, <2>2, <3>1, TypedCreate DEF FilesInv, Typed
    <3>3. edit' \in EditType /\ edit'.add = edit.add \cup {nextFile}
      BY <1>2, <2>2 DEF EditType
    <3>4. DOMAIN tables' = DOMAIN tables \cup {nextFile}
      BY <2>2 DEF Create
    <3> QED
      BY <2>2, <3>2, <3>3, <3>4 DEF FilesInv, Present
  <2> QED
    BY <1>1, <2>1, <2>2
<1>7. Typed'
  BY <1>1, <1>2, <1>5, <1>6 DEF FilesInv, Typed, Started
<1>8. ManifestsNumbered' /\ Closed' /\ Forgotten' /\ CurrentNamed' /\ Recovering'
  BY <1>1 DEF FilesInv, ManifestsNumbered, Closed, Forgotten, CurrentNamed, Recovering
<1>9. MemoryNumbered'
  <2>1. /\ reading = {} /\ compaction = None /\ flush = None
        /\ version \cup edit.add \subseteq Below(nextFile)
        /\ manifestNumber < nextFile /\ logfile < nextFile /\ logNumber < nextFile
        /\ manifestNumber \in Nat /\ logfile \in Nat /\ logNumber \in Nat
    BY <1>1 DEF FilesInv, Closed, MemoryNumbered, Typed
  <2>2. /\ manifestNumber' < nextFile' /\ logfile' < nextFile' /\ logNumber' < nextFile'
    BY <1>1, <1>2, <1>4, <1>5, <2>1
  <2>3. Below(nextFile) \subseteq Below(nextFile')
    BY <1>5
  <2>4. edit'.add # edit.add => nextFile \in Below(nextFile')
    BY <1>5, <1>6
  <2>5. version' \cup edit'.add \subseteq Below(nextFile')
    BY <1>1, <1>6, <2>1, <2>3, <2>4
  <2> QED
    BY <1>1, <2>1, <2>2, <2>5 DEF MemoryNumbered, Base, Outputs, Output, Flushing
<1>10. EditNumbered' /\ Present'
  BY <1>1, <1>6 DEF FilesInv, Closed, EditNumbered, Present, Base, Outputs, Output
<1> QED
  BY <1>7, <1>8, <1>9, <1>10 DEF FilesInv

LEMMA NewLogKeepsFilesInv ==
  ASSUME DBFilesAssumption, FilesInv, NewLog
  PROVE  FilesInv'
<1>1. /\ phase = "logs" /\ phase' = "manifest" /\ toRecover = {}
      /\ logs' = Create(logs, nextFile, NewFile)
      /\ logfile' = nextFile /\ nextFile' = nextFile + 1
      /\ edit' = [edit EXCEPT !.log = nextFile, !.next = nextFile + 1]
      /\ UNCHANGED <<current, manifests, tables, state, work, calls, history,
                     mem, imm, bgError, toRecover>>
  BY DEF NewLog
<1>2. nextFile \in Nat /\ edit \in EditType
  BY DEF FilesInv, Typed
<1>3. /\ edit' \in EditType /\ edit'.add = edit.add /\ edit'.log = nextFile
      /\ edit'.next = nextFile + 1
  <2>1. PICK x : x = nextFile + 1
    OBVIOUS
  <2>2. x \in Nat
    BY <1>2, <2>1
  <2> QED
    BY <1>1, <1>2, <2>1, <2>2 DEF EditType
<1>4. TypedFiles(logs', LogType(Started))
  BY <1>1, <1>2, TypedCreate, EmptyFile DEF FilesInv, Typed
<1>5. Typed'
  BY <1>1, <1>2, <1>3, <1>4 DEF FilesInv, Typed, Started
<1>6. ManifestsNumbered' /\ Closed' /\ Forgotten' /\ CurrentNamed' /\ Recovering'
  BY <1>1 DEF FilesInv, ManifestsNumbered, Closed, Forgotten, CurrentNamed, Recovering
<1>7. MemoryNumbered'
  <2>1. /\ reading = {} /\ compaction = None /\ flush = None
        /\ version \cup edit.add \subseteq Below(nextFile)
        /\ manifestNumber < nextFile /\ logNumber < nextFile
        /\ manifestNumber \in Nat /\ logNumber \in Nat
    BY <1>1 DEF FilesInv, Closed, MemoryNumbered, Typed
  <2>2. /\ manifestNumber' < nextFile' /\ logfile' < nextFile' /\ logNumber' < nextFile'
        /\ edit'.next = nextFile' /\ edit'.log < nextFile'
    BY <1>1, <1>2, <1>3, <2>1
  <2>3. Below(nextFile) \subseteq Below(nextFile')
    BY <1>1, <1>2 DEF Below
  <2>4. version' \cup edit'.add \subseteq Below(nextFile')
    BY <1>1, <1>3, <2>1, <2>3
  <2> QED
    BY <1>1, <2>1, <2>2, <2>4 DEF MemoryNumbered, Base, Outputs, Output, Flushing
<1>8. EditNumbered' /\ Present'
  BY <1>1, <1>3 DEF FilesInv, Closed, EditNumbered, Present, Base, Outputs, Output
<1> QED
  BY <1>5, <1>6, <1>7, <1>8 DEF FilesInv

LEMMA NewManifestKeepsFilesInv ==
  ASSUME DBFilesAssumption, FilesInv, NewManifest
  PROVE  FilesInv'
<1> DEFINE e == [edit EXCEPT !.add = @ \cup version]
           m == [records |-> <<e>>, synced |-> 1]
<1>1. /\ phase = "manifest" /\ phase' = "current"
      /\ manifests' = Create(manifests, manifestNumber, m)
      /\ UNCHANGED <<current, logs, tables, memory, history>>
  BY DEF NewManifest
<1>2. /\ edit \in EditType /\ version \in SUBSET Nat
      /\ manifestNumber \in Nat /\ nextFile \in Nat
      /\ version \cup edit.add \subseteq Below(nextFile)
      /\ manifestNumber < nextFile /\ edit.next = nextFile /\ edit.log < nextFile
  BY <1>1 DEF FilesInv, Typed, MemoryNumbered
<1>3. e \in EditType /\ e.add = edit.add \cup version /\ e.log = edit.log /\ e.next = edit.next
  BY <1>2 DEF EditType
<1> HIDE DEF e
<1>4. m \in ManifestType /\ Numbers(manifestNumber, m) /\ AllBelow(m, nextFile)
  <2>1. e.add \subseteq Below(e.next) /\ manifestNumber < e.next /\ e.log < e.next
    BY <1>2, <1>3
  <2>2. 1 \in 0 .. 1
    OBVIOUS
  <2>3. m \in ManifestType
    BY <1>3, <2>2, FirstManifest
  <2>4. Numbers(manifestNumber, m) /\ AllBelow(m, e.next)
    BY <1>2, <1>3, <2>1, <2>2, NumbersFirst
  <2> QED
    BY <2>3, <2>4, <1>2, <1>3
<1> HIDE DEF m
<1>5. TypedFiles(manifests', ManifestType)
  BY <1>1, <1>2, <1>4, TypedCreate DEF FilesInv, Typed
<1>6. Typed'
  BY <1>1, <1>5 DEF FilesInv, Typed, Started
<1>7. ManifestsNumbered'
  BY <1>1, <1>4 DEF FilesInv, ManifestsNumbered, Create
<1>8. Closed' /\ Forgotten' /\ CurrentNamed' /\ Recovering'
  BY <1>1 DEF FilesInv, Closed, Forgotten, CurrentNamed, Recovering, Create
<1>9. MemoryNumbered'
  <2>1. manifestNumber \in DOMAIN manifests' /\ manifests'[manifestNumber] = m
    BY <1>1 DEF Create
  <2> QED
    BY <1>1, <1>4, <2>1 DEF FilesInv, MemoryNumbered, Base, Outputs, Output, Flushing
<1>10. EditNumbered' /\ Present'
  BY <1>1 DEF FilesInv, Closed, EditNumbered, Present, Base, Outputs, Output
<1> QED
  BY <1>6, <1>7, <1>8, <1>9, <1>10 DEF FilesInv

LEMMA SetCurrentFileKeepsFilesInv ==
  ASSUME DBFilesAssumption, FilesInv, SetCurrentFile
  PROVE  FilesInv'
<1>1. /\ phase = "current" /\ phase' = "open"
      /\ current' = manifestNumber
      /\ version' = version \cup edit.add
      /\ logNumber' = edit.log
      /\ DeleteObsoleteFiles(bgError, version', edit.log, manifests)
      /\ edit' = Edit({}, {}, 0, 0)
      /\ acked' = acked \cup Stored(version')
      /\ durable' = durable \cup Stored(version')
      /\ UNCHANGED <<memtables, work, calls, nextFile, manifestNumber, bgError,
                     toRecover, started, stops>>
  BY DEF SetCurrentFile
<1>2. /\ edit \in EditType /\ edit.log \in Nat /\ version \in SUBSET Nat
      /\ edit.add \in SUBSET Nat /\ version \cup edit.add \subseteq DOMAIN tables
      /\ manifestNumber \in Nat /\ nextFile \in Nat
      /\ TypedFiles(tables, (SUBSET Started) \cup {Torn})
      /\ TypedFiles(logs, LogType(Started)) /\ TypedFiles(manifests, ManifestType)
  BY DEF FilesInv, Typed, Present, EditType
<1>3. /\ bgError = FALSE /\ reading = {} /\ compaction = None /\ flush = None
      /\ applying = "no" /\ pending = {}
  BY <1>1 DEF FilesInv, Closed
<1>4. /\ Thinned(tables', tables, version') /\ Thinned(logs', logs, {n \in Nat : n >= edit.log})
      /\ Thinned(manifests', manifests, {n \in Nat : n >= manifestNumber})
  BY <1>1, <1>2, <1>3, ObsoleteDeleted
<1>5. /\ TypedFiles(tables', (SUBSET Started) \cup {Torn})
      /\ TypedFiles(logs', LogType(Started)) /\ TypedFiles(manifests', ManifestType)
  BY <1>2, <1>4, TypedThinned
<1>6. edit' \in EditType /\ edit'.add = {}
  BY <1>1 DEF Edit, EditType
<1>7. Typed'
  <2>1. Stored(version') \subseteq Started
    <3>1. ASSUME NEW f \in version', tables[f] # Torn PROVE tables[f] \subseteq Started
      <4>1. f \in DOMAIN tables
        BY <1>1, <1>2
      <4>2. tables[f] \in SUBSET Started \/ tables[f] = Torn
        BY <1>2, <4>1 DEF TypedFiles
      <4> QED
        BY <4>2, <3>1
    <3> QED
      BY <3>1 DEF Stored
  <2> QED
    BY <1>1, <1>2, <1>5, <1>6, <2>1 DEF FilesInv, Typed, Started
<1>8. ManifestsNumbered'
  BY <1>4 DEF FilesInv, ManifestsNumbered, Thinned
<1>9. /\ manifestNumber \in DOMAIN manifests'
      /\ manifests'[manifestNumber] = manifests[manifestNumber]
  <2>1. manifestNumber \in DOMAIN manifests
    BY <1>1 DEF FilesInv, MemoryNumbered
  <2>2. manifestNumber \in {n \in Nat : n >= manifestNumber}
    BY <1>2
  <2> QED
    BY <1>4, <2>1, <2>2 DEF Thinned
<1>10. Closed' /\ Forgotten' /\ CurrentNamed' /\ Recovering'
  BY <1>1, <1>9 DEF FilesInv, Closed, Forgotten, CurrentNamed, Recovering
<1>11. MemoryNumbered'
  <2>1. /\ version \cup edit.add \subseteq Below(nextFile) /\ edit.log < nextFile
        /\ manifestNumber < nextFile /\ logfile < nextFile
        /\ AllBelow(manifests[manifestNumber], nextFile)
    BY <1>1 DEF FilesInv, MemoryNumbered
  <2> QED
    BY <1>1, <1>3, <1>6, <1>9, <2>1 DEF MemoryNumbered, Base, Outputs, Output, Flushing
<1>12. EditNumbered' /\ Present'
  <2>1. version' \subseteq DOMAIN tables'
    BY <1>1, <1>2, <1>4 DEF Thinned
  <2> QED
    BY <1>1, <1>3, <1>6, <2>1 DEF EditNumbered, Present, Base, Outputs, Output
<1> QED
  BY <1>7, <1>8, <1>10, <1>11, <1>12 DEF FilesInv

LEMMA OpenFailsKeepsFilesInv ==
  ASSUME DBFilesAssumption, FilesInv, OpenFails
  PROVE  FilesInv'
<1>1. /\ phase = "current" /\ phase' = "closed"
      /\ manifests' = Only(manifests, DOMAIN manifests \ {manifestNumber})
      /\ stops' = stops + 1
      /\ UNCHANGED <<current, logs, tables, acked, durable, started>>
      /\ Forget
  BY DEF OpenFails
<1>2. TypedFiles(manifests', ManifestType)
  BY <1>1, TypedOnly DEF FilesInv, Typed
<1>3. edit' \in EditType
  BY <1>1 DEF Forget, Edit, EditType
<1>4. Typed'
  <2>1. /\ stops' \in Nat /\ current' \in Nat \cup {None}
        /\ TypedFiles(logs', LogType(Started)) /\ TypedFiles(tables', (SUBSET Started) \cup {Torn})
        /\ acked' \in SUBSET Started /\ durable' \in SUBSET Started
        /\ Started' = Started /\ started' \in 0 .. MaxWrites
    BY <1>1 DEF FilesInv, Typed, Started
  <2>2. /\ version' = {} /\ logNumber' = 0 /\ nextFile' = 2 /\ manifestNumber' = 0
        /\ logfile' = 0 /\ mem' = {} /\ imm' = None /\ pending' = {} /\ bgError' = FALSE
        /\ toRecover' = {} /\ writing' = None
        /\ flush' = None /\ compaction' = None /\ applying' = "no" /\ reading' = {}
    BY <1>1 DEF Forget
  <2> QED
    BY <1>1, <1>2, <1>3, <2>1, <2>2 DEF Typed
<1>5. ManifestsNumbered'
  BY <1>1 DEF FilesInv, ManifestsNumbered, Only
<1>6. CurrentNamed'
  <2>1. current # None /\ current < manifestNumber /\ manifestNumber \in Nat
        /\ current \in DOMAIN manifests /\ current \in Nat
    BY <1>1 DEF FilesInv, CurrentNamed, Typed
  <2>2. current # manifestNumber
    BY <2>1
  <2> QED
    BY <1>1, <2>1, <2>2 DEF CurrentNamed, Only
<1>7. Closed' /\ Forgotten' /\ Recovering' /\ EditNumbered' /\ Present' /\ MemoryNumbered'
  BY <1>1 DEF Forget, Closed, Forgotten, Recovering, EditNumbered, Present,
              MemoryNumbered, Base, Outputs, Output, Flushing, Edit
<1> QED
  BY <1>4, <1>5, <1>6, <1>7 DEF FilesInv

(* Those of writers and readers.                                           *)
LEMMA AppendedLog ==
  ASSUME NEW written, NEW l \in LogType(written), NEW r \in written \cup {Torn}
  PROVE  /\ Appended(l, r) \in LogType(written)
         /\ Synced(l) \in LogType(written)
<1>1. /\ l.records \in Seq(written \cup {Torn}) /\ l.synced \in Nat
      /\ l.synced <= Len(l.records) /\ Len(l.records) \in Nat
      /\ l \in [records : Seq(written \cup {Torn}), synced : Nat]
  BY DEF LogType
<1>2. /\ Append(l.records, r) \in Seq(written \cup {Torn})
      /\ Len(Append(l.records, r)) = Len(l.records) + 1
  BY <1>1
<1>3. Appended(l, r) \in LogType(written)
  BY <1>1, <1>2 DEF LogType, Appended
<1>4. Synced(l) \in LogType(written)
  BY <1>1 DEF LogType, Synced
<1> QED
  BY <1>3, <1>4

LEMMA LogTypeGrows ==
  ASSUME NEW written, NEW more, written \subseteq more
  PROVE  LogType(written) \subseteq LogType(more)
<1>1. Seq(written \cup {Torn}) \subseteq Seq(more \cup {Torn})
  OBVIOUS
<1> QED
  BY <1>1 DEF LogType

(* One write more is started.                                              *)
LEMMA TypedStart ==
  ASSUME Typed, started < MaxWrites, MaxWrites \in Nat, started' = started + 1
  PROVE  /\ started' \in 0 .. MaxWrites /\ started' \in Started'
         /\ TypedFiles(logs, LogType(Started'))
         /\ TypedFiles(tables, (SUBSET Started') \cup {Torn})
         /\ Started \subseteq Started'
<1>1. PICK n, k : n = started /\ k = started'
  OBVIOUS
<1>2. n \in Nat /\ k = n + 1 /\ k \in 0 .. MaxWrites /\ k \in 1 .. k /\ 1 .. n \subseteq 1 .. k
  BY <1>1 DEF Typed
<1>3. Started = 1 .. n /\ Started' = 1 .. k
  BY <1>1 DEF Started
<1>4. Started \subseteq Started'
  BY <1>2, <1>3
<1>5. /\ LogType(Started) \subseteq LogType(Started')
      /\ (SUBSET Started) \cup {Torn} \subseteq (SUBSET Started') \cup {Torn}
  BY <1>4, LogTypeGrows
<1>6. TypedFiles(logs, LogType(Started')) /\ TypedFiles(tables, (SUBSET Started') \cup {Torn})
  BY <1>5, TypedMore DEF Typed
<1> QED
  BY <1>1, <1>2, <1>3, <1>4, <1>6

LEMMA AddRecordKeepsFilesInv ==
  ASSUME DBFilesAssumption, FilesInv, NEW sync \in SyncOptions, AddRecord(sync)
  PROVE  FilesInv'
<1>1. /\ phase = "open" /\ started < MaxWrites /\ started' = started + 1
      /\ logs' = [logs EXCEPT ![logfile] = Appended(@, started')]
      /\ writing' = [id |-> started', sync |-> sync]
      /\ UNCHANGED <<current, manifests, tables, phase, state, memtables, work,
                     nextFile, bgError, edit, toRecover, reading, acked, durable, stops>>
  BY DEF AddRecord
<1>2. /\ started' \in 0 .. MaxWrites /\ started' \in Started' /\ Started \subseteq Started'
      /\ TypedFiles(logs, LogType(Started')) /\ TypedFiles(tables, (SUBSET Started') \cup {Torn})
  BY <1>1, TypedStart DEF FilesInv, DBFilesAssumption
<1>3. TypedFiles(logs', LogType(Started'))
  <2>1. logfile \in DOMAIN logs => Appended(logs[logfile], started') \in LogType(Started')
    BY <1>2, AppendedLog DEF TypedFiles
  <2> QED
    BY <1>1, <1>2, <2>1, TypedUpdate
<1>4. writing' \in WritingType
  BY <1>1, <1>2 DEF WritingType, DBFilesAssumption
<1>5. Typed'
  BY <1>1, <1>2, <1>3, <1>4 DEF FilesInv, Typed
<1>6. /\ ManifestsNumbered' /\ Closed' /\ Forgotten' /\ CurrentNamed' /\ Recovering'
      /\ MemoryNumbered' /\ EditNumbered' /\ Present'
  BY <1>1 DEF FilesInv, ManifestsNumbered, Closed, Forgotten, CurrentNamed, Recovering,
              MemoryNumbered, EditNumbered, Present, Base, Outputs, Output, Flushing
<1> QED
  BY <1>5, <1>6 DEF FilesInv

LEMMA AddRecordFailsKeepsFilesInv ==
  ASSUME DBFilesAssumption, FilesInv, AddRecordFails
  PROVE  FilesInv'
<1>1. /\ phase = "open" /\ started < MaxWrites /\ started' = started + 1
      /\ logs' = [logs EXCEPT ![logfile] = Appended(@, Torn)]
      /\ UNCHANGED <<current, manifests, tables, phase, memory, acked, durable, stops>>
  BY DEF AddRecordFails
<1>2. /\ started' \in 0 .. MaxWrites /\ Started \subseteq Started'
      /\ TypedFiles(logs, LogType(Started')) /\ TypedFiles(tables, (SUBSET Started') \cup {Torn})
  BY <1>1, TypedStart DEF FilesInv, DBFilesAssumption
<1>3. TypedFiles(logs', LogType(Started'))
  <2>1. logfile \in DOMAIN logs => Appended(logs[logfile], Torn) \in LogType(Started')
    BY <1>2, AppendedLog DEF TypedFiles
  <2> QED
    BY <1>1, <1>2, <2>1, TypedUpdate
<1>5. Typed'
  BY <1>1, <1>2, <1>3 DEF FilesInv, Typed
<1>6. /\ ManifestsNumbered' /\ Closed' /\ Forgotten' /\ CurrentNamed' /\ Recovering'
      /\ MemoryNumbered' /\ EditNumbered' /\ Present'
  BY <1>1 DEF FilesInv, ManifestsNumbered, Closed, Forgotten, CurrentNamed, Recovering,
              MemoryNumbered, EditNumbered, Present, Base, Outputs, Output, Flushing
<1> QED
  BY <1>5, <1>6 DEF FilesInv

LEMMA SyncAndInsertKeepsFilesInv ==
  ASSUME DBFilesAssumption, FilesInv, SyncAndInsert
  PROVE  FilesInv'
<1>1. /\ writing # None
      /\ logs' = logs \/ logs' = [logs EXCEPT ![logfile] = Synced(@)]
      /\ mem' = mem \cup {writing.id}
      /\ acked' = acked \cup {writing.id}
      /\ durable' = durable \cup {writing.id} \/ durable' = durable
      /\ writing' = None
      /\ UNCHANGED <<current, manifests, tables, phase, state, work, nextFile,
                     logfile, imm, bgError, edit, toRecover, reading, started, stops>>
  BY DEF SyncAndInsert
<1>2. writing.id \in Started
  BY <1>1 DEF FilesInv, Typed
<1>3. TypedFiles(logs', LogType(Started))
  <2>1. logfile \in DOMAIN logs => Synced(logs[logfile]) \in LogType(Started)
    BY AppendedLog DEF FilesInv, Typed, TypedFiles
  <2>2. TypedFiles([logs EXCEPT ![logfile] = Synced(@)], LogType(Started))
    BY <2>1, TypedUpdate DEF FilesInv, Typed
  <2> QED
    BY <1>1, <2>2 DEF FilesInv, Typed
<1>4. Started' = Started /\ mem' \in SUBSET Started /\ acked' \in SUBSET Started
      /\ durable' \in SUBSET Started /\ writing' \in WritingType \cup {None}
  BY <1>1, <1>2 DEF FilesInv, Typed, Started
<1>5. Typed'
  BY <1>1, <1>3, <1>4 DEF FilesInv, Typed, work, state
<1>6. phase = "open"
  BY <1>1 DEF FilesInv, Closed
<1>7. DOMAIN logs' = DOMAIN logs
  BY <1>1
<1>8. /\ ManifestsNumbered' /\ Closed' /\ Forgotten' /\ CurrentNamed' /\ Recovering'
      /\ MemoryNumbered' /\ EditNumbered' /\ Present'
  BY <1>1, <1>6, <1>7
     DEF FilesInv, ManifestsNumbered, Closed, Forgotten, CurrentNamed, Recovering,
         MemoryNumbered, EditNumbered, Present, Base, Outputs, Output, Flushing
<1> QED
  BY <1>5, <1>8 DEF FilesInv

LEMMA SyncFailsKeepsFilesInv ==
  ASSUME DBFilesAssumption, FilesInv, SyncFails
  PROVE  FilesInv'
<1>1. /\ writing # None /\ bgError' = TRUE /\ writing' = None
      /\ UNCHANGED <<disk, phase, state, memtables, work, history, nextFile,
                     edit, toRecover, reading>>
  BY DEF SyncFails
<1>2. phase = "open"
  BY <1>1 DEF FilesInv, Closed
<1>3. Typed'
  BY <1>1 DEF FilesInv, Typed, Started
<1>4. /\ ManifestsNumbered' /\ Closed' /\ Forgotten' /\ CurrentNamed' /\ Recovering'
      /\ MemoryNumbered' /\ EditNumbered' /\ Present'
  BY <1>1, <1>2
     DEF FilesInv, ManifestsNumbered, Closed, Forgotten, CurrentNamed, Recovering,
         MemoryNumbered, EditNumbered, Present, Base, Outputs, Output, Flushing
<1> QED
  BY <1>3, <1>4 DEF FilesInv

(* A file number is given out.                                             *)
LEMMA NextGrows ==
  ASSUME FilesInv, phase = "open", nextFile' = nextFile + 1
  PROVE  /\ nextFile \in Nat /\ nextFile' \in Nat
         /\ Below(nextFile) \subseteq Below(nextFile')
         /\ nextFile \in Below(nextFile') /\ nextFile \notin Below(nextFile)
         /\ nextFile < nextFile' /\ manifestNumber < nextFile'
         /\ logfile < nextFile' /\ logNumber < nextFile'
         /\ applying # "no" => edit.next <= nextFile'
         /\ manifestNumber \in DOMAIN manifests
         /\ AllBelow(manifests[manifestNumber], nextFile')
<1>1. PICK n, k : n = nextFile /\ k = nextFile'
  OBVIOUS
<1>2. /\ n \in Nat /\ k = n + 1 /\ manifestNumber \in Nat /\ logfile \in Nat /\ logNumber \in Nat
      /\ manifestNumber < n /\ logfile < n /\ logNumber < n
      /\ applying # "no" => edit.next <= n
      /\ edit.next \in Nat
      /\ manifestNumber \in DOMAIN manifests
      /\ manifests[manifestNumber] \in ManifestType
      /\ AllBelow(manifests[manifestNumber], n)
  BY <1>1 DEF FilesInv, Typed, TypedFiles, MemoryNumbered, EditNumbered, EditType
<1>3. /\ k \in Nat /\ n < k /\ n <= k /\ manifestNumber < k /\ logfile < k /\ logNumber < k
      /\ applying # "no" => edit.next <= k
  BY <1>2
<1>4. Below(n) \subseteq Below(k) /\ n \in Below(k) /\ n \notin Below(n)
  BY <1>2 DEF Below
<1>5. AllBelow(manifests[manifestNumber], k)
  BY <1>2, <1>3, BelowGrows
<1> QED
  BY <1>1, <1>2, <1>3, <1>4, <1>5

LEMMA SwitchMemTableKeepsFilesInv ==
  ASSUME DBFilesAssumption, FilesInv, SwitchMemTable
  PROVE  FilesInv'
<1>1. /\ phase = "open" /\ imm = None
      /\ logs' = Create(logs, nextFile, NewFile)
      /\ logfile' = nextFile /\ nextFile' = nextFile + 1 /\ imm' = mem /\ mem' = {}
      /\ UNCHANGED <<current, manifests, tables, phase, state, work, calls,
                     history, bgError, edit, toRecover>>
  BY DEF SwitchMemTable
<1>2. nextFile \in Nat /\ nextFile' \in Nat
  BY <1>1 DEF FilesInv, Typed
<1>3. TypedFiles(logs', LogType(Started))
  BY <1>1, <1>2, TypedCreate, EmptyFile DEF FilesInv, Typed
<1>5. Typed'
  BY <1>1, <1>2, <1>3 DEF FilesInv, Typed, Started
<1>6. /\ ManifestsNumbered' /\ Closed' /\ Forgotten' /\ CurrentNamed' /\ Recovering'
  BY <1>1 DEF FilesInv, ManifestsNumbered, Closed, Forgotten, CurrentNamed, Recovering, Create
<1>7. MemoryNumbered'
  BY <1>1, NextGrows
     DEF FilesInv, MemoryNumbered, Base, Outputs, Output, Flushing
<1>8. EditNumbered'
  BY <1>1, NextGrows DEF FilesInv, EditNumbered
<1>9. Present'
  <2>1. imm # {}
    BY <1>1, DBFilesAssumption DEF DBFilesAssumption
  <2> QED
    BY <1>1, <2>1 DEF FilesInv, Present, Base, Outputs, Output
<1> QED
  BY <1>5, <1>6, <1>7, <1>8, <1>9 DEF FilesInv

LEMMA ReadingKeepsFilesInv ==
  ASSUME DBFilesAssumption, FilesInv, StartRead \/ EndRead
  PROVE  FilesInv'
<1>1. /\ reading' \in {{}, version} /\ (reading' = {} \/ phase = "open")
      /\ UNCHANGED <<disk, phase, state, memtables, work, history, nextFile,
                     bgError, edit, toRecover, writing>>
  BY DEF StartRead, EndRead
<1>2. Typed'
  <2>1. reading' \in SUBSET Nat
    BY <1>1 DEF FilesInv, Typed
  <2> QED
    BY <1>1, <2>1 DEF FilesInv, Typed, Started
<1>3. /\ ManifestsNumbered' /\ Closed' /\ Forgotten' /\ CurrentNamed' /\ Recovering'
      /\ EditNumbered'
  BY <1>1 DEF FilesInv, ManifestsNumbered, Closed, Forgotten, CurrentNamed, Recovering,
              EditNumbered
<1>4. MemoryNumbered' /\ Present'
  BY <1>1 DEF FilesInv, MemoryNumbered, Present, Base, Outputs, Output, Flushing
<1> QED
  BY <1>2, <1>3, <1>4 DEF FilesInv

(* Those of the background thread.                                         *)
LEMMA StartFlushKeepsFilesInv ==
  ASSUME DBFilesAssumption, FilesInv, StartFlush
  PROVE  FilesInv'
<1>1. /\ phase = "open" /\ imm # None /\ flush = None /\ applying = "no"
      /\ flush' = nextFile /\ nextFile' = nextFile + 1
      /\ pending' = pending \cup {nextFile}
      /\ tables' = IF imm = {} THEN tables ELSE Create(tables, nextFile, Torn)
      /\ UNCHANGED <<current, manifests, logs, phase, state, memtables, calls, history,
                     bgError, edit, toRecover, compaction, applying>>
  BY DEF StartFlush
<1>2. nextFile \in Nat /\ nextFile' \in Nat /\ nextFile # None
  BY <1>1, NextGrows, DBFilesAssumption DEF DBFilesAssumption
<1>3. /\ TypedFiles(tables', (SUBSET Started) \cup {Torn})
      /\ DOMAIN tables \subseteq DOMAIN tables' /\ (imm # {} => nextFile \in DOMAIN tables')
  <2>1. TypedFiles(Create(tables, nextFile, Torn), (SUBSET Started) \cup {Torn})
    BY <1>2, TypedCreate DEF FilesInv, Typed
  <2> QED
    BY <1>1, <2>1 DEF FilesInv, Typed, Create
<1>4. Typed'
  BY <1>1, <1>2, <1>3 DEF FilesInv, Typed, Started
<1>5. /\ ManifestsNumbered' /\ Closed' /\ Forgotten' /\ CurrentNamed' /\ Recovering'
  BY <1>1 DEF FilesInv, ManifestsNumbered, Closed, Forgotten, CurrentNamed, Recovering
<1>6. MemoryNumbered'
  <2>1. /\ Base' = Base /\ Outputs' = Outputs /\ Flushing' = {nextFile} /\ Flushing = {}
    BY <1>1, <1>2 DEF Base, Outputs, Output, Flushing
  <2>2. version \cup edit.add \cup reading \cup Base \cup Outputs \subseteq Below(nextFile)
    BY <1>1 DEF FilesInv, MemoryNumbered
  <2>3. /\ version' \cup edit'.add \cup reading' \cup Base' \cup Outputs' \cup Flushing'
             \subseteq Below(nextFile')
        /\ Flushing' \cap (version' \cup reading' \cup Base' \cup Outputs') = {}
    BY <1>1, <2>1, <2>2, NextGrows
  <2> QED
    BY <1>1, <2>1, <2>3, NextGrows DEF FilesInv, MemoryNumbered
<1>7. EditNumbered'
  BY <1>1 DEF FilesInv, EditNumbered
<1>8. Present'
  BY <1>1, <1>3 DEF FilesInv, Present, Base, Outputs, Output
<1> QED
  BY <1>4, <1>5, <1>6, <1>7, <1>8 DEF FilesInv

(* While a memtable is flushed, or tables are merged, the database is open.*)
LEMMA WorkInOpen ==
  ASSUME FilesInv, flush # None \/ compaction # None \/ applying # "no"
  PROVE  phase = "open"
BY DEF FilesInv, Closed

LEMMA FinishFlushKeepsFilesInv ==
  ASSUME DBFilesAssumption, FilesInv, FinishFlush
  PROVE  FilesInv'
<1>1. /\ flush # None /\ applying = "no" /\ applying' = "started"
      /\ tables' = IF imm = {} THEN tables ELSE [tables EXCEPT ![flush] = imm]
      /\ pending' = pending \ {flush}
      /\ edit' = Edit(IF imm = {} THEN {} ELSE {flush}, {}, logfile, nextFile)
      /\ UNCHANGED <<current, manifests, logs, phase, state, memtables, calls, history,
                     nextFile, bgError, toRecover, flush, compaction>>
  BY DEF FinishFlush
<1>2. phase = "open" /\ flush \in Nat /\ imm \in SUBSET Started /\ Flushing = {flush}
  BY <1>1 DEF FilesInv, Closed, Typed, Present, Flushing
<1>3. TypedFiles(tables', (SUBSET Started) \cup {Torn}) /\ DOMAIN tables' = DOMAIN tables
  <2>1. TypedFiles([tables EXCEPT ![flush] = imm], (SUBSET Started) \cup {Torn})
    BY <1>2, TypedUpdate DEF FilesInv, Typed
  <2> QED
    BY <1>1, <2>1 DEF FilesInv, Typed
<1>4. /\ edit' \in EditType /\ edit'.next = nextFile /\ edit'.log = logfile
      /\ edit'.add = IF imm = {} THEN {} ELSE {flush}
  BY <1>1, <1>2 DEF FilesInv, Typed, Edit, EditType
<1>5. Typed'
  BY <1>1, <1>3, <1>4 DEF FilesInv, Typed, Started
<1>6. /\ ManifestsNumbered' /\ Closed' /\ Forgotten' /\ CurrentNamed' /\ Recovering'
  BY <1>1, <1>2 DEF FilesInv, ManifestsNumbered, Closed, Forgotten, CurrentNamed, Recovering
<1>7. edit'.add \subseteq Below(nextFile) /\ Outputs \subseteq pending'
  BY <1>1, <1>2, <1>4 DEF FilesInv, MemoryNumbered
<1>8. MemoryNumbered'
  BY <1>1, <1>2, <1>7 DEF FilesInv, MemoryNumbered, Base, Outputs, Output, Flushing
<1>9. EditNumbered'
  <2>1. nextFile <= nextFile /\ manifestNumber < nextFile /\ logfile < nextFile
    BY <1>2 DEF FilesInv, Typed, MemoryNumbered
  <2> QED
    BY <1>1, <1>2, <1>4, <1>7, <2>1 DEF FilesInv, MemoryNumbered, EditNumbered
<1>10. Present'
  BY <1>1, <1>3, <1>4 DEF FilesInv, Present, Base, Outputs, Output
<1> QED
  BY <1>5, <1>6, <1>8, <1>9, <1>10 DEF FilesInv

LEMMA FlushFailsKeepsFilesInv ==
  ASSUME DBFilesAssumption, FilesInv, FlushFails
  PROVE  FilesInv'
<1>1. /\ flush # None /\ applying = "no" /\ flush' = None /\ bgError' = TRUE
      /\ tables' = Only(tables, DOMAIN tables \ {flush})
      /\ pending' = pending \ {flush}
      /\ UNCHANGED <<current, manifests, logs, phase, state, memtables, calls, history,
                     nextFile, edit, toRecover, compaction, applying>>
  BY DEF FlushFails
<1>2. phase = "open" /\ Flushing = {flush} /\ Flushing' = {} /\ edit.add = {}
  BY <1>1 DEF FilesInv, Closed, EditNumbered, Flushing
<1>3. TypedFiles(tables', (SUBSET Started) \cup {Torn}) /\ DOMAIN tables' = DOMAIN tables \ {flush}
  BY <1>1, TypedOnly DEF FilesInv, Typed, Only
<1>4. Typed'
  BY <1>1, <1>3 DEF FilesInv, Typed, Started
<1>5. /\ ManifestsNumbered' /\ Closed' /\ Forgotten' /\ CurrentNamed' /\ Recovering'
  BY <1>1, <1>2 DEF FilesInv, ManifestsNumbered, Closed, Forgotten, CurrentNamed, Recovering
<1>6. flush \notin version \cup reading \cup Base \cup Outputs
  BY <1>2 DEF FilesInv, MemoryNumbered
<1>7. MemoryNumbered' /\ EditNumbered'
  BY <1>1, <1>2, <1>6
     DEF FilesInv, MemoryNumbered, EditNumbered, Base, Outputs, Output
<1>8. Present'
  BY <1>1, <1>2, <1>3, <1>6 DEF FilesInv, Present, Base, Outputs, Output
<1> QED
  BY <1>4, <1>5, <1>7, <1>8 DEF FilesInv

LEMMA StoredIsStarted ==
  ASSUME TypedFiles(tables, (SUBSET Started) \cup {Torn}), NEW files, files \subseteq DOMAIN tables
  PROVE  Stored(files) \subseteq Started
<1>1. ASSUME NEW f \in files, tables[f] # Torn PROVE tables[f] \subseteq Started
  <2>1. tables[f] \in SUBSET Started \/ tables[f] = Torn
    BY DEF TypedFiles
  <2> QED
    BY <1>1, <2>1
<1> QED
  BY <1>1 DEF Stored

LEMMA StartCompactionKeepsFilesInv ==
  ASSUME DBFilesAssumption, FilesInv, NEW inputs \in (SUBSET version) \ {{}},
         StartCompaction(inputs)
  PROVE  FilesInv'
<1>1. /\ phase = "open" /\ flush = None /\ compaction = None
      /\ compaction' = [inputs |-> inputs, base |-> version, left |-> Stored(inputs),
                        done |-> {}, output |-> None]
      /\ UNCHANGED <<disk, phase, state, memtables, calls, history, nextFile,
                     pending, bgError, edit, toRecover, flush, applying>>
  BY DEF StartCompaction
<1>2. Stored(inputs) \subseteq Started
  BY StoredIsStarted DEF FilesInv, Typed, Present
<1>3. compaction' \in CompactionType /\ compaction'.left \subseteq Started
  <2>1. /\ inputs \in SUBSET Nat /\ version \in SUBSET Nat
        /\ Stored(inputs) \in SUBSET Nat /\ {} \in SUBSET Nat /\ None \in Nat \cup {None}
    BY <1>2 DEF FilesInv, Typed, Started
  <2> QED
    BY <1>1, <1>2, <2>1 DEF CompactionType
<1>4. compaction' # None
  BY <1>3, DBFilesAssumption DEF DBFilesAssumption
<1>5. Typed'
  BY <1>1, <1>3 DEF FilesInv, Typed, Started
<1>6. /\ ManifestsNumbered' /\ Closed' /\ Forgotten' /\ CurrentNamed' /\ Recovering'
      /\ EditNumbered'
  BY <1>1 DEF FilesInv, ManifestsNumbered, Closed, Forgotten, CurrentNamed, Recovering,
              EditNumbered
<1>7. Base' = version /\ Outputs' = {}
  BY <1>1, <1>4 DEF Base, Outputs, Output
<1>8. MemoryNumbered' /\ Present'
  BY <1>1, <1>7 DEF FilesInv, MemoryNumbered, Present, Flushing
<1> QED
  BY <1>5, <1>6, <1>8 DEF FilesInv

(* The parts of a compaction's record.                                     *)
LEMMA CompactionParts ==
  ASSUME FilesInv, compaction # None
  PROVE  /\ compaction \in CompactionType
         /\ compaction.inputs \in SUBSET Nat /\ compaction.base \in SUBSET Nat
         /\ compaction.done \in SUBSET Nat /\ compaction.output \in Nat \cup {None}
         /\ compaction.left \subseteq Started
         /\ Base = compaction.base /\ Outputs = compaction.done \cup Output
         /\ Outputs \in SUBSET Nat
BY DEF FilesInv, Typed, CompactionType, Base, Outputs, Output

LEMMA OpenCompactionOutputFileKeepsFilesInv ==
  ASSUME DBFilesAssumption, FilesInv, OpenCompactionOutputFile
  PROVE  FilesInv'
<1>1. /\ compaction # None /\ flush = None /\ applying = "no" /\ Output = {}
      /\ compaction' = [compaction EXCEPT !.output = nextFile]
      /\ nextFile' = nextFile + 1
      /\ pending' = pending \cup {nextFile}
      /\ tables' = Create(tables, nextFile, Torn)
      /\ UNCHANGED <<current, manifests, logs, phase, state, memtables, calls, history,
                     bgError, edit, toRecover, flush, applying>>
  BY DEF OpenCompactionOutputFile
<1>2. phase = "open"
  BY <1>1, WorkInOpen
<1>3. nextFile \in Nat /\ nextFile' \in Nat /\ nextFile # None
  BY <1>1, <1>2, NextGrows, DBFilesAssumption DEF DBFilesAssumption
<1>4. /\ compaction' \in CompactionType /\ compaction'.base = compaction.base
      /\ compaction'.done = compaction.done /\ compaction'.output = nextFile
      /\ compaction'.left = compaction.left
  BY <1>1, <1>3, CompactionParts DEF CompactionType
<1>5. compaction' # None
  BY <1>4, DBFilesAssumption DEF DBFilesAssumption
<1>6. Base' = Base /\ Outputs' = Outputs \cup {nextFile}
  BY <1>1, <1>3, <1>4, <1>5, CompactionParts DEF Base, Outputs, Output
<1>7. TypedFiles(tables', (SUBSET Started) \cup {Torn})
  BY <1>1, <1>3, TypedCreate DEF FilesInv, Typed
<1>8. Typed'
  BY <1>1, <1>3, <1>4, <1>7, CompactionParts DEF FilesInv, Typed, Started
<1>9. /\ ManifestsNumbered' /\ Closed' /\ Forgotten' /\ CurrentNamed' /\ Recovering'
      /\ EditNumbered'
  BY <1>1, <1>2 DEF FilesInv, ManifestsNumbered, Closed, Forgotten, CurrentNamed, Recovering,
                    EditNumbered
<1>10. MemoryNumbered'
  BY <1>1, <1>2, <1>6, NextGrows DEF FilesInv, MemoryNumbered, Flushing
<1>11. Present'
  <2>1. DOMAIN tables' = DOMAIN tables \cup {nextFile}
    BY <1>1 DEF Create
  <2> QED
    BY <1>1, <1>6, <2>1 DEF FilesInv, Present
<1> QED
  BY <1>8, <1>9, <1>10, <1>11 DEF FilesInv

LEMMA FinishCompactionOutputFileKeepsFilesInv ==
  ASSUME DBFilesAssumption, FilesInv, NEW part \in SUBSET Writes,
         FinishCompactionOutputFile(part)
  PROVE  FilesInv'
<1>1. /\ compaction # None /\ flush = None /\ applying = "no" /\ part \subseteq compaction.left
      /\ tables' = [tables EXCEPT ![compaction.output] = part]
      /\ compaction' = [compaction EXCEPT !.left = @ \ part, !.done = Outputs, !.output = None]
      /\ \/ /\ edit' = Edit(Outputs, compaction.inputs, logNumber, nextFile)
            /\ applying' = "started"
         \/ edit' = edit /\ applying' = applying
      /\ UNCHANGED <<current, manifests, logs, phase, state, memtables, calls, history,
                     nextFile, pending, bgError, toRecover, flush>>
  BY DEF FinishCompactionOutputFile
<1>2. phase = "open" /\ edit.add = {}
  BY <1>1, WorkInOpen DEF FilesInv, EditNumbered
<1>3. compaction.left \in SUBSET Nat /\ part \in SUBSET Started
  BY <1>1, CompactionParts DEF CompactionType
<1>4. /\ compaction' \in CompactionType /\ compaction'.base = compaction.base
      /\ compaction'.done = Outputs /\ compaction'.output = None
      /\ compaction'.left \subseteq Started
  <2>1. (compaction.left \ part) \in SUBSET Nat
    BY <1>3
  <2>2. compaction' = [inputs |-> compaction.inputs, base |-> compaction.base,
                       left |-> compaction.left \ part, done |-> Outputs, output |-> None]
    BY <1>1, CompactionParts DEF CompactionType
  <2> QED
    BY <1>1, <2>1, <2>2, CompactionParts DEF CompactionType
<1>5. compaction' # None
  BY <1>4, DBFilesAssumption DEF DBFilesAssumption
<1>6. Base' = Base /\ Outputs' = Outputs
  BY <1>1, <1>4, <1>5, CompactionParts DEF Base, Outputs, Output
<1>7. TypedFiles(tables', (SUBSET Started) \cup {Torn}) /\ DOMAIN tables' = DOMAIN tables
  <2>1. TypedFiles(tables, (SUBSET Started) \cup {Torn}) /\ part \in (SUBSET Started) \cup {Torn}
    BY <1>3 DEF FilesInv, Typed
  <2> QED
    BY <1>1, <2>1, TypedUpdate
<1>8. /\ edit' \in EditType /\ edit'.add \subseteq Outputs
      /\ applying' = "no" => edit'.add = {}
      /\ applying' # "no" => edit'.next = nextFile /\ edit'.log = logNumber
      /\ applying' \in {"no", "started"}
  <2>1. Edit(Outputs, compaction.inputs, logNumber, nextFile) \in EditType
    BY <1>1, CompactionParts DEF FilesInv, Typed, Edit, EditType
  <2> QED
    BY <1>1, <1>2, <2>1 DEF FilesInv, Typed, Edit
<1>9. Typed'
  BY <1>1, <1>4, <1>7, <1>8 DEF FilesInv, Typed, Started
<1>10. /\ ManifestsNumbered' /\ Closed' /\ Forgotten' /\ CurrentNamed' /\ Recovering'
  BY <1>1, <1>2 DEF FilesInv, ManifestsNumbered, Closed, Forgotten, CurrentNamed, Recovering
<1>11. Outputs \subseteq Below(nextFile)
  BY <1>2 DEF FilesInv, MemoryNumbered
<1>12. MemoryNumbered'
  <2>1. edit'.add \subseteq Below(nextFile)
    BY <1>8, <1>11
  <2> QED
    BY <1>1, <1>2, <1>6, <2>1 DEF FilesInv, MemoryNumbered, Flushing
<1>13. EditNumbered'
  <2>1. nextFile <= nextFile /\ manifestNumber < nextFile /\ logNumber < nextFile
    BY <1>2 DEF FilesInv, Typed, MemoryNumbered
  <2>2. edit'.add \subseteq Below(nextFile)
    BY <1>8, <1>11
  <2> QED
    BY <1>1, <1>2, <1>8, <2>1, <2>2 DEF FilesInv, MemoryNumbered, EditNumbered
<1>14. Present'
  <2>1. Outputs \subseteq DOMAIN tables
    BY DEF FilesInv, Present
  <2> QED
    BY <1>1, <1>6, <1>7, <1>8, <2>1 DEF FilesInv, Present
<1> QED
  BY <1>9, <1>10, <1>12, <1>13, <1>14 DEF FilesInv

LEMMA LogEditKeepsFilesInv ==
  ASSUME DBFilesAssumption, FilesInv, LogEdit
  PROVE  FilesInv'
<1> DEFINE m == manifests[manifestNumber]
<1>1. /\ applying = "started" /\ applying' = "logged"
      /\ manifests' = [manifests EXCEPT ![manifestNumber] = Appended(@, edit)]
      /\ UNCHANGED <<current, logs, tables, phase, state, memtables, calls, history,
                     nextFile, pending, bgError, edit, toRecover, flush, compaction>>
  BY DEF LogEdit
<1>2. phase = "open"
  BY <1>1, WorkInOpen
<1>3. /\ manifestNumber \in Nat /\ manifestNumber \in DOMAIN manifests /\ m \in ManifestType
      /\ edit \in EditType /\ nextFile \in Nat /\ Numbers(manifestNumber, m)
      /\ edit.add \subseteq Below(nextFile) /\ AllBelow(m, nextFile)
      /\ AllBelow(m, edit.next) /\ edit.add \subseteq Below(edit.next)
      /\ manifestNumber < edit.next /\ edit.log < edit.next
  BY <1>1, <1>2
     DEF FilesInv, Typed, TypedFiles, ManifestsNumbered, MemoryNumbered, EditNumbered
<1>4. /\ manifests'[manifestNumber] = Appended(m, edit)
      /\ DOMAIN manifests' = DOMAIN manifests
      /\ \A n \in DOMAIN manifests \ {manifestNumber} : manifests'[n] = manifests[n]
  BY <1>1, <1>3
<1> HIDE DEF m
<1>5. /\ Appended(m, edit) \in ManifestType /\ Numbers(manifestNumber, Appended(m, edit))
      /\ AllBelow(Appended(m, edit), nextFile)
  BY <1>3, AppendedManifest, NumbersAppend, BelowAppend
<1>6. TypedFiles(manifests', ManifestType) /\ ManifestsNumbered'
  BY <1>4, <1>5 DEF FilesInv, Typed, TypedFiles, ManifestsNumbered
<1>7. Typed'
  BY <1>1, <1>6 DEF FilesInv, Typed, Started
<1>8. /\ Closed' /\ Forgotten' /\ CurrentNamed' /\ Recovering'
  BY <1>1, <1>2, <1>4 DEF FilesInv, Closed, Forgotten, CurrentNamed, Recovering
<1>9. MemoryNumbered' /\ EditNumbered' /\ Present'
  BY <1>1, <1>2, <1>3, <1>4, <1>5
     DEF FilesInv, MemoryNumbered, EditNumbered, Present, Base, Outputs, Output, Flushing
<1> QED
  BY <1>6, <1>7, <1>8, <1>9 DEF FilesInv

(* The descriptor of the open database, after it was synced.               *)
LEMMA DescriptorNumbered ==
  ASSUME FilesInv, phase = "open"
  PROVE  /\ TypedFiles(Descriptor, ManifestType)
         /\ DOMAIN Descriptor = DOMAIN manifests
         /\ \A n \in DOMAIN Descriptor : Numbers(n, Descriptor[n])
         /\ manifestNumber \in DOMAIN Descriptor
         /\ Descriptor[manifestNumber] = Synced(manifests[manifestNumber])
         /\ AllBelow(Descriptor[manifestNumber], nextFile)
<1>1. /\ manifestNumber \in DOMAIN manifests /\ manifests[manifestNumber] \in ManifestType
      /\ AllBelow(manifests[manifestNumber], nextFile)
      /\ \A n \in DOMAIN manifests : manifests[n] \in ManifestType /\ Numbers(n, manifests[n])
      /\ DOMAIN manifests \subseteq Nat
  BY DEF FilesInv, Typed, TypedFiles, ManifestsNumbered, MemoryNumbered
<1>2. /\ DOMAIN Descriptor = DOMAIN manifests
      /\ Descriptor[manifestNumber] = Synced(manifests[manifestNumber])
      /\ \A n \in DOMAIN manifests \ {manifestNumber} : Descriptor[n] = manifests[n]
  BY <1>1 DEF Descriptor
<1>3. /\ Synced(manifests[manifestNumber]) \in ManifestType
      /\ Numbers(manifestNumber, Synced(manifests[manifestNumber]))
      /\ AllBelow(Synced(manifests[manifestNumber]), nextFile)
  BY <1>1, SyncedManifest, NumbersSynced
<1> QED
  BY <1>1, <1>2, <1>3 DEF TypedFiles

(* The files after obsolete ones were deleted: of the tables those that    *)
(* are live, of the logs those from the log number on, of the manifests    *)
(* the own one are left.                                                   *)
LEMMA FilesLeft ==
  ASSUME FilesInv, NEW live, NEW log \in Nat, NEW ms, NEW error \in BOOLEAN,
         TypedFiles(ms, ManifestType), \A n \in DOMAIN ms : Numbers(n, ms[n]),
         manifestNumber \in DOMAIN ms,
         DeleteObsoleteFiles(error, live, log, ms)
  PROVE  /\ TypedFiles(tables', (SUBSET Started) \cup {Torn})
         /\ TypedFiles(logs', LogType(Started)) /\ TypedFiles(manifests', ManifestType)
         /\ \A n \in DOMAIN manifests' : Numbers(n, manifests'[n])
         /\ manifestNumber \in DOMAIN manifests'
         /\ manifests'[manifestNumber] = ms[manifestNumber]
         /\ DOMAIN tables \cap live \subseteq DOMAIN tables'
         /\ \A n \in DOMAIN tables' : n \in DOMAIN tables /\ tables'[n] = tables[n]
         /\ \A n \in DOMAIN logs : n >= log => n \in DOMAIN logs'
         /\ \A n \in DOMAIN logs' : n \in DOMAIN logs /\ logs'[n] = logs[n]
<1>1. /\ manifestNumber \in Nat /\ TypedFiles(tables, (SUBSET Started) \cup {Torn})
      /\ TypedFiles(logs, LogType(Started))
  BY DEF FilesInv, Typed
<1>2. PICK kt, kl, km :
        /\ kt = (IF error THEN DOMAIN tables ELSE live)
        /\ kl = (IF error THEN DOMAIN logs ELSE {n \in Nat : n >= log})
        /\ km = (IF error THEN DOMAIN ms ELSE {n \in Nat : n >= manifestNumber})
  OBVIOUS
<1>3. Thinned(tables', tables, kt) /\ Thinned(logs', logs, kl) /\ Thinned(manifests', ms, km)
  BY <1>1, <1>2, ObsoleteDeleted
<1>4. /\ TypedFiles(tables', (SUBSET Started) \cup {Torn})
      /\ TypedFiles(logs', LogType(Started)) /\ TypedFiles(manifests', ManifestType)
  BY <1>1, <1>3, TypedThinned
<1>5. /\ \A n \in DOMAIN manifests' : Numbers(n, manifests'[n])
      /\ \A n \in DOMAIN tables' : n \in DOMAIN tables /\ tables'[n] = tables[n]
      /\ \A n \in DOMAIN logs' : n \in DOMAIN logs /\ logs'[n] = logs[n]
  BY <1>3 DEF Thinned
<1>6. manifestNumber \in DOMAIN manifests' /\ manifests'[manifestNumber] = ms[manifestNumber]
  <2>1. manifestNumber \in km
    BY <1>1, <1>2
  <2> QED
    BY <2>1, <1>3 DEF Thinned
<1>7. DOMAIN tables \cap live \subseteq DOMAIN tables'
  BY <1>2, <1>3 DEF Thinned
<1>8. \A n \in DOMAIN logs : n >= log => n \in DOMAIN logs'
  <2>1. \A n \in DOMAIN logs : n >= log => n \in kl
    BY <1>1, <1>2 DEF TypedFiles
  <2> QED
    BY <2>1, <1>3 DEF Thinned
<1> QED
  BY <1>4, <1>5, <1>6, <1>7, <1>8

LEMMA InstallFlushKeepsFilesInv ==
  ASSUME DBFilesAssumption, FilesInv, InstallFlush
  PROVE  FilesInv'
<1>1. /\ flush # None /\ flush' = None /\ imm' = None
      /\ applying = "logged" /\ applying' = "no"
      /\ version' = (version \ edit.del) \cup edit.add
      /\ logNumber' = edit.log /\ edit' = Edit({}, {}, 0, 0)
      /\ DeleteObsoleteFiles(bgError, LiveFiles(version', pending, Base), edit.log, Descriptor)
      /\ UNCHANGED <<current, phase, logfile, mem, calls, history, nextFile,
                     manifestNumber, pending, bgError, toRecover, compaction>>
  BY DEF InstallFlush, Install
<1>2. /\ phase = "open" /\ edit \in EditType /\ edit.log \in Nat /\ bgError \in BOOLEAN
      /\ edit.add \in SUBSET Nat /\ version \in SUBSET Nat
  BY <1>1, WorkInOpen DEF FilesInv, Typed, EditType
<1>3. /\ TypedFiles(tables', (SUBSET Started) \cup {Torn})
      /\ TypedFiles(logs', LogType(Started)) /\ TypedFiles(manifests', ManifestType)
      /\ \A n \in DOMAIN manifests' : Numbers(n, manifests'[n])
      /\ manifestNumber \in DOMAIN manifests'
      /\ AllBelow(manifests'[manifestNumber], nextFile)
      /\ DOMAIN tables \cap LiveFiles(version', pending, Base) \subseteq DOMAIN tables'
  <2>1. /\ TypedFiles(Descriptor, ManifestType) /\ manifestNumber \in DOMAIN Descriptor
        /\ \A n \in DOMAIN Descriptor : Numbers(n, Descriptor[n])
        /\ AllBelow(Descriptor[manifestNumber], nextFile)
    BY <1>2, DescriptorNumbered
  <2>2. PICK live, ms, error, log :
          live = LiveFiles(version', pending, Base) /\ ms = Descriptor /\ error = bgError /\ log = edit.log
    OBVIOUS
  <2>3. /\ DeleteObsoleteFiles(error, live, log, ms) /\ error \in BOOLEAN /\ log \in Nat
        /\ TypedFiles(ms, ManifestType) /\ manifestNumber \in DOMAIN ms
        /\ \A n \in DOMAIN ms : Numbers(n, ms[n])
    BY <1>1, <1>2, <2>1, <2>2
  <2>4. /\ TypedFiles(tables', (SUBSET Started) \cup {Torn})
        /\ TypedFiles(logs', LogType(Started)) /\ TypedFiles(manifests', ManifestType)
        /\ \A n \in DOMAIN manifests' : Numbers(n, manifests'[n])
        /\ manifestNumber \in DOMAIN manifests'
        /\ manifests'[manifestNumber] = ms[manifestNumber]
        /\ DOMAIN tables \cap live \subseteq DOMAIN tables'
    BY <2>3, FilesLeft
  <2> QED
    BY <2>1, <2>2, <2>4
<1>4. edit' \in EditType /\ edit'.add = {}
  BY <1>1 DEF Edit, EditType
<1>5. Typed'
  BY <1>1, <1>2, <1>3, <1>4 DEF FilesInv, Typed, Started
<1>6. ManifestsNumbered' /\ Closed' /\ Forgotten' /\ CurrentNamed' /\ Recovering'
  BY <1>1, <1>2, <1>3 DEF FilesInv, ManifestsNumbered, Closed, Forgotten, CurrentNamed, Recovering
<1>7. Base' = Base /\ Outputs' = Outputs /\ Flushing' = {} /\ reading' = reading
  BY <1>1 DEF Base, Outputs, Output, Flushing
<1>8. MemoryNumbered'
  <2>1. version' \subseteq Below(nextFile) /\ logNumber' < nextFile
    <3>1. edit.log < edit.next /\ edit.next <= nextFile /\ nextFile \in Nat /\ edit.next \in Nat
      BY <1>1, <1>2 DEF FilesInv, Typed, EditNumbered, EditType
    <3>2. edit.log < nextFile
      BY <1>2, <3>1
    <3> QED
      BY <1>1, <1>2, <3>2 DEF FilesInv, MemoryNumbered
  <2> QED
    BY <1>1, <1>2, <1>3, <1>4, <1>7, <2>1 DEF FilesInv, MemoryNumbered
<1>9. EditNumbered'
  BY <1>1, <1>4 DEF FilesInv, EditNumbered
<1>10. Present'
  <2>1. version' \cup reading \cup Base \cup Outputs \subseteq DOMAIN tables
    BY <1>1 DEF FilesInv, Present
  <2>2. version' \cup reading \cup Base \cup Outputs \subseteq LiveFiles(version', pending, Base)
    BY DEF FilesInv, MemoryNumbered, LiveFiles
  <2> QED
    BY <1>1, <1>3, <1>4, <1>7, <2>1, <2>2 DEF Present
<1> QED
  BY <1>5, <1>6, <1>8, <1>9, <1>10 DEF FilesInv

LEMMA InstallCompactionKeepsFilesInv ==
  ASSUME DBFilesAssumption, FilesInv, InstallCompaction
  PROVE  FilesInv'
<1>1. /\ flush = None
      /\ applying = "logged" /\ applying' = "no"
      /\ version' = (version \ edit.del) \cup edit.add
      /\ logNumber' = edit.log /\ edit' = Edit({}, {}, 0, 0)
      /\ compaction' = None /\ pending' = pending \ Outputs /\ bgError' = bgError
      /\ DeleteObsoleteFiles(bgError, LiveFiles(version', pending', {}), edit.log, Descriptor)
      /\ UNCHANGED <<current, phase, memtables, calls, history, nextFile,
                     manifestNumber, toRecover, flush>>
  BY DEF InstallCompaction, Install, CleanupCompaction
<1>2. /\ phase = "open" /\ edit \in EditType /\ edit.log \in Nat /\ bgError \in BOOLEAN
      /\ edit.add \in SUBSET Nat /\ version \in SUBSET Nat
  BY <1>1, WorkInOpen DEF FilesInv, Typed, EditType
<1>3. /\ TypedFiles(tables', (SUBSET Started) \cup {Torn})
      /\ TypedFiles(logs', LogType(Started)) /\ TypedFiles(manifests', ManifestType)
      /\ \A n \in DOMAIN manifests' : Numbers(n, manifests'[n])
      /\ manifestNumber \in DOMAIN manifests'
      /\ AllBelow(manifests'[manifestNumber], nextFile)
      /\ DOMAIN tables \cap LiveFiles(version', pending', {}) \subseteq DOMAIN tables'
  <2>1. /\ TypedFiles(Descriptor, ManifestType) /\ manifestNumber \in DOMAIN Descriptor
        /\ \A n \in DOMAIN Descriptor : Numbers(n, Descriptor[n])
        /\ AllBelow(Descriptor[manifestNumber], nextFile)
    BY <1>2, DescriptorNumbered
  <2>2. PICK live, ms, error, log :
          live = LiveFiles(version', pending', {}) /\ ms = Descriptor /\ error = bgError /\ log = edit.log
    OBVIOUS
  <2>3. /\ DeleteObsoleteFiles(error, live, log, ms) /\ error \in BOOLEAN /\ log \in Nat
        /\ TypedFiles(ms, ManifestType) /\ manifestNumber \in DOMAIN ms
        /\ \A n \in DOMAIN ms : Numbers(n, ms[n])
    BY <1>1, <1>2, <2>1, <2>2
  <2>4. /\ TypedFiles(tables', (SUBSET Started) \cup {Torn})
        /\ TypedFiles(logs', LogType(Started)) /\ TypedFiles(manifests', ManifestType)
        /\ \A n \in DOMAIN manifests' : Numbers(n, manifests'[n])
        /\ manifestNumber \in DOMAIN manifests'
        /\ manifests'[manifestNumber] = ms[manifestNumber]
        /\ DOMAIN tables \cap live \subseteq DOMAIN tables'
    BY <2>3, FilesLeft
  <2> QED
    BY <2>1, <2>2, <2>4
<1>4. edit' \in EditType /\ edit'.add = {}
  BY <1>1 DEF Edit, EditType
<1>5. Typed'
  BY <1>1, <1>2, <1>3, <1>4 DEF FilesInv, Typed, Started
<1>6. ManifestsNumbered' /\ Closed' /\ Forgotten' /\ CurrentNamed' /\ Recovering'
  BY <1>1, <1>2, <1>3 DEF FilesInv, ManifestsNumbered, Closed, Forgotten, CurrentNamed, Recovering
<1>7. Base' = {} /\ Outputs' = {} /\ Flushing' = {} /\ reading' = reading
  BY <1>1 DEF Base, Outputs, Output, Flushing
<1>8. MemoryNumbered'
  <2>1. version' \subseteq Below(nextFile) /\ logNumber' < nextFile
    <3>1. edit.log < edit.next /\ edit.next <= nextFile /\ nextFile \in Nat /\ edit.next \in Nat
      BY <1>1, <1>2 DEF FilesInv, Typed, EditNumbered, EditType
    <3>2. edit.log < nextFile
      BY <1>2, <3>1
    <3> QED
      BY <1>1, <1>2, <3>2 DEF FilesInv, MemoryNumbered
  <2> QED
    BY <1>1, <1>2, <1>3, <1>4, <1>7, <2>1 DEF FilesInv, MemoryNumbered
<1>9. EditNumbered'
  BY <1>1, <1>4 DEF FilesInv, EditNumbered
<1>10. Present'
  <2>1. version' \cup reading \subseteq DOMAIN tables
    BY <1>1 DEF FilesInv, Present
  <2>2. version' \cup reading \subseteq LiveFiles(version', pending', {})
    BY DEF LiveFiles
  <2> QED
    BY <1>1, <1>3, <1>4, <1>7, <2>1, <2>2 DEF Present
<1> QED
  BY <1>5, <1>6, <1>8, <1>9, <1>10 DEF FilesInv

LEMMA ApplyFailsKeepsFilesInv ==
  ASSUME DBFilesAssumption, FilesInv, NEW ms, ApplyFails(ms),
         TypedFiles(ms, ManifestType), \A n \in DOMAIN ms : Numbers(n, ms[n]),
         DOMAIN ms = DOMAIN manifests,
         AllBelow(ms[manifestNumber], nextFile)
  PROVE  FilesInv'
<1>1. /\ applying # "no" /\ applying' = "no" /\ edit' = Edit({}, {}, 0, 0)
      /\ bgError' = TRUE /\ flush' = None
      /\ manifests' = ms /\ logs' = logs /\ tables' = tables
      /\ \/ pending' = pending /\ compaction' = compaction
         \/ compaction' = None /\ pending' = pending \ Outputs
      /\ UNCHANGED <<current, phase, state, memtables, calls, history, nextFile,
                     toRecover>>
  BY DEF ApplyFails, CleanupCompaction, DeleteObsoleteFiles
<1>2. phase = "open"
  BY <1>1, WorkInOpen
<1>3. edit' \in EditType /\ edit'.add = {}
  BY <1>1 DEF Edit, EditType
<1>4. Typed'
  BY <1>1, <1>3 DEF FilesInv, Typed, Started
<1>5. ManifestsNumbered' /\ Closed' /\ Forgotten' /\ CurrentNamed' /\ Recovering'
  BY <1>1, <1>2 DEF FilesInv, ManifestsNumbered, Closed, Forgotten, CurrentNamed, Recovering
<1>6. Base' \subseteq Base /\ Outputs' \subseteq Outputs /\ Flushing' = {} /\ Outputs' \subseteq pending'
  BY <1>1 DEF FilesInv, MemoryNumbered, Base, Outputs, Output, Flushing
<1>7. MemoryNumbered' /\ EditNumbered' /\ Present'
  BY <1>1, <1>2, <1>3, <1>6 DEF FilesInv, MemoryNumbered, EditNumbered, Present
<1> QED
  BY <1>4, <1>5, <1>7 DEF FilesInv

LEMMA ManifestFailsKeepsFilesInv ==
  ASSUME DBFilesAssumption, FilesInv, ManifestFails
  PROVE  FilesInv'
<1>1. ApplyFails(manifests) /\ phase = "open"
  BY WorkInOpen DEF ManifestFails, ApplyFails
<1> QED
  BY <1>1, ApplyFailsKeepsFilesInv DEF FilesInv, Typed, ManifestsNumbered, MemoryNumbered

LEMMA EditTornKeepsFilesInv ==
  ASSUME DBFilesAssumption, FilesInv, EditTorn
  PROVE  FilesInv'
<1> DEFINE m == manifests[manifestNumber]
           ms == [manifests EXCEPT ![manifestNumber] = Appended(@, Torn)]
<1>1. ApplyFails(ms) /\ phase = "open"
  BY WorkInOpen DEF EditTorn, ApplyFails
<1>2. /\ manifestNumber \in Nat /\ manifestNumber \in DOMAIN manifests /\ m \in ManifestType
      /\ nextFile \in Nat /\ Numbers(manifestNumber, m) /\ AllBelow(m, nextFile)
      /\ TypedFiles(manifests, ManifestType)
      /\ \A n \in DOMAIN manifests : Numbers(n, manifests[n])
  BY <1>1 DEF FilesInv, Typed, TypedFiles, ManifestsNumbered, MemoryNumbered
<1>3. /\ ms[manifestNumber] = Appended(m, Torn)
      /\ DOMAIN ms = DOMAIN manifests
      /\ \A n \in DOMAIN manifests \ {manifestNumber} : ms[n] = manifests[n]
  BY <1>2
<1> HIDE DEF m, ms
<1>4. /\ Appended(m, Torn) \in ManifestType /\ Numbers(manifestNumber, Appended(m, Torn))
      /\ AllBelow(Appended(m, Torn), nextFile)
  BY <1>2, AppendedManifest, NumbersTorn
<1>5. TypedFiles(ms, ManifestType) /\ \A n \in DOMAIN ms : Numbers(n, ms[n])
  BY <1>2, <1>3, <1>4 DEF TypedFiles
<1> QED
  BY <1>1, <1>3, <1>4, <1>5, ApplyFailsKeepsFilesInv

LEMMA CompactionFailsKeepsFilesInv ==
  ASSUME DBFilesAssumption, FilesInv, CompactionFails
  PROVE  FilesInv'
<1>1. /\ compaction # None /\ flush = None /\ applying = "no"
      /\ compaction' = None /\ pending' = pending \ Outputs /\ bgError' = TRUE
      /\ tables' = tables /\ logs' = logs /\ manifests' = manifests
      /\ UNCHANGED <<current, phase, state, memtables, calls, history, nextFile, edit,
                     toRecover, flush, applying>>
  BY DEF CompactionFails, CleanupCompaction, DeleteObsoleteFiles
<1>2. phase = "open"
  BY <1>1, WorkInOpen
<1>3. Typed'
  BY <1>1 DEF FilesInv, Typed, Started
<1>4. ManifestsNumbered' /\ Closed' /\ Forgotten' /\ CurrentNamed' /\ Recovering'
  BY <1>1, <1>2 DEF FilesInv, ManifestsNumbered, Closed, Forgotten, CurrentNamed, Recovering
<1>5. Base' = {} /\ Outputs' = {} /\ Flushing' = {}
  BY <1>1 DEF Base, Outputs, Output, Flushing
<1>6. MemoryNumbered' /\ EditNumbered' /\ Present'
  BY <1>1, <1>2, <1>5 DEF FilesInv, MemoryNumbered, EditNumbered, Present
<1> QED
  BY <1>3, <1>4, <1>6 DEF FilesInv

(* Crashes.                                                                *)
LEMMA StopKeepsFilesInv ==
  ASSUME DBFilesAssumption, FilesInv, Stop,
         TypedFiles(manifests', ManifestType), ManifestsNumbered', TypedFiles(logs', LogType(Started)),
         DOMAIN manifests' = DOMAIN manifests,
         acked' \in {acked, durable}
  PROVE  FilesInv'
<1>1. /\ stops' = stops + 1 /\ phase' = "closed" /\ Forget
      /\ tables' = tables \/ tables' = Create(tables, nextFile, Torn)
      /\ UNCHANGED <<current, durable, started>>
  BY DEF Stop
<1>2. TypedFiles(tables', (SUBSET Started) \cup {Torn})
  BY <1>1, TypedCreate DEF FilesInv, Typed
<1>3. edit' \in EditType
  BY <1>1 DEF Forget, Edit, EditType
<1>4. Typed'
  <2>1. /\ stops' \in Nat /\ current' \in Nat \cup {None}
        /\ acked' \in SUBSET Started /\ durable' \in SUBSET Started
        /\ Started' = Started /\ started' \in 0 .. MaxWrites
    BY <1>1 DEF FilesInv, Typed, Started
  <2>2. /\ version' = {} /\ logNumber' = 0 /\ nextFile' = 2 /\ manifestNumber' = 0
        /\ logfile' = 0 /\ mem' = {} /\ imm' = None /\ pending' = {} /\ bgError' = FALSE
        /\ toRecover' = {} /\ writing' = None
        /\ flush' = None /\ compaction' = None /\ applying' = "no" /\ reading' = {}
    BY <1>1 DEF Forget
  <2> QED
    BY <1>1, <1>2, <1>3, <2>1, <2>2 DEF Typed
<1>5. Closed' /\ Forgotten' /\ Recovering' /\ EditNumbered' /\ Present' /\ MemoryNumbered'
  BY <1>1 DEF Forget, Closed, Forgotten, Recovering, EditNumbered, Present,
              MemoryNumbered, Base, Outputs, Output, Flushing, Edit
<1>6. CurrentNamed'
  BY <1>1 DEF FilesInv, CurrentNamed
<1> QED
  BY <1>4, <1>5, <1>6 DEF FilesInv

LEMMA CutTypes ==
  ASSUME NEW files, NEW T, NEW cut \in Cut(files),
         \A n \in DOMAIN files : Len(files[n].records) \in Nat /\ files[n].synced \in Nat
  PROVE  /\ DOMAIN Truncated(files, cut) = DOMAIN files
         /\ \A n \in DOMAIN files :
              /\ Truncated(files, cut)[n] = CutOff(files[n], cut[n])
              /\ cut[n] \in 0 .. Len(files[n].records) /\ files[n].synced <= cut[n]
<1>1. \A n \in DOMAIN files : cut[n] \in files[n].synced .. Len(files[n].records)
  BY DEF Cut
<1> QED
  BY <1>1 DEF Truncated, CutOff

LEMMA CutLog ==
  ASSUME NEW written, NEW l \in LogType(written), NEW k \in 0 .. Len(l.records)
  PROVE  CutOff(l, k) \in LogType(written)
<1>1. l.records \in Seq(written \cup {Torn}) /\ Len(l.records) \in Nat
  BY DEF LogType
<1>2. SubSeq(l.records, 1, k) \in Seq(written \cup {Torn}) /\ Len(SubSeq(l.records, 1, k)) = k
  BY <1>1
<1> QED
  BY <1>2 DEF LogType, CutOff

LEMMA CrashKeepsFilesInv ==
  ASSUME DBFilesAssumption, FilesInv, ProcessCrash \/ MachineCrash
  PROVE  FilesInv'
<1>1. CASE ProcessCrash
  <2>1. Stop /\ UNCHANGED <<manifests, logs, acked>>
    BY <1>1 DEF ProcessCrash
  <2>2. ManifestsNumbered'
    BY <2>1 DEF FilesInv, ManifestsNumbered
  <2> QED
    BY <2>1, <2>2, StopKeepsFilesInv DEF FilesInv, Typed
<1>2. CASE MachineCrash
  <2>1. /\ Stop /\ acked' = durable
        /\ \E cut \in Cut(manifests) : manifests' = Truncated(manifests, cut)
        /\ \E cut \in Cut(logs) : logs' = Truncated(logs, cut)
    BY <1>2 DEF MachineCrash
  <2>2. TypedFiles(manifests, ManifestType) /\ TypedFiles(logs, LogType(Started)) /\ ManifestsNumbered
    BY DEF FilesInv, Typed
  <2>3. /\ DOMAIN manifests' = DOMAIN manifests
        /\ \A n \in DOMAIN manifests : \E k \in 0 .. Len(manifests[n].records) :
             manifests'[n] = CutOff(manifests[n], k)
    <3>1. PICK cut \in Cut(manifests) : manifests' = Truncated(manifests, cut)
      BY <2>1
    <3> QED
      BY <3>1, <2>2, CutTypes DEF TypedFiles, ManifestType
  <2>4. /\ DOMAIN logs' = DOMAIN logs
        /\ \A n \in DOMAIN logs : \E k \in 0 .. Len(logs[n].records) :
             logs'[n] = CutOff(logs[n], k)
    <3>1. PICK cut \in Cut(logs) : logs' = Truncated(logs, cut)
      BY <2>1
    <3> QED
      BY <3>1, <2>2, CutTypes DEF TypedFiles, LogType
  <2>5. TypedFiles(manifests', ManifestType) /\ ManifestsNumbered'
    <3>1. SUFFICES ASSUME NEW n \in DOMAIN manifests
                   PROVE  manifests'[n] \in ManifestType /\ Numbers(n, manifests'[n])
      BY <2>2, <2>3 DEF TypedFiles, ManifestsNumbered
    <3>2. manifests[n] \in ManifestType /\ Numbers(n, manifests[n]) /\ n \in Nat
      BY <2>2 DEF TypedFiles, ManifestsNumbered
    <3>3. PICK k \in 0 .. Len(manifests[n].records) : manifests'[n] = CutOff(manifests[n], k)
      BY <2>3
    <3> QED
      BY <3>2, <3>3, CutManifest, NumbersCut
  <2>6. TypedFiles(logs', LogType(Started))
    <3>1. SUFFICES ASSUME NEW n \in DOMAIN logs PROVE logs'[n] \in LogType(Started)
      BY <2>2, <2>4 DEF TypedFiles
    <3>2. logs[n] \in LogType(Started)
      BY <2>2 DEF TypedFiles
    <3>3. PICK k \in 0 .. Len(logs[n].records) : logs'[n] = CutOff(logs[n], k)
      BY <2>4
    <3> QED
      BY <3>2, <3>3, CutLog
  <2> QED
    BY <2>1, <2>3, <2>5, <2>6, StopKeepsFilesInv
<1> QED
  BY <1>1, <1>2

LEMMA InitFilesInv ==
  ASSUME DBFilesAssumption, Init
  PROVE  FilesInv
<1>1. edit \in EditType /\ edit.add = {}
  BY DEF Init, Edit, EditType
<1>2. DOMAIN manifests = {} /\ DOMAIN logs = {} /\ DOMAIN tables = {}
  BY DEF Init
<1>3. Typed
  <2>1. 0 \in 0 .. MaxWrites
    BY DEF DBFilesAssumption
  <2> QED
    BY <1>1, <1>2, <2>1 DEF Init, Typed, TypedFiles
<1>4. /\ Closed /\ Forgotten /\ CurrentNamed /\ Recovering
      /\ ManifestsNumbered /\ MemoryNumbered /\ EditNumbered /\ Present
  BY <1>1, <1>2
     DEF Init, Closed, Forgotten, CurrentNamed, Recovering, ManifestsNumbered,
         MemoryNumbered, EditNumbered, Present, Base, Outputs, Output, Flushing
<1> QED
  BY <1>3, <1>4 DEF FilesInv

LEMMA StutterKeepsFilesInv ==
  ASSUME FilesInv, UNCHANGED vars
  PROVE  FilesInv'
<1>1. Typed'
  BY DEF vars, FilesInv, Typed, Started
<1>2. /\ Closed' /\ Forgotten' /\ CurrentNamed' /\ Recovering'
      /\ ManifestsNumbered' /\ MemoryNumbered' /\ EditNumbered' /\ Present'
  BY DEF vars, FilesInv, Closed, Forgotten, CurrentNamed, Recovering, ManifestsNumbered,
         MemoryNumbered, EditNumbered, Present, Base, Outputs, Output, Flushing
<1> QED
  BY <1>1, <1>2 DEF FilesInv

LEMMA NextKeepsFilesInv ==
  ASSUME DBFilesAssumption, FilesInv, [Next]_vars
  PROVE  FilesInv'
<1>1. CASE Open
  BY <1>1, NewDBKeepsFilesInv, CreateCurrentKeepsFilesInv, RecoverKeepsFilesInv,
     RecoverLogFileKeepsFilesInv, NewLogKeepsFilesInv, NewManifestKeepsFilesInv,
     SetCurrentFileKeepsFilesInv, OpenFailsKeepsFilesInv DEF Open
<1>2. CASE Background
  BY <1>2, StartFlushKeepsFilesInv, FinishFlushKeepsFilesInv, FlushFailsKeepsFilesInv,
     StartCompactionKeepsFilesInv, OpenCompactionOutputFileKeepsFilesInv,
     CompactionFailsKeepsFilesInv, FinishCompactionOutputFileKeepsFilesInv,
     LogEditKeepsFilesInv, InstallFlushKeepsFilesInv, InstallCompactionKeepsFilesInv,
     ManifestFailsKeepsFilesInv, EditTornKeepsFilesInv DEF Background
<1>3. CASE Next /\ ~Open /\ ~Background
  BY <1>3, CrashKeepsFilesInv, AddRecordKeepsFilesInv, AddRecordFailsKeepsFilesInv,
     SyncAndInsertKeepsFilesInv, SyncFailsKeepsFilesInv, SwitchMemTableKeepsFilesInv,
     ReadingKeepsFilesInv DEF Next
<1> QED
  BY <1>1, <1>2, <1>3, StutterKeepsFilesInv

THEOREM FilesAreInvariant == ASSUME DBFilesAssumption PROVE Spec => []FilesInv
<1>1. Init => FilesInv
  BY InitFilesInv
<1>2. FilesInv /\ [Next]_vars => FilesInv'
  BY NextKeepsFilesInv
<1> QED
  BY <1>1, <1>2, PTL DEF Spec

(* Whatever fails and however the program ends, the tables that a reader or *)
(* a compaction works on are not deleted under it.                         *)
THEOREM HeldTablesAreKept == ASSUME DBFilesAssumption PROVE Spec => []HeldTablesStay
<1>1. FilesInv => HeldTablesStay
  BY DEF FilesInv, Present, HeldTablesStay
<1> QED
  BY <1>1, FilesAreInvariant, PTL

-----------------------------------------------------------------------------
(* What was answered is kept, if records are written whole or not at all.  *)
WholeRecords == Faults \cap {"log", "edit"} = {}

Sound ==
  /\ \A n \in DOMAIN manifests : Whole(manifests[n], Len(manifests[n].records))
  /\ \A n \in DOMAIN logs : \A i \in 1 .. Len(logs[n].records) : logs[n].records[i] # Torn

FirstMade ==
  /\ phase = "new" => /\ current = None
                      /\ manifests[1] = [records |-> <<Edit({}, {}, 0, 2)>>, synced |-> 0]
  /\ phase = "current" =>
       manifests[manifestNumber] = [records |-> <<[edit EXCEPT !.add = @ \cup version]>>,
                                    synced |-> 1]

Kinds == {"process", "machine"}

(* The writes that a crash of the kind must not lose; the records of a log *)
(* that it leaves.                                                         *)
Answered(kind) == IF kind = "process" THEN acked ELSE durable

Survives(l, kind) ==
  {l.records[i] : i \in 1 .. (IF kind = "process" THEN Len(l.records) ELSE l.synced)}

InTables(files) == {w \in Started : \E n \in files : tables[n] # Torn /\ w \in tables[n]}

InLogs(kind, n) ==
  {w \in Started : \E f \in DOMAIN logs : f >= n /\ w \in Survives(logs[f], kind)}

Good(files) == \A n \in files : n \in DOMAIN tables /\ tables[n] # Torn

(* Tables and logs from a number on hold all that must not be lost.        *)
Safe(files, log) ==
  /\ Good(files)
  /\ \A kind \in Kinds : Answered(kind) \subseteq InTables(files) \cup InLogs(kind, log)

(* The places where a crash may cut off the manifest that CURRENT names.   *)
Descr == manifests[current]

Cuts == Descr.synced .. Len(Descr.records)

DiskOK ==
  /\ durable \subseteq acked
  /\ current = None => acked = {}
  /\ current # None =>
       /\ Descr.synced = 0 => acked = {}
       /\ \A c \in Cuts : c > 0 => Safe(FilesAt(Descr, c), Descr.records[c].log)

RecoveringOK ==
  phase \in {"logs", "manifest", "current"} =>
    /\ Len(Descr.records) >= 1
    /\ \A c \in Cuts : c > 0 => FilesAt(Descr, c) \subseteq Below(nextFile)
    /\ Good(version \cup edit.add)
    /\ \A kind \in Kinds : Answered(kind) \subseteq
         InTables(version \cup edit.add) \cup UNION {Survives(logs[n], kind) : n \in toRecover}
    /\ phase = "logs" => \A n \in DOMAIN logs : n \in toRecover \/ n < nextFile
    /\ phase # "logs" =>
         /\ logfile \in DOMAIN logs /\ edit.log = logfile
         /\ \A n \in DOMAIN logs : n < nextFile

Memory == mem \cup (IF imm = None THEN {} ELSE imm)

OpenOK ==
  phase = "open" =>
    /\ Descr.synced >= 1
    /\ logfile \in DOMAIN logs /\ \A n \in DOMAIN logs : n < nextFile
    /\ \A c \in Cuts :
         /\ logNumber <= Descr.records[c].log /\ Descr.records[c].log <= logfile
         /\ acked \subseteq InTables(FilesAt(Descr, c)) \cup Memory
    /\ ~bgError =>
         /\ Descr.synced = IF applying = "logged" THEN Len(Descr.records) - 1
                                                  ELSE Len(Descr.records)
         /\ FilesAt(Descr, Descr.synced) = version
    /\ applying = "logged" =>
         Descr.records[Len(Descr.records)] = edit /\ Descr.synced < Len(Descr.records)
    /\ Good(version)
    /\ acked \subseteq InTables(version) \cup Memory
    /\ \A kind \in Kinds : Answered(kind) \cap mem \subseteq Survives(logs[logfile], kind)
    /\ writing # None =>
         writing.id \notin acked /\ writing.id \in Survives(logs[logfile], "process")

FlushOK ==
  flush # None =>
    /\ applying = "no" => \A c \in Cuts : flush \notin FilesAt(Descr, c)
    /\ applying # "no" =>
         /\ edit.del = {} /\ edit.log = logfile
         /\ edit.add = IF imm = {} THEN {} ELSE {flush}
         /\ imm # {} => tables[flush] = imm

MergeOK ==
  /\ compaction # None =>
       /\ Good(compaction.base) /\ Good(compaction.done)
       /\ compaction.inputs \subseteq compaction.base
       /\ InTables(compaction.inputs) \subseteq InTables(compaction.done) \cup compaction.left
       /\ compaction.output # None =>
            /\ compaction.output \notin version \cup reading \cup edit.add \cup compaction.base
                                          \cup compaction.done
            /\ \A c \in Cuts : compaction.output \notin FilesAt(Descr, c)
  /\ applying # "no" /\ flush = None =>
       /\ compaction # None /\ compaction.output = None /\ compaction.left = {}
       /\ edit.del = compaction.inputs /\ edit.add = compaction.done /\ edit.log = logNumber

AnswersInv ==
  Sound /\ FirstMade /\ DiskOK /\ RecoveringOK /\ OpenOK /\ FlushOK /\ MergeOK

(* What is in tables and logs, in the words of the model.                  *)
LEMMA StoredInTables ==
  ASSUME FilesInv, NEW files, files \subseteq DOMAIN tables
  PROVE  Stored(files) = InTables(files)
<1>1. Stored(files) \subseteq Started
  BY StoredIsStarted DEF FilesInv, Typed
<1> QED
  BY <1>1 DEF Stored, InTables

LEMMA SurvivesWhole ==
  ASSUME FilesInv, Sound, NEW n \in DOMAIN logs
  PROVE  /\ Read(logs[n]) = Survives(logs[n], "process")
         /\ Survives(logs[n], "machine") \subseteq Survives(logs[n], "process")
         /\ Survives(logs[n], "process") \subseteq Started
         /\ Len(logs[n].records) \in Nat /\ logs[n].synced \in Nat
         /\ logs[n].synced <= Len(logs[n].records)
<1> DEFINE l == logs[n]
<1>1. /\ l.records \in Seq(Started \cup {Torn}) /\ Len(l.records) \in Nat
      /\ l.synced \in Nat /\ l.synced <= Len(l.records)
  BY DEF FilesInv, Typed, TypedFiles, LogType
<1>2. \A i \in 1 .. Len(l.records) : l.records[i] \in Started
  BY <1>1 DEF Sound
<1>3. \A i \in 1 .. Len(l.records) : l.records[i] # Torn
  BY DEF Sound
<1>4. DOMAIN l.records = 1 .. Len(l.records)
  BY <1>1
<1> HIDE DEF l
<1>5. Read(l) = Survives(l, "process")
  <2>1. \A i \in 1 .. Len(l.records) : \A k \in 1 .. i : l.records[k] # Torn
    BY <1>1, <1>3
  <2> QED
    BY <1>4, <2>1 DEF Read, Survives
<1>6. Survives(l, "machine") \subseteq Survives(l, "process")
  BY <1>1 DEF Survives
<1>7. Survives(l, "process") \subseteq Started
  BY <1>2 DEF Survives
<1> QED
  BY <1>1, <1>5, <1>6, <1>7 DEF l

(* The manifest that CURRENT names.                                        *)
LEMMA DescrTyped ==
  ASSUME FilesInv, Sound, current # None
  PROVE  /\ Descr \in ManifestType /\ Descr.synced \in Nat /\ Len(Descr.records) \in Nat
         /\ Descr.synced <= Len(Descr.records)
         /\ Cuts \subseteq 0 .. Len(Descr.records)
         /\ Len(Descr.records) \in Cuts
         /\ \A c \in 0 .. Len(Descr.records) : Whole(Descr, c)
         /\ \A c \in 1 .. Len(Descr.records) :
              Descr.records[c] \in EditType /\ Descr.records[c].log \in Nat
         /\ current \in DOMAIN manifests
<1>1. Descr \in ManifestType /\ Whole(Descr, Len(Descr.records)) /\ current \in DOMAIN manifests
  BY DEF FilesInv, CurrentNamed, Typed, TypedFiles, Sound, Descr
<1>2. /\ Descr.synced \in Nat /\ Len(Descr.records) \in Nat
      /\ Descr.synced <= Len(Descr.records)
      /\ Descr.records \in Seq(EditType \cup {Torn})
  BY <1>1 DEF ManifestType
<1>3. \A c \in 0 .. Len(Descr.records) : Whole(Descr, c)
  BY <1>1, <1>2 DEF Whole
<1>4. \A c \in 1 .. Len(Descr.records) : Descr.records[c] \in EditType
  BY <1>1, <1>2 DEF Whole
<1>5. Cuts \subseteq 0 .. Len(Descr.records) /\ Len(Descr.records) \in Cuts
  BY <1>2 DEF Cuts
<1> QED
  BY <1>1, <1>2, <1>3, <1>4, <1>5 DEF EditType

(* All of its edits are read.                                              *)
LEMMA DescrRead ==
  ASSUME FilesInv, Sound, current # None, Len(Descr.records) >= 1
  PROVE  /\ Edits(Descr) # <<>> /\ \A i \in DOMAIN Edits(Descr) : Descr.records[i] # Torn
         /\ Files(Edits(Descr)) = FilesAt(Descr, Len(Descr.records))
         /\ Last(Edits(Descr)) = Descr.records[Len(Descr.records)]
<1>1. /\ Descr \in ManifestType /\ Len(Descr.records) \in Nat
      /\ Whole(Descr, Len(Descr.records))
      /\ Descr.records \in Seq(EditType \cup {Torn})
  <2>1. Descr \in ManifestType /\ Len(Descr.records) \in Nat
    BY DescrTyped
  <2>2. Len(Descr.records) \in 0 .. Len(Descr.records)
    BY <2>1
  <2> QED
    BY <2>1, <2>2, DescrTyped DEF ManifestType
<1>2. Edits(Descr) = Descr.records /\ Descr.records # <<>>
  <2>1. Descr.records[Len(Descr.records)] # Torn
    BY <1>1 DEF Whole
  <2> QED
    BY <1>1, <2>1 DEF Edits, Last
<1>3. \A i \in DOMAIN Edits(Descr) : Descr.records[i] # Torn
  BY <1>1, <1>2 DEF Whole
<1>4. PICK d \in 1 .. Len(Descr.records) :
        /\ Files(Edits(Descr)) = FilesAt(Descr, d)
        /\ Last(Edits(Descr)) = Descr.records[d]
        /\ d = Len(Descr.records)
  BY <1>1, <1>2, <1>3, ReadableManifest
<1> QED
  BY <1>2, <1>3, <1>4

LEMMA AnswersAreRecoverable ==
  ASSUME FilesInv, AnswersInv
  PROVE  NothingLost
<1>1. CASE current = None
  BY <1>1 DEF AnswersInv, DiskOK, NothingLost
<1>2. CASE current # None
  <2> DEFINE n == Len(Descr.records)
  <2>1. /\ n \in Nat /\ n \in Cuts /\ Descr.synced <= n /\ Descr.synced \in Nat
        /\ n > 0 => Descr.records[n].log \in Nat
    BY <1>2, DescrTyped DEF AnswersInv
  <2>2. CASE n = 0
    BY <1>2, <2>1, <2>2 DEF AnswersInv, DiskOK, NothingLost
  <2>3. CASE n # 0
    <3>1. n > 0 /\ n >= 1
      <4> HIDE DEF n
      <4> QED
        BY <2>1, <2>3
    <3>2. PICK files, log : files = FilesAt(Descr, n) /\ log = Descr.records[n].log
      OBVIOUS
    <3>3. Safe(files, log) /\ log \in Nat
      BY <1>2, <2>1, <3>1, <3>2 DEF AnswersInv, DiskOK
    <3>4. /\ Edits(Descr) # <<>> /\ \A i \in DOMAIN Edits(Descr) : Descr.records[i] # Torn
          /\ Files(Edits(Descr)) = files /\ Last(Edits(Descr)).log = log
      BY <1>2, <3>1, <3>2, DescrRead DEF AnswersInv
    <3>5. files \subseteq DOMAIN tables
      BY <3>3 DEF Safe, Good
    <3>6. Readable(Descr)
      BY <3>4, <3>5 DEF Readable
    <3>7. Recoverable = Stored(files) \cup UNION {Read(logs[f]) : f \in {l \in DOMAIN logs : l >= log}}
      BY <1>2, <3>4, <3>6 DEF Recoverable, Descr
    <3>8. Stored(files) = InTables(files)
      BY <3>5, StoredInTables
    <3>9. InLogs("process", log) \subseteq
             UNION {Read(logs[f]) : f \in {l \in DOMAIN logs : l >= log}}
      <4>1. \A f \in DOMAIN logs : Read(logs[f]) = Survives(logs[f], "process")
        BY SurvivesWhole DEF AnswersInv
      <4> QED
        BY <4>1 DEF InLogs
    <3>10. acked \subseteq InTables(files) \cup InLogs("process", log)
      BY <3>3 DEF Safe, Kinds, Answered
    <3> QED
      BY <3>7, <3>8, <3>9, <3>10 DEF NothingLost
  <2> QED
    BY <2>2, <2>3
<1> QED
  BY <1>1, <1>2

LEMMA AnswersAreShown ==
  ASSUME FilesInv, AnswersInv
  PROVE  NothingHidden
<1> SUFFICES ASSUME phase = "open"
             PROVE  /\ version \subseteq {n \in DOMAIN tables : tables[n] # Torn}
                    /\ acked \subseteq Stored(version) \cup mem
                                 \cup (IF imm = None THEN {} ELSE imm)
  BY DEF NothingHidden
<1>1. Good(version) /\ acked \subseteq InTables(version) \cup Memory
  BY DEF AnswersInv, OpenOK
<1>2. Stored(version) = InTables(version)
  BY <1>1, StoredInTables DEF Good
<1> QED
  BY <1>1, <1>2 DEF Good, Memory

(* What a step leaves: tables as they were, logs with no record less.      *)
TablesStay(files) == \A n \in files : n \in DOMAIN tables' /\ tables'[n] = tables[n]

Grown(l, m) ==
  /\ Len(l.records) <= Len(m.records) /\ l.synced <= m.synced
  /\ \A i \in 1 .. Len(l.records) : m.records[i] = l.records[i]

LogsGrow(log) ==
  \A n \in DOMAIN logs : n >= log => n \in DOMAIN logs' /\ Grown(logs[n], logs'[n])

LEMMA GrownSurvives ==
  ASSUME NEW S, NEW T, NEW l \in LogType(S), NEW m \in LogType(T), Grown(l, m)
  PROVE  /\ \A kind : Survives(l, kind) \subseteq Survives(m, kind)
         /\ IsPrefix(l.records, m.records)
<1>1. /\ Len(l.records) \in Nat /\ l.synced \in Nat /\ l.synced <= Len(l.records)
      /\ Len(m.records) \in Nat /\ m.synced \in Nat /\ m.synced <= Len(m.records)
      /\ l.records \in Seq(S \cup {Torn}) /\ m.records \in Seq(T \cup {Torn})
  BY DEF LogType
<1>2. /\ Len(l.records) <= Len(m.records) /\ l.synced <= m.synced
      /\ \A i \in 1 .. Len(l.records) : m.records[i] = l.records[i]
  BY DEF Grown
<1>3. ASSUME NEW kind PROVE Survives(l, kind) \subseteq Survives(m, kind)
  <2>1. PICK a : a = IF kind = "process" THEN Len(l.records) ELSE l.synced
    OBVIOUS
  <2>2. PICK b : b = IF kind = "process" THEN Len(m.records) ELSE m.synced
    OBVIOUS
  <2>3. a \in Nat /\ b \in Nat /\ a <= b /\ a <= Len(l.records)
    BY <1>1, <1>2, <2>1, <2>2
  <2>4. \A i \in 1 .. a : i \in 1 .. b /\ m.records[i] = l.records[i]
    BY <1>1, <1>2, <2>3
  <2>5. /\ Survives(l, kind) = {l.records[i] : i \in 1 .. a}
        /\ Survives(m, kind) = {m.records[i] : i \in 1 .. b}
    BY <2>1, <2>2 DEF Survives
  <2> QED
    BY <2>4, <2>5
<1>4. IsPrefix(l.records, m.records)
  <2>1. SubSeq(l.records, 1, Len(l.records)) = SubSeq(m.records, 1, Len(l.records))
    <3>1. PICK n : n = Len(l.records)
      OBVIOUS
    <3>2. /\ n \in Nat /\ n <= Len(m.records) /\ n = Len(l.records)
          /\ \A i \in 1 .. n : m.records[i] = l.records[i]
      BY <1>1, <1>2, <3>1
    <3>3. SubSeq(l.records, 1, n) = [i \in 1 .. n |-> l.records[i]]
      BY <1>1, <3>2
    <3>4. SubSeq(m.records, 1, n) = [i \in 1 .. n |-> m.records[i]]
      BY <1>1, <3>2
    <3> QED
      BY <3>1, <3>2, <3>3, <3>4
  <2> QED
    BY <1>2, <2>1 DEF IsPrefix
<1> QED
  BY <1>3, <1>4

LEMMA GrownItself ==
  ASSUME NEW S, NEW l \in LogType(S)
  PROVE  Grown(l, l)
<1>1. Len(l.records) \in Nat /\ l.synced \in Nat
  BY DEF LogType
<1> QED
  BY <1>1 DEF Grown

(* Logs that stay grow.                                                    *)
LEMMA LogsStay ==
  ASSUME FilesInv, NEW log, \A n \in DOMAIN logs : n >= log => n \in DOMAIN logs' /\ logs'[n] = logs[n]
  PROVE  LogsGrow(log)
<1>1. \A n \in DOMAIN logs : Grown(logs[n], logs[n])
  BY GrownItself DEF FilesInv, Typed, TypedFiles
<1> QED
  BY <1>1 DEF LogsGrow

LEMMA TablesKeep ==
  ASSUME NEW files, TablesStay(files), Started \subseteq Started'
  PROVE  /\ Good(files) => Good(files)'
         /\ InTables(files) \subseteq InTables(files)'
BY DEF TablesStay, Good, InTables

LEMMA LogsKeep ==
  ASSUME FilesInv, FilesInv', NEW log, LogsGrow(log), Started \subseteq Started', NEW kind
  PROVE  InLogs(kind, log) \subseteq InLogs(kind, log)'
<1>1. ASSUME NEW f \in DOMAIN logs, f >= log
      PROVE  f \in DOMAIN logs' /\ Survives(logs[f], kind) \subseteq Survives(logs'[f], kind)
  <2>1. f \in DOMAIN logs' /\ Grown(logs[f], logs'[f])
    BY <1>1 DEF LogsGrow
  <2>2. logs[f] \in LogType(Started) /\ logs'[f] \in LogType(Started')
    BY <2>1 DEF FilesInv, Typed, TypedFiles
  <2> QED
    BY <2>1, <2>2, GrownSurvives
<1> QED
  BY <1>1 DEF InLogs

LEMMA SafeKept ==
  ASSUME FilesInv, FilesInv', NEW files, NEW log, Safe(files, log),
         TablesStay(files), LogsGrow(log),
         Started \subseteq Started', acked' \subseteq acked, durable' \subseteq durable
  PROVE  Safe(files, log)'
<1>1. Good(files)'
  BY TablesKeep DEF Safe
<1>2. ASSUME NEW kind \in Kinds
      PROVE  Answered(kind)' \subseteq (InTables(files) \cup InLogs(kind, log))'
  <2>1. Answered(kind)' \subseteq Answered(kind)
    BY DEF Answered
  <2>2. Answered(kind) \subseteq InTables(files) \cup InLogs(kind, log)
    BY DEF Safe
  <2>3. InLogs(kind, log) \subseteq InLogs(kind, log)'
    BY LogsKeep
  <2>4. InTables(files) \subseteq InTables(files)'
    BY TablesKeep
  <2> QED
    BY <2>1, <2>2, <2>3, <2>4
<1> QED
  BY <1>1, <1>2 DEF Safe

(* A step that does not touch what the descriptor needs.                   *)
LEMMA DiskKept ==
  ASSUME FilesInv, AnswersInv, FilesInv',
         Started \subseteq Started', UNCHANGED <<current, acked, durable>>,
         current # None => manifests'[current] = manifests[current],
         \A c \in Cuts : c > 0 =>
           TablesStay(FilesAt(Descr, c)) /\ LogsGrow(Descr.records[c].log)
  PROVE  DiskOK'
<1>1. CASE current = None
  BY <1>1 DEF AnswersInv, DiskOK
<1>2. CASE current # None
  <2>1. Descr' = Descr /\ Cuts' = Cuts
    BY <1>2 DEF Descr, Cuts
  <2>2. ASSUME NEW c \in Cuts, c > 0
        PROVE  Safe(FilesAt(Descr, c), Descr.records[c].log)'
    <3>1. PICK files, log : files = FilesAt(Descr, c) /\ log = Descr.records[c].log
      OBVIOUS
    <3>2. Safe(files, log)
      BY <1>2, <2>2, <3>1 DEF AnswersInv, DiskOK
    <3>3. Safe(files, log)'
      BY <2>2, <3>1, <3>2, SafeKept
    <3>4. (FilesAt(Descr, c))' = files /\ (Descr.records[c].log)' = log
      BY <2>1, <3>1 DEF FilesAt
    <3> QED
      BY <3>3, <3>4 DEF Safe
  <2> QED
    BY <1>2, <2>1, <2>2 DEF AnswersInv, DiskOK
<1> QED
  BY <1>1, <1>2

(* A step keeps what both the descriptor before and that after it need.    *)
NeededStay ==
  current # None /\ phase' # "closed" =>
    /\ Len(Descr.records) >= 1 /\ Len(Descr'.records) >= 1 /\ current' # None
    /\ TablesStay(FilesAt(Descr, Len(Descr.records)) \cap FilesAt(Descr', Len(Descr'.records)))
    /\ \A n \in DOMAIN logs :
         n >= Descr.records[Len(Descr.records)].log
           /\ n >= Descr'.records[Len(Descr'.records)].log =>
         n \in DOMAIN logs' /\ Grown(logs[n], logs'[n])

LEMMA NeededFiles ==
  ASSUME FilesInv, AnswersInv, FilesInv', Sound', NeededStay
  PROVE  KeepsNeededFiles
<1> SUFFICES ASSUME current # None, phase' # "closed"
    PROVE
      LET before == Edits(manifests[current])
          after  == Edits(manifests'[current'])
      IN  /\ \A n \in Files(before) \cap Files(after) :
               n \in DOMAIN tables' /\ tables'[n] = tables[n]
          /\ \A n \in NotOlder(logs, Max({Last(before).log, Last(after).log})) :
               n \in DOMAIN logs' /\ IsPrefix(logs[n].records, logs'[n].records)
  BY DEF KeepsNeededFiles
<1> DEFINE a == Last(Edits(Descr)).log
           b == Last(Edits(Descr')).log
<1>1. /\ Files(Edits(Descr)) = FilesAt(Descr, Len(Descr.records))
      /\ Last(Edits(Descr)) = Descr.records[Len(Descr.records)]
      /\ a \in Nat
  <2>1. Len(Descr.records) >= 1
    BY DEF NeededStay
  <2>2. Descr.records[Len(Descr.records)].log \in Nat
    BY <2>1, DescrTyped DEF AnswersInv
  <2> QED
    BY <2>1, <2>2, DescrRead DEF AnswersInv
<1>2. /\ Files(Edits(Descr')) = FilesAt(Descr', Len(Descr'.records))
      /\ Last(Edits(Descr')) = Descr'.records[Len(Descr'.records)]
      /\ b \in Nat
  <2>1. Len(Descr'.records) >= 1 /\ current' # None
    BY DEF NeededStay
  <2>2. Descr' \in ManifestType /\ Whole(Descr', Len(Descr'.records))
    BY <2>1 DEF FilesInv, CurrentNamed, Typed, TypedFiles, Sound, Descr
  <2>3. /\ Descr'.records \in Seq(EditType \cup {Torn}) /\ Len(Descr'.records) \in Nat
        /\ Len(Descr'.records) \in 1 .. Len(Descr'.records)
    BY <2>1, <2>2 DEF ManifestType
  <2>4. Edits(Descr') = Descr'.records /\ Edits(Descr') # <<>>
    <3>1. Descr'.records[Len(Descr'.records)] # Torn
      BY <2>2, <2>3 DEF Whole
    <3> QED
      BY <2>3, <3>1 DEF Edits, Last
  <2>5. \A i \in DOMAIN Edits(Descr') : Descr'.records[i] # Torn
    BY <2>2, <2>3, <2>4 DEF Whole
  <2>6. PICK d \in 1 .. Len(Descr'.records) :
          /\ Files(Edits(Descr')) = FilesAt(Descr', d)
          /\ Last(Edits(Descr')) = Descr'.records[d]
          /\ Descr'.records[d] \in EditType
          /\ d = Len(Descr'.records)
    BY <2>2, <2>4, <2>5, ReadableManifest
  <2> QED
    BY <2>6 DEF EditType
<1>3. Descr = manifests[current] /\ Descr' = manifests'[current']
  BY DEF Descr
<1>4. \A n \in Files(Edits(Descr)) \cap Files(Edits(Descr')) :
         n \in DOMAIN tables' /\ tables'[n] = tables[n]
  BY <1>1, <1>2 DEF NeededStay, TablesStay
<1>5. Max({a, b}) \in Nat /\ a <= Max({a, b}) /\ b <= Max({a, b})
  <2> HIDE DEF a, b
  <2>1. \E x \in {a, b} : \A y \in {a, b} : x >= y
    BY <1>1, <1>2
  <2>2. Max({a, b}) \in {a, b} /\ \A y \in {a, b} : Max({a, b}) >= y
    BY <2>1 DEF Max
  <2> QED
    BY <2>2, <1>1, <1>2
<1>6. ASSUME NEW n \in DOMAIN logs, n >= Max({a, b})
      PROVE  n \in DOMAIN logs' /\ IsPrefix(logs[n].records, logs'[n].records)
  <2>1. n \in Nat
    BY DEF FilesInv, Typed, TypedFiles
  <2>2. n >= a /\ n >= b
    <3> HIDE DEF a, b
    <3> QED
      BY <1>1, <1>2, <1>5, <1>6, <2>1
  <2>3. n \in DOMAIN logs' /\ Grown(logs[n], logs'[n])
    BY <1>1, <1>2, <2>2 DEF NeededStay
  <2>4. logs[n] \in LogType(Started) /\ logs'[n] \in LogType(Started')
    BY <2>3 DEF FilesInv, Typed, TypedFiles
  <2> QED
    BY <2>3, <2>4, GrownSurvives
<1> QED
  BY <1>3, <1>4, <1>6 DEF NotOlder

(* The descriptor of an open database.                                     *)
LEMMA OpenCuts ==
  ASSUME DBFilesAssumption, FilesInv, AnswersInv, phase = "open"
  PROVE  /\ current # None /\ current = manifestNumber
         /\ Len(Descr.records) \in Nat /\ Len(Descr.records) >= 1
         /\ Descr.synced \in Nat /\ Descr.synced >= 1
         /\ Len(Descr.records) \in Cuts /\ Cuts \subseteq 1 .. Len(Descr.records)
         /\ \A c \in Cuts :
              /\ c > 0 /\ Descr.records[c].log \in Nat
              /\ Safe(FilesAt(Descr, c), Descr.records[c].log)
              /\ Good(FilesAt(Descr, c))
              /\ FilesAt(Descr, c) \subseteq Below(nextFile)
              /\ nextFile \notin FilesAt(Descr, c)
<1>1. current # None /\ current = manifestNumber /\ nextFile \in Nat
  BY DEF FilesInv, CurrentNamed, Typed, DBFilesAssumption, MemoryNumbered
<1>2. /\ Descr.synced \in Nat /\ Len(Descr.records) \in Nat
      /\ Descr.synced <= Len(Descr.records) /\ Descr.synced >= 1
      /\ Len(Descr.records) \in Cuts
      /\ \A c \in 1 .. Len(Descr.records) : Descr.records[c].log \in Nat
      /\ \A c \in 0 .. Len(Descr.records) : Whole(Descr, c)
  BY <1>1, DescrTyped DEF AnswersInv, OpenOK
<1>3. Cuts \subseteq 1 .. Len(Descr.records)
  BY <1>2 DEF Cuts
<1>4. Len(Descr.records) >= 1
  BY <1>2
<1>5. AllBelow(Descr, nextFile)
  BY <1>1 DEF FilesInv, MemoryNumbered, Descr
<1>6. ASSUME NEW c \in Cuts
      PROVE  /\ c > 0 /\ Descr.records[c].log \in Nat
             /\ Safe(FilesAt(Descr, c), Descr.records[c].log)
             /\ Good(FilesAt(Descr, c))
             /\ FilesAt(Descr, c) \subseteq Below(nextFile)
             /\ nextFile \notin FilesAt(Descr, c)
  <2>1. c \in 1 .. Len(Descr.records) /\ c \in 0 .. Len(Descr.records) /\ c > 0
    BY <1>2, <1>3
  <2>2. Safe(FilesAt(Descr, c), Descr.records[c].log)
    BY <1>1, <2>1 DEF AnswersInv, DiskOK
  <2>3. FilesAt(Descr, c) \subseteq Below(nextFile)
    BY <1>2, <1>5, <2>1 DEF AllBelow
  <2>4. nextFile \notin Below(nextFile)
    BY <1>1 DEF Below
  <2> QED
    BY <1>2, <2>1, <2>2, <2>3, <2>4 DEF Safe
<1> QED
  BY <1>1, <1>2, <1>3, <1>4, <1>6

(* A step of the open database that changes at most one table, which is    *)
(* not live and not in the descriptor, and nothing about what is in memory *)
(* and in the logs.                                                        *)
LEMMA OpenKept ==
  ASSUME DBFilesAssumption, FilesInv, AnswersInv, FilesInv', phase = "open", NEW x,
         \A c \in Cuts : x \notin FilesAt(Descr, c), x \notin version,
         \A n \in DOMAIN tables : n # x => n \in DOMAIN tables' /\ tables'[n] = tables[n],
         UNCHANGED <<current, manifests, logs, phase, version, logNumber, logfile,
                     mem, imm, acked, durable, started>>,
         nextFile' = nextFile \/ nextFile' = nextFile + 1,
         writing' \in {writing, None},
         bgError' \in {bgError, TRUE},
         \/ applying' = applying /\ edit' = edit
         \/ applying' # "logged" /\ (applying # "logged" \/ bgError' = TRUE)
  PROVE  /\ Sound' /\ FirstMade' /\ DiskOK' /\ RecoveringOK' /\ OpenOK' /\ KeepsNeededFiles
         /\ Descr' = Descr /\ Cuts' = Cuts
<1>1. Descr' = Descr /\ Cuts' = Cuts /\ Started' = Started
  BY DEF Descr, Cuts, Started
<1>2. Sound' /\ FirstMade' /\ RecoveringOK'
  BY DEF AnswersInv, Sound, FirstMade, RecoveringOK
<1>3. \A c \in Cuts : TablesStay(FilesAt(Descr, c))
  BY OpenCuts DEF TablesStay, Good
<1>4. TablesStay(version)
  BY DEF AnswersInv, OpenOK, TablesStay, Good
<1>5. \A log : LogsGrow(log)
  BY LogsStay
<1>6. DiskOK'
  BY <1>1, <1>3, <1>5, DiskKept
<1>7. KeepsNeededFiles
  <2>1. NeededStay
    <3>1. \A n \in DOMAIN logs : Grown(logs[n], logs[n])
      BY GrownItself DEF FilesInv, Typed, TypedFiles
    <3>2. /\ Len(Descr.records) >= 1 /\ current # None
          /\ TablesStay(FilesAt(Descr, Len(Descr.records)))
      BY <1>3, OpenCuts
    <3> QED
      BY <1>1, <3>1, <3>2 DEF NeededStay, TablesStay
  <2> QED
    BY <1>2, <2>1, NeededFiles
<1>8. OpenOK'
  <2>1. Good(version)' /\ InTables(version) \subseteq InTables(version)'
    <3>1. PICK v : v = version
      OBVIOUS
    <3>2. Good(v) /\ TablesStay(v) /\ version' = v
      BY <1>4, <3>1 DEF AnswersInv, OpenOK
    <3>3. Good(v)' /\ InTables(v) \subseteq InTables(v)'
      BY <1>1, <3>2, TablesKeep
    <3> QED
      BY <3>1, <3>2, <3>3 DEF Good, InTables
  <2>2. ASSUME NEW c \in Cuts
        PROVE  InTables(FilesAt(Descr, c)) \subseteq (InTables(FilesAt(Descr, c)))'
    <3>1. PICK v : v = FilesAt(Descr, c)
      OBVIOUS
    <3>2. TablesStay(v) /\ (FilesAt(Descr, c))' = v
      BY <1>1, <1>3, <3>1 DEF FilesAt
    <3>3. InTables(v) \subseteq InTables(v)'
      BY <1>1, <3>2, TablesKeep
    <3> QED
      BY <3>1, <3>2, <3>3 DEF InTables
  <2>3. Memory' = Memory
    BY DEF Memory
  <2>4. \A n \in DOMAIN logs' : n < nextFile'
    <3>1. nextFile \in Nat /\ DOMAIN logs \subseteq Nat /\ \A n \in DOMAIN logs : n < nextFile
      BY DEF FilesInv, Typed, TypedFiles, AnswersInv, OpenOK
    <3> QED
      BY <3>1
  <2>5. \A c \in Cuts' :
         /\ logNumber' <= Descr'.records[c].log /\ Descr'.records[c].log <= logfile'
         /\ acked' \subseteq (InTables(FilesAt(Descr, c)))' \cup Memory'
    BY <1>1, <2>2, <2>3 DEF AnswersInv, OpenOK
  <2>6. /\ ~bgError' =>
             /\ Descr'.synced = IF applying' = "logged" THEN Len(Descr'.records) - 1
                                                        ELSE Len(Descr'.records)
             /\ FilesAt(Descr', Descr'.synced) = version'
        /\ applying' = "logged" =>
             Descr'.records[Len(Descr'.records)] = edit' /\ Descr'.synced < Len(Descr'.records)
    BY <1>1 DEF AnswersInv, OpenOK
  <2>7. \A kind \in Kinds : (Answered(kind) \cap mem \subseteq Survives(logs[logfile], kind))'
    BY DEF AnswersInv, OpenOK, Answered
  <2>8. writing' # None =>
          writing'.id \notin acked' /\ writing'.id \in Survives(logs'[logfile'], "process")
    BY DEF AnswersInv, OpenOK
  <2>9. acked' \subseteq InTables(version)' \cup Memory'
    BY <2>1, <2>3 DEF AnswersInv, OpenOK
  <2>10. Descr'.synced >= 1 /\ logfile' \in DOMAIN logs'
    BY <1>1 DEF AnswersInv, OpenOK
  <2> QED
    BY <1>1, <2>1, <2>4, <2>5, <2>6, <2>7, <2>8, <2>9, <2>10 DEF OpenOK
<1> QED
  BY <1>1, <1>2, <1>6, <1>7, <1>8

(* The steps that start and end a compaction's and a flush's files, and    *)
(* those of readers.                                                       *)
LEMMA ReadingKeepsAnswers ==
  ASSUME DBFilesAssumption, FilesInv, AnswersInv, FilesInv', StartRead \/ EndRead
  PROVE  AnswersInv' /\ KeepsNeededFiles
<1>1. /\ reading' \in {{}, version} /\ phase = "open"
      /\ UNCHANGED <<disk, phase, state, memtables, work, history, nextFile,
                     bgError, edit, toRecover, writing>>
  BY DEF StartRead, EndRead, FilesInv, Closed
<1>2. nextFile \notin version
  BY <1>1 DEF FilesInv, MemoryNumbered, Below, Typed
<1>3. /\ Sound' /\ FirstMade' /\ DiskOK' /\ RecoveringOK' /\ OpenOK' /\ KeepsNeededFiles
      /\ Descr' = Descr /\ Cuts' = Cuts
  <2>1. \A c \in Cuts : nextFile \notin FilesAt(Descr, c)
    BY <1>1, OpenCuts
  <2> QED
    BY <1>1, <1>2, <2>1, OpenKept
<1>4. FlushOK' /\ MergeOK'
  <2>1. Started' = Started /\ \A files : Good(files)' = Good(files) /\ InTables(files)' = InTables(files)
    BY <1>1 DEF Good, InTables, Started
  <2> QED
    BY <1>1, <1>3, <2>1 DEF AnswersInv, FlushOK, MergeOK, FilesAt
<1> QED
  BY <1>3, <1>4 DEF AnswersInv

LEMMA SyncFailsKeepsAnswers ==
  ASSUME DBFilesAssumption, FilesInv, AnswersInv, FilesInv', SyncFails
  PROVE  AnswersInv' /\ KeepsNeededFiles
<1>1. /\ writing # None /\ bgError' = TRUE /\ writing' = None
      /\ UNCHANGED <<disk, phase, state, memtables, work, history, nextFile,
                     edit, toRecover, reading>>
  BY DEF SyncFails
<1>2. phase = "open"
  BY <1>1 DEF FilesInv, Closed
<1>3. nextFile \notin version
  BY <1>2 DEF FilesInv, MemoryNumbered, Below, Typed
<1>4. /\ Sound' /\ FirstMade' /\ DiskOK' /\ RecoveringOK' /\ OpenOK' /\ KeepsNeededFiles
      /\ Descr' = Descr /\ Cuts' = Cuts
  <2>1. \A c \in Cuts : nextFile \notin FilesAt(Descr, c)
    BY <1>2, OpenCuts
  <2> QED
    BY <1>1, <1>2, <1>3, <2>1, OpenKept
<1>5. FlushOK' /\ MergeOK'
  <2>1. Started' = Started /\ \A files : Good(files)' = Good(files) /\ InTables(files)' = InTables(files)
    BY <1>1 DEF Good, InTables, Started
  <2> QED
    BY <1>1, <1>4, <2>1 DEF AnswersInv, FlushOK, MergeOK, FilesAt
<1> QED
  BY <1>4, <1>5 DEF AnswersInv

LEMMA OthersStay ==
  ASSUME NEW x, \A n \in DOMAIN tables : n # x => n \in DOMAIN tables' /\ tables'[n] = tables[n],
         Started' = Started, NEW files, x \notin files, Good(files)
  PROVE  Good(files)' /\ InTables(files)' = InTables(files)
BY DEF Good, InTables

LEMMA CompactionOthersStay ==
  ASSUME FilesInv, AnswersInv, compaction # None,
         NEW x, \A n \in DOMAIN tables : n # x => n \in DOMAIN tables' /\ tables'[n] = tables[n],
         Started' = Started, x \notin compaction.base, x \notin compaction.done
  PROVE  /\ Good(compaction.base) /\ Good(compaction.done)
         /\ compaction.inputs \subseteq compaction.base
         /\ \A b, d, i : b = compaction.base /\ d = compaction.done /\ i = compaction.inputs =>
              /\ Good(b)' /\ Good(d)' /\ InTables(i)' = InTables(i) /\ InTables(d)' = InTables(d)
<1>1. PICK b, d, i : b = compaction.base /\ d = compaction.done /\ i = compaction.inputs
  OBVIOUS
<1>2. Good(b) /\ Good(d) /\ i \subseteq b
  BY <1>1 DEF AnswersInv, MergeOK
<1>3. Good(i) /\ x \notin i
  BY <1>1, <1>2 DEF Good
<1>4. Good(b)' /\ Good(d)' /\ InTables(i)' = InTables(i) /\ InTables(d)' = InTables(d)
  BY <1>1, <1>2, <1>3, OthersStay
<1> QED
  BY <1>1, <1>2, <1>4

(* A compaction that a step does not touch, nor its tables.                *)
LEMMA CompactionKept ==
  ASSUME FilesInv, AnswersInv, FilesInv', compaction # None, compaction' = compaction,
         NEW x, \A n \in DOMAIN tables : n # x => n \in DOMAIN tables' /\ tables'[n] = tables[n],
         Started' = Started, x \notin compaction.base, x \notin compaction.done,
         Descr' = Descr, Cuts' = Cuts, version' = version, reading' = reading,
         compaction.output # None => compaction.output \notin edit'.add
  PROVE  (compaction # None =>
           /\ Good(compaction.base) /\ Good(compaction.done)
           /\ compaction.inputs \subseteq compaction.base
           /\ InTables(compaction.inputs) \subseteq InTables(compaction.done) \cup compaction.left
           /\ compaction.output # None =>
                /\ compaction.output \notin version \cup reading \cup edit.add \cup compaction.base
                                              \cup compaction.done
                /\ \A c \in Cuts : compaction.output \notin FilesAt(Descr, c))'
<1>1. PICK b, d, i : b = compaction.base /\ d = compaction.done /\ i = compaction.inputs
  OBVIOUS
<1>2. Good(b)' /\ Good(d)' /\ InTables(i)' = InTables(i) /\ InTables(d)' = InTables(d)
  BY <1>1, CompactionOthersStay
<1>3. i \subseteq b /\ InTables(i) \subseteq InTables(d) \cup compaction.left
  BY <1>1 DEF AnswersInv, MergeOK
<1>4. compaction'.base = b /\ compaction'.done = d /\ compaction'.inputs = i
  BY <1>1
<1>5. Good(compaction.base)' /\ Good(compaction.done)'
  BY <1>2, <1>4 DEF Good
<1>6. InTables(compaction.inputs)' \subseteq InTables(compaction.done)' \cup compaction'.left
  BY <1>2, <1>3, <1>4 DEF InTables
<1>7. compaction'.output # None =>
        /\ compaction'.output \notin version' \cup reading' \cup edit'.add \cup compaction'.base
                                       \cup compaction'.done
        /\ \A c \in Cuts' : compaction'.output \notin FilesAt(Descr', c)
  BY DEF AnswersInv, MergeOK
<1> QED
  BY <1>1, <1>3, <1>4, <1>5, <1>6, <1>7

(* The tables of a compaction have numbers that were given out.            *)
LEMMA CompactionBelow ==
  ASSUME FilesInv, phase = "open", compaction # None
  PROVE  /\ nextFile \notin compaction.base /\ nextFile \notin compaction.done
         /\ nextFile \notin compaction.inputs \/ ~(compaction.inputs \subseteq compaction.base)
         /\ flush # None => flush \notin compaction.base /\ flush \notin compaction.done
                            /\ flush # compaction.output
<1>1. Base \cup Outputs \subseteq Below(nextFile) /\ Flushing \cap (Base \cup Outputs) = {}
  BY DEF FilesInv, MemoryNumbered
<1>2. Base = compaction.base /\ Outputs = compaction.done \cup ({compaction.output} \ {None})
  BY CompactionParts DEF Output
<1>3. nextFile \notin Below(nextFile)
  BY DEF FilesInv, Typed, Below
<1> QED
  BY <1>1, <1>2, <1>3 DEF Flushing

LEMMA NextNotLive ==
  ASSUME DBFilesAssumption, FilesInv, AnswersInv, phase = "open"
  PROVE  /\ nextFile \notin version /\ \A c \in Cuts : nextFile \notin FilesAt(Descr, c)
         /\ nextFile \notin reading \cup edit.add
<1>1. version \cup reading \cup edit.add \subseteq Below(nextFile) /\ nextFile \notin Below(nextFile)
  BY DEF FilesInv, MemoryNumbered, Typed, Below
<1> QED
  BY <1>1, OpenCuts

LEMMA StartFlushKeepsAnswers ==
  ASSUME DBFilesAssumption, FilesInv, AnswersInv, FilesInv', StartFlush
  PROVE  AnswersInv' /\ KeepsNeededFiles
<1>1. /\ phase = "open" /\ flush = None /\ applying = "no"
      /\ flush' = nextFile /\ nextFile' = nextFile + 1
      /\ tables' = IF imm = {} THEN tables ELSE Create(tables, nextFile, Torn)
      /\ UNCHANGED <<current, manifests, logs, phase, state, memtables, calls, history,
                     bgError, edit, toRecover, compaction, applying>>
  BY DEF StartFlush
<1>2. \A n \in DOMAIN tables : n # nextFile => n \in DOMAIN tables' /\ tables'[n] = tables[n]
  BY <1>1 DEF Create
<1>3. /\ Sound' /\ FirstMade' /\ DiskOK' /\ RecoveringOK' /\ OpenOK' /\ KeepsNeededFiles
      /\ Descr' = Descr /\ Cuts' = Cuts
  BY <1>1, <1>2, NextNotLive, OpenKept
<1>4. FlushOK'
  BY <1>1, <1>3, NextNotLive DEF FlushOK
<1>5. MergeOK'
  <2>1. CASE compaction = None
    BY <1>1, <2>1 DEF MergeOK
  <2>2. CASE compaction # None
    <3>1. nextFile \notin compaction.base /\ nextFile \notin compaction.done /\ Started' = Started
      BY <1>1, <2>2, CompactionBelow DEF Started
    <3>2. compaction.output # None => compaction.output \notin edit'.add
      BY <1>1, <2>2 DEF AnswersInv, MergeOK
    <3> QED
      BY <1>1, <1>2, <1>3, <2>2, <3>1, <3>2, CompactionKept DEF MergeOK
  <2> QED
    BY <2>1, <2>2
<1> QED
  BY <1>3, <1>4, <1>5 DEF AnswersInv

LEMMA FinishFlushKeepsAnswers ==
  ASSUME DBFilesAssumption, FilesInv, AnswersInv, FilesInv', FinishFlush
  PROVE  AnswersInv' /\ KeepsNeededFiles
<1>1. /\ flush # None /\ applying = "no" /\ applying' = "started"
      /\ tables' = IF imm = {} THEN tables ELSE [tables EXCEPT ![flush] = imm]
      /\ edit' = Edit(IF imm = {} THEN {} ELSE {flush}, {}, logfile, nextFile)
      /\ UNCHANGED <<current, manifests, logs, phase, state, memtables, calls, history,
                     nextFile, bgError, toRecover, flush, compaction>>
  BY DEF FinishFlush
<1>2. phase = "open"
  BY <1>1, WorkInOpen
<1>3. \A n \in DOMAIN tables : n # flush => n \in DOMAIN tables' /\ tables'[n] = tables[n]
  BY <1>1
<1>4. flush \notin version /\ \A c \in Cuts : flush \notin FilesAt(Descr, c)
  BY <1>1 DEF FilesInv, MemoryNumbered, Flushing, AnswersInv, FlushOK
<1>5. /\ Sound' /\ FirstMade' /\ DiskOK' /\ RecoveringOK' /\ OpenOK' /\ KeepsNeededFiles
      /\ Descr' = Descr /\ Cuts' = Cuts
  BY <1>1, <1>2, <1>3, <1>4, OpenKept
<1>6. /\ edit'.del = {} /\ edit'.log = logfile
      /\ edit'.add = IF imm = {} THEN {} ELSE {flush}
  BY <1>1 DEF Edit
<1>7. FlushOK'
  <2>1. imm # {} => tables'[flush] = imm
    BY <1>1 DEF FilesInv, Present
  <2> QED
    BY <1>1, <1>6, <2>1 DEF FlushOK
<1>8. MergeOK'
  <2>1. CASE compaction = None
    BY <1>1, <2>1 DEF MergeOK
  <2>2. CASE compaction # None
    <3>1. /\ flush \notin compaction.base /\ flush \notin compaction.done
          /\ flush # compaction.output /\ Started' = Started
      BY <1>1, <1>2, <2>2, CompactionBelow DEF Started
    <3>2. compaction.output # None => compaction.output \notin edit'.add
      BY <1>6, <3>1
    <3> QED
      BY <1>1, <1>3, <1>5, <2>2, <3>1, <3>2, CompactionKept DEF MergeOK
  <2> QED
    BY <2>1, <2>2
<1> QED
  BY <1>5, <1>7, <1>8 DEF AnswersInv

LEMMA FlushFailsKeepsAnswers ==
  ASSUME DBFilesAssumption, FilesInv, AnswersInv, FilesInv', FlushFails
  PROVE  AnswersInv' /\ KeepsNeededFiles
<1>1. /\ flush # None /\ applying = "no" /\ flush' = None /\ bgError' = TRUE
      /\ tables' = Only(tables, DOMAIN tables \ {flush})
      /\ UNCHANGED <<current, manifests, logs, phase, state, memtables, calls, history,
                     nextFile, edit, toRecover, compaction, applying>>
  BY DEF FlushFails
<1>2. phase = "open"
  BY <1>1, WorkInOpen
<1>3. \A n \in DOMAIN tables : n # flush => n \in DOMAIN tables' /\ tables'[n] = tables[n]
  BY <1>1 DEF Only
<1>4. flush \notin version /\ \A c \in Cuts : flush \notin FilesAt(Descr, c)
  BY <1>1 DEF FilesInv, MemoryNumbered, Flushing, AnswersInv, FlushOK
<1>5. /\ Sound' /\ FirstMade' /\ DiskOK' /\ RecoveringOK' /\ OpenOK' /\ KeepsNeededFiles
      /\ Descr' = Descr /\ Cuts' = Cuts
  BY <1>1, <1>2, <1>3, <1>4, OpenKept
<1>6. FlushOK'
  BY <1>1 DEF FlushOK
<1>7. MergeOK'
  <2>1. CASE compaction = None
    BY <1>1, <2>1 DEF MergeOK
  <2>2. CASE compaction # None
    <3>1. /\ flush \notin compaction.base /\ flush \notin compaction.done
          /\ Started' = Started
      BY <1>1, <1>2, <2>2, CompactionBelow DEF Started
    <3>2. compaction.output # None => compaction.output \notin edit'.add
      BY <1>1, <2>2 DEF AnswersInv, MergeOK
    <3> QED
      BY <1>1, <1>3, <1>5, <2>2, <3>1, <3>2, CompactionKept DEF MergeOK
  <2> QED
    BY <2>1, <2>2
<1> QED
  BY <1>5, <1>6, <1>7 DEF AnswersInv

LEMMA StartCompactionKeepsAnswers ==
  ASSUME DBFilesAssumption, FilesInv, AnswersInv, FilesInv',
         NEW inputs \in (SUBSET version) \ {{}}, StartCompaction(inputs)
  PROVE  AnswersInv' /\ KeepsNeededFiles
<1>1. /\ phase = "open" /\ flush = None /\ compaction = None
      /\ compaction' = [inputs |-> inputs, base |-> version, left |-> Stored(inputs),
                        done |-> {}, output |-> None]
      /\ UNCHANGED <<disk, phase, state, memtables, calls, history, nextFile,
                     pending, bgError, edit, toRecover, flush, applying>>
  BY DEF StartCompaction
<1>2. /\ Sound' /\ FirstMade' /\ DiskOK' /\ RecoveringOK' /\ OpenOK' /\ KeepsNeededFiles
      /\ Descr' = Descr /\ Cuts' = Cuts
  BY <1>1, NextNotLive, OpenKept
<1>3. FlushOK'
  BY <1>1 DEF FlushOK
<1>4. MergeOK'
  <2>1. applying = "no"
    BY <1>1 DEF AnswersInv, MergeOK
  <2>2. PICK v, i : v = version /\ i = inputs
    OBVIOUS
  <2>3. Good(v) /\ i \subseteq v /\ Stored(i) = InTables(i)
    <3>1. Good(v) /\ i \subseteq v
      BY <1>1, <2>2 DEF AnswersInv, OpenOK
    <3> QED
      BY <3>1, StoredInTables DEF Good
  <2>4. Good(v)' /\ Good({})' /\ InTables(i)' = InTables(i)
    BY <1>1, <2>3 DEF Good, InTables, Started
  <2>5. /\ compaction'.base = v /\ compaction'.inputs = i /\ compaction'.done = {}
        /\ compaction'.left = InTables(i) /\ compaction'.output = None
    BY <1>1, <2>2, <2>3
  <2>6. /\ Good(compaction.base)' /\ Good(compaction.done)'
        /\ InTables(compaction.inputs)' = InTables(i)'
    BY <2>4, <2>5 DEF Good, InTables
  <2> QED
    BY <1>1, <2>1, <2>3, <2>4, <2>5, <2>6 DEF MergeOK
<1> QED
  BY <1>2, <1>3, <1>4 DEF AnswersInv

LEMMA OpenCompactionOutputFileKeepsAnswers ==
  ASSUME DBFilesAssumption, FilesInv, AnswersInv, FilesInv', OpenCompactionOutputFile
  PROVE  AnswersInv' /\ KeepsNeededFiles
<1>1. /\ compaction # None /\ flush = None /\ applying = "no"
      /\ compaction' = [compaction EXCEPT !.output = nextFile]
      /\ nextFile' = nextFile + 1
      /\ tables' = Create(tables, nextFile, Torn)
      /\ UNCHANGED <<current, manifests, logs, phase, state, memtables, calls, history,
                     bgError, edit, toRecover, flush, applying>>
  BY DEF OpenCompactionOutputFile
<1>2. phase = "open"
  BY <1>1, WorkInOpen
<1>3. \A n \in DOMAIN tables : n # nextFile => n \in DOMAIN tables' /\ tables'[n] = tables[n]
  BY <1>1 DEF Create
<1>4. /\ Sound' /\ FirstMade' /\ DiskOK' /\ RecoveringOK' /\ OpenOK' /\ KeepsNeededFiles
      /\ Descr' = Descr /\ Cuts' = Cuts
  BY <1>1, <1>2, <1>3, NextNotLive, OpenKept
<1>5. FlushOK'
  BY <1>1 DEF FlushOK
<1>6. MergeOK'
  <2>1. PICK b, d, i : b = compaction.base /\ d = compaction.done /\ i = compaction.inputs
    OBVIOUS
  <2>2. nextFile \notin b /\ nextFile \notin d /\ Started' = Started
    BY <1>1, <1>2, <2>1, CompactionBelow DEF Started
  <2>3. Good(b)' /\ Good(d)' /\ InTables(i)' = InTables(i) /\ InTables(d)' = InTables(d) /\ i \subseteq b
    BY <1>1, <1>3, <2>1, <2>2, CompactionOthersStay
  <2>4. /\ compaction'.base = b /\ compaction'.inputs = i /\ compaction'.done = d
        /\ compaction'.left = compaction.left /\ compaction'.output = nextFile
    BY <1>1, <2>1, CompactionParts DEF CompactionType
  <2>5. /\ Good(compaction.base)' /\ Good(compaction.done)'
        /\ InTables(compaction.inputs)' = InTables(i)' /\ InTables(compaction.done)' = InTables(d)'
    BY <2>3, <2>4 DEF Good, InTables
  <2>6. InTables(i) \subseteq InTables(d) \cup compaction.left
    BY <1>1, <2>1 DEF AnswersInv, MergeOK
  <2>7. /\ nextFile \notin version' \cup reading' \cup edit'.add \cup b \cup d
        /\ \A c \in Cuts' : nextFile \notin FilesAt(Descr', c)
    BY <1>1, <1>2, <1>4, <2>2, NextNotLive
  <2> QED
    BY <1>1, <2>3, <2>4, <2>5, <2>6, <2>7 DEF MergeOK
<1> QED
  BY <1>4, <1>5, <1>6 DEF AnswersInv

LEMMA FinishCompactionOutputFileKeepsAnswers ==
  ASSUME DBFilesAssumption, FilesInv, AnswersInv, FilesInv', NEW part \in SUBSET Writes,
         FinishCompactionOutputFile(part)
  PROVE  AnswersInv' /\ KeepsNeededFiles
<1>1. /\ compaction # None /\ flush = None /\ applying = "no"
      /\ Output # {} /\ Output \subseteq DOMAIN tables /\ part \subseteq compaction.left
      /\ tables' = [tables EXCEPT ![compaction.output] = part]
      /\ compaction' = [compaction EXCEPT !.left = @ \ part, !.done = Outputs, !.output = None]
      /\ \/ /\ edit' = Edit(Outputs, compaction.inputs, logNumber, nextFile)
            /\ applying' = "started" /\ part = compaction.left
         \/ edit' = edit /\ applying' = applying
      /\ UNCHANGED <<current, manifests, logs, phase, state, memtables, calls, history,
                     nextFile, pending, bgError, toRecover, flush>>
  BY DEF FinishCompactionOutputFile
<1>2. phase = "open" /\ Started' = Started
  BY <1>1, WorkInOpen DEF Started
<1>3. PICK x : x = compaction.output
  OBVIOUS
<1>4. /\ x # None /\ x \in DOMAIN tables /\ Outputs = compaction.done \cup {x}
      /\ \A n \in DOMAIN tables : n # x => n \in DOMAIN tables' /\ tables'[n] = tables[n]
      /\ DOMAIN tables' = DOMAIN tables /\ tables'[x] = part
  BY <1>1, <1>3, CompactionParts DEF Output
<1>5. /\ x \notin version \cup reading \cup edit.add \cup compaction.base \cup compaction.done
      /\ \A c \in Cuts : x \notin FilesAt(Descr, c)
  BY <1>1, <1>3, <1>4 DEF AnswersInv, MergeOK
<1>6. applying' # "logged"
  BY <1>1
<1>7. /\ Sound' /\ FirstMade' /\ DiskOK' /\ RecoveringOK' /\ OpenOK' /\ KeepsNeededFiles
      /\ Descr' = Descr /\ Cuts' = Cuts
  BY <1>1, <1>2, <1>4, <1>5, <1>6, OpenKept
<1>8. FlushOK'
  BY <1>1 DEF FlushOK
<1>9. MergeOK'
  <2>1. PICK b, d, i : b = compaction.base /\ d = compaction.done /\ i = compaction.inputs
    OBVIOUS
  <2>2. Good(b)' /\ Good(d)' /\ InTables(i)' = InTables(i) /\ InTables(d)' = InTables(d) /\ i \subseteq b
    BY <1>1, <1>2, <1>4, <1>5, <2>1, CompactionOthersStay
  <2>3. /\ compaction'.base = b /\ compaction'.inputs = i /\ compaction'.done = d \cup {x}
        /\ compaction'.left = compaction.left \ part /\ compaction'.output = None
    BY <1>1, <1>4, <2>1, CompactionParts DEF CompactionType
  <2>4. part # Torn /\ part \subseteq Started
    <3>1. part # Torn
      BY DBFilesAssumption DEF DBFilesAssumption
    <3> QED
      BY <1>1, <3>1, CompactionParts
  <2>5. Good(d \cup {x})' /\ InTables(d \cup {x})' = InTables(d)' \cup part
    <3>1. Good(d \cup {x})'
      BY <1>4, <2>2, <2>4 DEF Good
    <3>2. InTables(d \cup {x})' = InTables(d)' \cup part
      BY <1>2, <1>4, <2>4 DEF InTables
    <3> QED
      BY <3>1, <3>2
  <2>6. /\ Good(compaction.base)' /\ Good(compaction.done)'
        /\ InTables(compaction.inputs)' = InTables(i)'
        /\ InTables(compaction.done)' = InTables(d \cup {x})'
    BY <2>2, <2>3, <2>5 DEF Good, InTables
  <2>7. InTables(i) \subseteq InTables(d) \cup compaction.left
    BY <1>1, <2>1 DEF AnswersInv, MergeOK
  <2>8. InTables(compaction.inputs)' \subseteq InTables(compaction.done)' \cup compaction'.left
    BY <2>2, <2>3, <2>5, <2>6, <2>7
  <2>9. applying' # "no" =>
          /\ compaction'.left = {} /\ edit'.del = i /\ edit'.add = d \cup {x} /\ edit'.log = logNumber
    BY <1>1, <1>4, <2>1, <2>3 DEF Edit
  <2>10. compaction' # None
    <3>1. compaction.left \ part \in SUBSET Nat
      BY <1>1, CompactionParts DEF Started
    <3>2. compaction' = [inputs |-> compaction.inputs, base |-> compaction.base,
                         left |-> compaction.left \ part, done |-> Outputs, output |-> None]
      BY <1>1, CompactionParts DEF CompactionType
    <3>3. compaction' \in CompactionType
      BY <1>1, <3>1, <3>2, CompactionParts DEF CompactionType
    <3> QED
      BY <3>3, DBFilesAssumption DEF DBFilesAssumption
  <2> QED
    BY <1>1, <2>2, <2>3, <2>6, <2>8, <2>9, <2>10 DEF MergeOK
<1> QED
  BY <1>7, <1>8, <1>9 DEF AnswersInv

LEMMA CompactionFailsKeepsAnswers ==
  ASSUME DBFilesAssumption, FilesInv, AnswersInv, FilesInv', CompactionFails
  PROVE  AnswersInv' /\ KeepsNeededFiles
<1>1. /\ compaction # None /\ flush = None /\ applying = "no"
      /\ compaction' = None /\ bgError' = TRUE
      /\ tables' = tables /\ logs' = logs /\ manifests' = manifests
      /\ UNCHANGED <<current, phase, state, memtables, calls, history, nextFile, edit,
                     toRecover, flush, applying>>
  BY DEF CompactionFails, CleanupCompaction, DeleteObsoleteFiles
<1>2. phase = "open"
  BY <1>1, WorkInOpen
<1>3. /\ Sound' /\ FirstMade' /\ DiskOK' /\ RecoveringOK' /\ OpenOK' /\ KeepsNeededFiles
      /\ Descr' = Descr /\ Cuts' = Cuts
  BY <1>1, <1>2, NextNotLive, OpenKept
<1>4. FlushOK' /\ MergeOK'
  BY <1>1 DEF FlushOK, MergeOK
<1> QED
  BY <1>3, <1>4 DEF AnswersInv

LEMMA ManifestFailsKeepsAnswers ==
  ASSUME DBFilesAssumption, FilesInv, AnswersInv, FilesInv', ManifestFails
  PROVE  AnswersInv' /\ KeepsNeededFiles
<1>1. /\ applying # "no" /\ applying' = "no" /\ edit' = Edit({}, {}, 0, 0)
      /\ bgError' = TRUE /\ flush' = None
      /\ manifests' = manifests /\ logs' = logs /\ tables' = tables
      /\ compaction' = compaction \/ compaction' = None
      /\ UNCHANGED <<current, phase, state, memtables, calls, history, nextFile,
                     toRecover>>
  BY DEF ManifestFails, ApplyFails, CleanupCompaction, DeleteObsoleteFiles
<1>2. phase = "open"
  BY <1>1, WorkInOpen
<1>3. /\ Sound' /\ FirstMade' /\ DiskOK' /\ RecoveringOK' /\ OpenOK' /\ KeepsNeededFiles
      /\ Descr' = Descr /\ Cuts' = Cuts
  BY <1>1, <1>2, NextNotLive, OpenKept
<1>4. FlushOK'
  BY <1>1 DEF FlushOK
<1>5. MergeOK'
  <2>1. CASE compaction' = None
    BY <1>1, <2>1 DEF MergeOK
  <2>2. CASE compaction # None /\ compaction' = compaction
    <3>1. nextFile \notin compaction.base /\ nextFile \notin compaction.done /\ Started' = Started
      BY <1>1, <1>2, <2>2, CompactionBelow DEF Started
    <3>2. compaction.output # None => compaction.output \notin edit'.add
      BY <1>1 DEF Edit
    <3> QED
      BY <1>1, <1>3, <2>2, <3>1, <3>2, CompactionKept DEF MergeOK
  <2> QED
    BY <1>1, <2>1, <2>2
<1> QED
  BY <1>3, <1>4, <1>5 DEF AnswersInv


(* The steps of DB::Open.  While the database is not open, nothing is      *)
(* claimed of it.                                                          *)
LEMMA NotOpen ==
  ASSUME FilesInv', phase' # "open"
  PROVE  OpenOK' /\ FlushOK' /\ MergeOK'
BY DEF FilesInv, Closed, OpenOK, FlushOK, MergeOK

LEMMA NewDBKeepsAnswers ==
  ASSUME DBFilesAssumption, FilesInv, AnswersInv, FilesInv', NewDB
  PROVE  AnswersInv' /\ KeepsNeededFiles
<1> DEFINE e == Edit({}, {}, 0, 2)
           m == [records |-> <<e>>, synced |-> 0]
<1>1. /\ current = None /\ phase' = "new"
      /\ manifests' = Create(manifests, 1, m)
      /\ UNCHANGED <<current, logs, tables, memory, history>>
  BY DEF NewDB
<1>2. e \in EditType
  BY DEF Edit, EditType
<1>3. Len(m.records) = 1 /\ Whole(m, 1)
  <2> HIDE DEF e
  <2>1. 0 \in 0 .. 1
    OBVIOUS
  <2> QED
    BY <1>2, <2>1, FirstManifest
<1>4. manifests'[1] = [records |-> <<Edit({}, {}, 0, 2)>>, synced |-> 0]
  BY <1>1 DEF Create
<1> HIDE DEF m
<1>5. Sound'
  BY <1>1, <1>3 DEF AnswersInv, Sound, Create
<1>6. FirstMade' /\ DiskOK' /\ RecoveringOK'
  BY <1>1, <1>4 DEF AnswersInv, FirstMade, DiskOK, RecoveringOK
<1>7. KeepsNeededFiles
  BY <1>1 DEF KeepsNeededFiles
<1> QED
  BY <1>1, <1>5, <1>6, <1>7, NotOpen DEF AnswersInv

LEMMA CreateCurrentKeepsAnswers ==
  ASSUME DBFilesAssumption, FilesInv, AnswersInv, FilesInv', CreateCurrent
  PROVE  AnswersInv' /\ KeepsNeededFiles
<1> DEFINE e == Edit({}, {}, 0, 2)
           m == [records |-> <<e>>, synced |-> 0]
<1>1. /\ phase = "new" /\ phase' = "closed" /\ current' = 1
      /\ UNCHANGED <<manifests, logs, tables, memory, history>>
  BY DEF CreateCurrent
<1>2. current = None /\ manifests[1] = m
  BY <1>1 DEF AnswersInv, FirstMade
<1>3. acked = {} /\ durable = {}
  BY <1>2 DEF AnswersInv, DiskOK
<1>4. e \in EditType /\ e.add = {}
  BY DEF Edit, EditType
<1>5. Len(m.records) = 1 /\ FilesAt(m, 1) = {} /\ m.synced = 0
  <2> HIDE DEF e
  <2>1. 0 \in 0 .. 1
    OBVIOUS
  <2> QED
    BY <1>4, <2>1, FirstManifest
<1> HIDE DEF m
<1>6. Descr' = m /\ Cuts' = 0 .. 1
  BY <1>1, <1>2, <1>5 DEF Descr, Cuts
<1>7. DiskOK'
  <2>1. ASSUME NEW c \in Cuts', c > 0
        PROVE  Safe(FilesAt(Descr, c), Descr.records[c].log)'
    <3>1. c = 1
      BY <1>6, <2>1
    <3>2. FilesAt(Descr, c)' = {}
      BY <1>5, <1>6, <3>1 DEF FilesAt
    <3>3. Good(FilesAt(Descr, c))'
      BY <3>2 DEF Good
    <3> QED
      BY <1>1, <1>3, <3>3 DEF Safe, Answered
  <2> QED
    BY <1>1, <1>3, <2>1 DEF DiskOK
<1>8. Sound' /\ FirstMade' /\ RecoveringOK'
  BY <1>1 DEF AnswersInv, Sound, FirstMade, RecoveringOK
<1>9. KeepsNeededFiles
  BY <1>2 DEF KeepsNeededFiles
<1> QED
  BY <1>1, <1>7, <1>8, <1>9, NotOpen DEF AnswersInv

(* A step after the descriptor was read that does not touch what it needs. *)
LEMMA DescrStays ==
  ASSUME FilesInv, AnswersInv, FilesInv', Sound', current # None, Len(Descr.records) >= 1,
         current' = current, manifests'[current] = manifests[current],
         \A c \in Cuts : c > 0 => TablesStay(FilesAt(Descr, c)),
         \A log : LogsGrow(log)
  PROVE  /\ Descr' = Descr /\ Cuts' = Cuts
         /\ \A c : FilesAt(Descr, c)' = FilesAt(Descr, c)
         /\ KeepsNeededFiles
<1>1. Descr' = Descr /\ Cuts' = Cuts /\ \A c : FilesAt(Descr, c)' = FilesAt(Descr, c)
  BY DEF Descr, Cuts, FilesAt
<1>2. NeededStay
  <2>1. Len(Descr.records) \in Cuts /\ Len(Descr.records) > 0
    BY DescrTyped DEF AnswersInv
  <2>2. TablesStay(FilesAt(Descr, Len(Descr.records)))
    BY <2>1
  <2> QED
    BY <1>1, <2>2 DEF NeededStay, TablesStay, LogsGrow
<1> QED
  BY <1>1, <1>2, NeededFiles

LEMMA DescrKept ==
  ASSUME FilesInv, AnswersInv, FilesInv', Sound', current # None, Len(Descr.records) >= 1,
         UNCHANGED <<current, acked, durable>>, Started \subseteq Started',
         manifests'[current] = manifests[current],
         \A c \in Cuts : c > 0 => TablesStay(FilesAt(Descr, c)),
         \A log : LogsGrow(log)
  PROVE  /\ Descr' = Descr /\ Cuts' = Cuts
         /\ \A c : FilesAt(Descr, c)' = FilesAt(Descr, c)
         /\ DiskOK' /\ KeepsNeededFiles
BY DescrStays, DiskKept

LEMMA RecoverKeepsAnswers ==
  ASSUME DBFilesAssumption, FilesInv, AnswersInv, FilesInv', Recover
  PROVE  AnswersInv' /\ KeepsNeededFiles
<1> DEFINE n == Len(Descr.records)
<1>1. /\ phase = "closed" /\ phase' = "logs" /\ current # None
      /\ Edits(Descr) # <<>>
      /\ version' = Files(Edits(Descr)) /\ logNumber' = Last(Edits(Descr)).log
      /\ nextFile' = Last(Edits(Descr)).next + 1
      /\ UNCHANGED <<disk, memtables, work, calls, history, bgError, edit>>
  BY DEF Recover, Readable, Descr
<1>2. /\ logNumber' \in Nat /\ nextFile' \in Nat /\ logNumber' < nextFile'
      /\ toRecover' = {f \in DOMAIN logs : f >= logNumber'}
  BY RecoveredState
<1>3. /\ Descr \in ManifestType /\ n \in Nat /\ n \in Cuts /\ Cuts \subseteq 0 .. n
      /\ \A c \in 0 .. n : Whole(Descr, c)
  BY <1>1, DescrTyped DEF AnswersInv
<1>4. n >= 1
  <2>1. SUFFICES ASSUME n = 0 PROVE FALSE
    BY <1>3
  <2>2. Descr.records = <<>>
    BY <1>3, <2>1 DEF ManifestType
  <2> QED
    BY <1>1, <2>2 DEF Edits
<1>5. /\ version' = FilesAt(Descr, n) /\ logNumber' = Descr.records[n].log
      /\ nextFile' = Descr.records[n].next + 1 /\ Descr.records[n] \in EditType
  BY <1>1, <1>3, <1>4, DescrRead, DescrTyped DEF AnswersInv
<1>6. Safe(version', logNumber')
  <2>1. n > 0
    BY <1>3, <1>4
  <2> QED
    BY <1>1, <1>3, <1>5, <2>1 DEF AnswersInv, DiskOK
<1>7. \A c \in Cuts : c > 0 => FilesAt(Descr, c) \subseteq Below(nextFile')
  <2>1. Numbers(current, Descr)
    BY <1>1 DEF FilesInv, CurrentNamed, ManifestsNumbered, Descr
  <2>2. n \in 1 .. n /\ n \in 0 .. n
    BY <1>3, <1>4
  <2>3. \A c \in 1 .. n : FilesAt(Descr, c) \subseteq Below(Descr.records[n].next)
    BY <1>3, <2>1, <2>2 DEF Numbers
  <2>4. PICK x : x = Descr.records[n].next
    OBVIOUS
  <2>5. x \in Nat /\ nextFile' = x + 1
    BY <1>5, <2>4 DEF EditType
  <2>6. Below(x) \subseteq Below(nextFile')
    BY <2>5 DEF Below
  <2>7. \A c \in Cuts : c > 0 => c \in 1 .. n
    BY <1>3
  <2> QED
    BY <2>3, <2>4, <2>6, <2>7
<1> HIDE DEF n
<1>8. Sound' /\ FirstMade'
  BY <1>1 DEF AnswersInv, Sound, FirstMade
<1>9. \A files : TablesStay(files) \/ ~(files \subseteq DOMAIN tables)
  BY <1>1 DEF TablesStay
<1>10. /\ Descr' = Descr /\ Cuts' = Cuts
       /\ \A c : FilesAt(Descr, c)' = FilesAt(Descr, c)
       /\ DiskOK' /\ KeepsNeededFiles
  <2>1. \A c \in Cuts : c > 0 => TablesStay(FilesAt(Descr, c))
    BY <1>1 DEF AnswersInv, DiskOK, Safe, Good, TablesStay
  <2>2. \A log : LogsGrow(log)
    BY <1>1, LogsStay
  <2>3. Started' = Started /\ Len(Descr.records) >= 1
    BY <1>1, <1>4 DEF Started, n
  <2> QED
    BY <1>1, <1>8, <2>1, <2>2, <2>3, DescrKept
<1>11. RecoveringOK'
  <2>1. PICK v : v = version' /\ v = version' \cup edit'.add
    BY <1>1 DEF FilesInv, Forgotten, Edit
  <2>2. Good(v)' /\ InTables(v)' = InTables(v)
    BY <1>1, <1>6, <2>1 DEF Safe, Good, InTables, Started
  <2>3. ASSUME NEW kind \in Kinds
        PROVE  Answered(kind)' \subseteq
                 InTables(v)' \cup UNION {Survives(logs'[f], kind) : f \in toRecover'}
    <3>1. Answered(kind)' = Answered(kind)
      BY <1>1 DEF Answered
    <3>2. Answered(kind) \subseteq InTables(v) \cup InLogs(kind, logNumber')
      BY <1>6, <2>1 DEF Safe
    <3>3. InLogs(kind, logNumber') \subseteq UNION {Survives(logs[f], kind) : f \in toRecover'}
      BY <1>2 DEF InLogs
    <3> QED
      BY <1>1, <2>2, <3>1, <3>2, <3>3
  <2>4. \A f \in DOMAIN logs' : f \in toRecover' \/ f < nextFile'
    <3>1. DOMAIN logs \subseteq Nat
      BY DEF FilesInv, Typed, TypedFiles
    <3> QED
      BY <1>1, <1>2, <3>1
  <2>5. Good(version \cup edit.add)' /\ InTables(version \cup edit.add)' = InTables(v)'
    BY <2>1, <2>2 DEF Good, InTables
  <2>6. Len(Descr'.records) >= 1
    BY <1>4, <1>10 DEF n
  <2>7. \A c \in Cuts' : c > 0 => FilesAt(Descr, c)' \subseteq Below(nextFile)'
    BY <1>7, <1>10 DEF Below
  <2> QED
    BY <1>1, <2>3, <2>4, <2>5, <2>6, <2>7 DEF RecoveringOK
<1> QED
  BY <1>1, <1>8, <1>10, <1>11, NotOpen DEF AnswersInv

LEMMA RecoverLogFileKeepsAnswers ==
  ASSUME DBFilesAssumption, FilesInv, AnswersInv, FilesInv', RecoverLogFile
  PROVE  AnswersInv' /\ KeepsNeededFiles
<1> DEFINE l == Min(toRecover)
           next == IF Read(logs[l]) = {} THEN nextFile ELSE nextFile + 1
<1>1. /\ phase = "logs" /\ phase' = "logs" /\ toRecover # {} /\ toRecover' = toRecover \ {l}
      /\ nextFile' = MarkFileNumberUsed(next, l)
      /\ \/ Read(logs[l]) = {} /\ tables' = tables /\ edit' = edit
         \/ /\ tables' = Create(tables, nextFile, Read(logs[l]))
            /\ edit' = [edit EXCEPT !.add = @ \cup {nextFile}]
      /\ UNCHANGED <<current, manifests, logs, phase, state, memtables, work,
                     calls, history, bgError>>
  BY DEF RecoverLogFile
<1>2. /\ nextFile \in Nat /\ toRecover \in SUBSET Nat /\ toRecover \subseteq DOMAIN logs
      /\ edit \in EditType /\ DOMAIN logs \subseteq Nat
  BY DEF FilesInv, Typed, TypedFiles, Recovering
<1>3. l \in toRecover /\ l \in DOMAIN logs /\ l \in Nat
  BY <1>1, <1>2, MinExists
<1> HIDE DEF l
<1>4. PICK r : r = Read(logs[l])
  OBVIOUS
<1>5. r = Survives(logs[l], "process") /\ r \subseteq Started
      /\ \A kind \in Kinds : Survives(logs[l], kind) \subseteq r
  BY <1>3, <1>4, SurvivesWhole DEF AnswersInv, Kinds
<1>6. /\ nextFile' \in Nat /\ nextFile <= nextFile' /\ l < nextFile'
      /\ Below(nextFile) \subseteq Below(nextFile')
  <2>1. next \in Nat /\ nextFile <= next
    BY <1>2
  <2> HIDE DEF next
  <2>2. PICK x : x = nextFile'
    OBVIOUS
  <2>3. x \in Nat /\ next <= x /\ l < x
    BY <1>1, <1>3, <2>1, <2>2, MarkedIsAbove
  <2>4. nextFile <= x
    BY <1>2, <2>1, <2>3
  <2>5. Below(nextFile) \subseteq Below(x)
    BY <1>2, <2>3, <2>4 DEF Below
  <2> QED
    BY <2>2, <2>3, <2>4, <2>5
<1>7. PICK v : v = version \cup edit.add
  OBVIOUS
<1>8. /\ v \subseteq Below(nextFile) /\ nextFile \notin v /\ Good(v)
      /\ current # None /\ Len(Descr.records) >= 1
      /\ \A c \in Cuts : c > 0 => FilesAt(Descr, c) \subseteq Below(nextFile)
      /\ \A kind \in Kinds : Answered(kind) \subseteq
           InTables(v) \cup UNION {Survives(logs[n], kind) : n \in toRecover}
      /\ \A n \in DOMAIN logs : n \in toRecover \/ n < nextFile
  <2>1. v \subseteq Below(nextFile) /\ current # None
    BY <1>1, <1>7 DEF FilesInv, MemoryNumbered, CurrentNamed
  <2>2. nextFile \notin Below(nextFile)
    BY <1>2 DEF Below
  <2> QED
    BY <1>1, <1>7, <2>1, <2>2 DEF AnswersInv, RecoveringOK
<1>9. \A n \in DOMAIN tables : n # nextFile => n \in DOMAIN tables' /\ tables'[n] = tables[n]
  BY <1>1 DEF Create
<1>10. Started' = Started /\ Sound' /\ FirstMade'
  BY <1>1 DEF AnswersInv, Sound, FirstMade, Started
<1>11. /\ Descr' = Descr /\ Cuts' = Cuts
       /\ \A c : FilesAt(Descr, c)' = FilesAt(Descr, c)
       /\ DiskOK' /\ KeepsNeededFiles
  <2>1. ASSUME NEW c \in Cuts, c > 0 PROVE TablesStay(FilesAt(Descr, c))
    <3>1. nextFile \notin FilesAt(Descr, c)
      BY <1>2, <1>8, <2>1 DEF Below
    <3>2. FilesAt(Descr, c) \subseteq DOMAIN tables
      BY <1>8, <2>1 DEF AnswersInv, DiskOK, Safe, Good
    <3> QED
      BY <1>9, <3>1, <3>2 DEF TablesStay
  <2>2. \A log : LogsGrow(log)
    BY <1>1, LogsStay
  <2> QED
    BY <1>1, <1>8, <1>10, <2>1, <2>2, DescrKept
<1>12. PICK w : w = version' \cup edit'.add
  OBVIOUS
<1>13. v \subseteq w /\ Good(w)' /\ InTables(v) \subseteq InTables(w)' /\ r \subseteq InTables(w)'
  <2>0. Good(v)' /\ InTables(v)' = InTables(v)
    BY <1>8, <1>9, <1>10, OthersStay
  <2>1. CASE r = {} /\ tables' = tables /\ edit' = edit
    <3>1. w = v
      BY <1>1, <1>7, <1>12, <2>1
    <3> QED
      BY <2>0, <2>1, <3>1
  <2>2. CASE /\ tables' = Create(tables, nextFile, r)
             /\ edit' = [edit EXCEPT !.add = @ \cup {nextFile}]
    <3>1. w = v \cup {nextFile}
      BY <1>1, <1>2, <1>7, <1>12, <2>2 DEF EditType
    <3>2. nextFile \in DOMAIN tables' /\ tables'[nextFile] = r
      BY <2>2 DEF Create
    <3>3. r # Torn
      <4>1. r \in SUBSET Writes
        BY <1>5, DBFilesAssumption DEF DBFilesAssumption, FilesInv, Typed, Started, Writes
      <4> QED
        BY <4>1, DBFilesAssumption DEF DBFilesAssumption
    <3>4. Good(w)'
      BY <2>0, <3>1, <3>2, <3>3 DEF Good
    <3>5. InTables(v)' \subseteq InTables(w)' /\ r \subseteq InTables(w)'
      BY <1>5, <1>10, <3>1, <3>2, <3>3 DEF InTables
    <3> QED
      BY <2>0, <3>1, <3>4, <3>5
  <2> QED
    BY <1>1, <1>4, <2>1, <2>2
<1>14. RecoveringOK'
  <2>1. ASSUME NEW kind \in Kinds
        PROVE  Answered(kind)' \subseteq
                 InTables(w)' \cup UNION {Survives(logs'[n], kind) : n \in toRecover'}
    <3>1. Answered(kind)' = Answered(kind)
      BY <1>1 DEF Answered
    <3>2. UNION {Survives(logs[n], kind) : n \in toRecover}
            \subseteq r \cup UNION {Survives(logs[n], kind) : n \in toRecover \ {l}}
      BY <1>5
    <3> QED
      BY <1>1, <1>8, <1>13, <3>1, <3>2
  <2>2. \A n \in DOMAIN logs' : n \in toRecover' \/ n < nextFile'
    BY <1>1, <1>2, <1>6, <1>8
  <2>3. Good(version \cup edit.add)' /\ InTables(version \cup edit.add)' = InTables(w)'
    BY <1>12, <1>13 DEF Good, InTables
  <2>4. \A c \in Cuts' : c > 0 => FilesAt(Descr, c)' \subseteq Below(nextFile)'
    BY <1>6, <1>8, <1>11 DEF Below
  <2>5. Len(Descr'.records) >= 1
    BY <1>8, <1>11
  <2> QED
    BY <1>1, <2>1, <2>2, <2>3, <2>4, <2>5 DEF RecoveringOK
<1> QED
  BY <1>1, <1>10, <1>11, <1>14, NotOpen DEF AnswersInv

LEMMA NewLogKeepsAnswers ==
  ASSUME DBFilesAssumption, FilesInv, AnswersInv, FilesInv', NewLog
  PROVE  AnswersInv' /\ KeepsNeededFiles
<1>1. /\ phase = "logs" /\ phase' = "manifest" /\ toRecover = {}
      /\ logs' = Create(logs, nextFile, NewFile)
      /\ logfile' = nextFile /\ nextFile' = nextFile + 1
      /\ edit' = [edit EXCEPT !.log = nextFile, !.next = nextFile + 1]
      /\ UNCHANGED <<current, manifests, tables, state, work, calls, history,
                     mem, imm, bgError, toRecover>>
  BY DEF NewLog
<1>2. nextFile \in Nat /\ edit \in EditType /\ DOMAIN logs \subseteq Nat
  BY DEF FilesInv, Typed, TypedFiles
<1>3. edit'.add = edit.add /\ edit'.log = nextFile
  BY <1>1, <1>2 DEF EditType
<1>4. /\ current # None /\ Len(Descr.records) >= 1
      /\ \A c \in Cuts : c > 0 => FilesAt(Descr, c) \subseteq Below(nextFile)
      /\ Good(version \cup edit.add)
      /\ \A kind \in Kinds : Answered(kind) \subseteq
           InTables(version \cup edit.add) \cup UNION {Survives(logs[n], kind) : n \in toRecover}
      /\ \A n \in DOMAIN logs : n < nextFile
  BY <1>1 DEF AnswersInv, RecoveringOK, FilesInv, CurrentNamed
<1>5. /\ nextFile \notin DOMAIN logs
      /\ DOMAIN logs' = DOMAIN logs \cup {nextFile} /\ logs'[nextFile] = NewFile
      /\ \A n \in DOMAIN logs : logs'[n] = logs[n]
  <2>1. nextFile \notin DOMAIN logs
    BY <1>2, <1>4
  <2> QED
    BY <1>1, <2>1 DEF Create
<1>6. Started' = Started /\ Sound' /\ FirstMade'
  <2>1. \A i \in 1 .. Len(NewFile.records) : NewFile.records[i] # Torn
    BY DEF NewFile
  <2>2. Sound'
    BY <1>1, <1>5, <2>1 DEF AnswersInv, Sound
  <2> QED
    BY <1>1, <2>2 DEF Started, AnswersInv, FirstMade
<1>7. /\ Descr' = Descr /\ Cuts' = Cuts
      /\ \A c : FilesAt(Descr, c)' = FilesAt(Descr, c)
      /\ DiskOK' /\ KeepsNeededFiles
  <2>1. \A c \in Cuts : c > 0 => TablesStay(FilesAt(Descr, c))
    BY <1>1, <1>4 DEF AnswersInv, DiskOK, Safe, Good, TablesStay
  <2>2. \A log : LogsGrow(log)
    BY <1>5, LogsStay
  <2> QED
    BY <1>1, <1>4, <1>6, <2>1, <2>2, DescrKept
<1>8. RecoveringOK'
  <2>1. Good(version \cup edit.add)' /\ InTables(version \cup edit.add)' = InTables(version \cup edit.add)
    BY <1>1, <1>3, <1>4, <1>6 DEF Good, InTables
  <2>2. \A kind \in Kinds : Answered(kind)' = Answered(kind)
    BY <1>1 DEF Answered
  <2>3. \A n \in DOMAIN logs' : n < nextFile'
    BY <1>1, <1>2, <1>4, <1>5
  <2>4. \A c \in Cuts' : c > 0 => FilesAt(Descr, c)' \subseteq Below(nextFile)'
    <3>1. Below(nextFile) \subseteq Below(nextFile')
      BY <1>1, <1>2 DEF Below
    <3> QED
      BY <1>4, <1>7, <3>1 DEF Below
  <2>5. logfile' \in DOMAIN logs' /\ edit'.log = logfile' /\ Len(Descr'.records) >= 1
    BY <1>1, <1>3, <1>4, <1>5, <1>7
  <2>6. \A kind \in Kinds : Answered(kind)' \subseteq InTables(version \cup edit.add)'
    BY <1>1, <1>4, <2>1, <2>2
  <2> QED
    BY <1>1, <2>1, <2>3, <2>4, <2>5, <2>6 DEF RecoveringOK
<1> QED
  BY <1>1, <1>6, <1>7, <1>8, NotOpen DEF AnswersInv

LEMMA NewManifestKeepsAnswers ==
  ASSUME DBFilesAssumption, FilesInv, AnswersInv, FilesInv', NewManifest
  PROVE  AnswersInv' /\ KeepsNeededFiles
<1> DEFINE e == [edit EXCEPT !.add = @ \cup version]
           m == [records |-> <<e>>, synced |-> 1]
<1>1. /\ phase = "manifest" /\ phase' = "current"
      /\ manifests' = Create(manifests, manifestNumber, m)
      /\ UNCHANGED <<current, logs, tables, memory, history>>
  BY DEF NewManifest
<1>2. /\ edit \in EditType /\ version \in SUBSET Nat /\ manifestNumber \in Nat
      /\ current # None /\ current \in Nat /\ current < manifestNumber
      /\ current \in DOMAIN manifests
  BY <1>1 DEF FilesInv, Typed, CurrentNamed
<1>3. e \in EditType
  BY <1>2 DEF EditType
<1>4. Len(m.records) = 1 /\ Whole(m, 1)
  <2> HIDE DEF e
  <2>1. 1 \in 0 .. 1
    OBVIOUS
  <2> QED
    BY <1>3, <2>1, FirstManifest
<1>5. manifests'[manifestNumber] = [records |-> <<[edit' EXCEPT !.add = @ \cup version']>>,
                                    synced |-> 1]
  BY <1>1 DEF Create
<1> HIDE DEF m
<1>6. manifests'[current] = manifests[current]
  <2>1. current # manifestNumber
    BY <1>2
  <2> QED
    BY <1>1, <1>2, <2>1 DEF Create
<1>7. Started' = Started /\ Sound' /\ FirstMade'
  <2>1. Sound'
    BY <1>1, <1>4 DEF AnswersInv, Sound, Create
  <2> QED
    BY <1>1, <1>5, <2>1 DEF Started, FirstMade
<1>8. /\ Descr' = Descr /\ Cuts' = Cuts
      /\ \A c : FilesAt(Descr, c)' = FilesAt(Descr, c)
      /\ DiskOK' /\ KeepsNeededFiles
  <2>1. \A c \in Cuts : c > 0 => TablesStay(FilesAt(Descr, c))
    BY <1>1, <1>2 DEF AnswersInv, DiskOK, Safe, Good, TablesStay
  <2>2. \A log : LogsGrow(log)
    BY <1>1, LogsStay
  <2>3. Len(Descr.records) >= 1
    BY <1>1 DEF AnswersInv, RecoveringOK
  <2> QED
    BY <1>1, <1>2, <1>6, <1>7, <2>1, <2>2, <2>3, DescrKept
<1>9. RecoveringOK'
  <2>1. Good(version \cup edit.add)' /\ InTables(version \cup edit.add)' = InTables(version \cup edit.add)
    BY <1>1, <1>7 DEF AnswersInv, RecoveringOK, Good, InTables
  <2>2. \A kind \in Kinds :
          Answered(kind)' = Answered(kind) /\ \A f : Survives(logs'[f], kind) = Survives(logs[f], kind)
    BY <1>1 DEF Answered
  <2>3. \A c \in Cuts' : c > 0 => FilesAt(Descr, c)' \subseteq Below(nextFile)'
    BY <1>1, <1>8 DEF AnswersInv, RecoveringOK, Below
  <2>4. ASSUME NEW kind \in Kinds
        PROVE  Answered(kind)' \subseteq InTables(version \cup edit.add)'
                 \cup UNION {Survives(logs'[n], kind) : n \in toRecover'}
    <3>1. Answered(kind) \subseteq InTables(version \cup edit.add)
             \cup UNION {Survives(logs[n], kind) : n \in toRecover}
      BY <1>1 DEF AnswersInv, RecoveringOK
    <3>2. UNION {Survives(logs'[n], kind) : n \in toRecover'}
            = UNION {Survives(logs[n], kind) : n \in toRecover}
      BY <1>1
    <3> QED
      BY <2>1, <2>2, <3>1, <3>2
  <2>5. /\ Len(Descr'.records) >= 1
        /\ logfile' \in DOMAIN logs' /\ edit'.log = logfile'
        /\ \A n \in DOMAIN logs' : n < nextFile'
    BY <1>1, <1>8 DEF AnswersInv, RecoveringOK
  <2>6. Good(version \cup edit.add)'
    BY <1>1, <2>1 DEF AnswersInv, RecoveringOK
  <2> QED
    BY <1>1, <2>3, <2>4, <2>5, <2>6 DEF RecoveringOK
<1> QED
  BY <1>1, <1>7, <1>8, <1>9, NotOpen DEF AnswersInv

(* The new descriptor has one cut: all the tables that were recovered.     *)
LEMMA SetCurrentFileKeepsAnswers ==
  ASSUME DBFilesAssumption, FilesInv, AnswersInv, FilesInv', SetCurrentFile
  PROVE  AnswersInv' /\ KeepsNeededFiles
<1> DEFINE e == [edit EXCEPT !.add = @ \cup version]
           m == [records |-> <<e>>, synced |-> 1]
<1>1. /\ phase = "current" /\ phase' = "open"
      /\ current' = manifestNumber
      /\ version' = version \cup edit.add
      /\ logNumber' = edit.log
      /\ DeleteObsoleteFiles(bgError, version', edit.log, manifests)
      /\ edit' = Edit({}, {}, 0, 0)
      /\ acked' = acked \cup Stored(version')
      /\ durable' = durable \cup Stored(version')
      /\ UNCHANGED <<memtables, work, calls, nextFile, manifestNumber, bgError,
                     toRecover, started, stops>>
  BY DEF SetCurrentFile
<1>2. /\ edit \in EditType /\ edit.log \in Nat /\ version \in SUBSET Nat
      /\ manifestNumber \in Nat /\ nextFile \in Nat /\ logfile \in Nat
      /\ TypedFiles(manifests, ManifestType)
      /\ \A n \in DOMAIN manifests : Numbers(n, manifests[n])
      /\ manifestNumber \in DOMAIN manifests /\ bgError \in BOOLEAN
      /\ DOMAIN logs \subseteq Nat
  BY <1>1 DEF FilesInv, Typed, TypedFiles, EditType, MemoryNumbered, ManifestsNumbered
<1>3. /\ mem = {} /\ imm = None /\ writing = None /\ flush = None /\ compaction = None
      /\ applying = "no" /\ toRecover = {} /\ current # None
  BY <1>1 DEF FilesInv, Closed, Recovering, CurrentNamed
<1>4. /\ manifests'[manifestNumber] = manifests[manifestNumber]
      /\ DOMAIN tables \cap version' \subseteq DOMAIN tables'
      /\ \A n \in DOMAIN tables' : n \in DOMAIN tables /\ tables'[n] = tables[n]
      /\ \A n \in DOMAIN logs : n >= edit.log => n \in DOMAIN logs'
      /\ \A n \in DOMAIN logs' : n \in DOMAIN logs /\ logs'[n] = logs[n]
      /\ \A n \in DOMAIN manifests' : n \in DOMAIN manifests /\ manifests'[n] = manifests[n]
  <2>1. PICK live, error, log, ms :
          live = version' /\ error = bgError /\ log = edit.log /\ ms = manifests
    OBVIOUS
  <2>2. /\ DeleteObsoleteFiles(error, live, log, ms) /\ error \in BOOLEAN /\ log \in Nat
        /\ TypedFiles(ms, ManifestType) /\ manifestNumber \in DOMAIN ms
        /\ \A n \in DOMAIN ms : Numbers(n, ms[n])
    BY <1>1, <1>2, <2>1
  <2>3. /\ manifests'[manifestNumber] = ms[manifestNumber]
        /\ DOMAIN tables \cap live \subseteq DOMAIN tables'
        /\ \A n \in DOMAIN tables' : n \in DOMAIN tables /\ tables'[n] = tables[n]
        /\ \A n \in DOMAIN logs : n >= log => n \in DOMAIN logs'
        /\ \A n \in DOMAIN logs' : n \in DOMAIN logs /\ logs'[n] = logs[n]
    BY <2>2, FilesLeft
  <2>4. Thinned(manifests', ms, IF error THEN DOMAIN ms ELSE {n \in Nat : n >= manifestNumber})
    BY <2>2, ObsoleteDeleted DEF FilesInv, Typed
  <2> QED
    BY <2>1, <2>3, <2>4 DEF Thinned
<1>5. /\ Good(version \cup edit.add)
      /\ \A kind \in Kinds : Answered(kind) \subseteq InTables(version \cup edit.add)
      /\ logfile \in DOMAIN logs /\ edit.log = logfile /\ \A n \in DOMAIN logs : n < nextFile
      /\ Len(Descr.records) >= 1
      /\ manifests[manifestNumber] = m
      /\ durable \subseteq acked
  BY <1>1, <1>3 DEF AnswersInv, RecoveringOK, FirstMade, DiskOK
<1>6. PICK v : v = version' /\ v = version \cup edit.add
  BY <1>1
<1>7. e \in EditType /\ e.add = v /\ e.log = edit.log
  BY <1>2, <1>6 DEF EditType
<1>8. Len(m.records) = 1 /\ FilesAt(m, 1) = v /\ m.records[1].log = edit.log /\ m.synced = 1
  <2> HIDE DEF e
  <2>1. 1 \in 0 .. 1
    OBVIOUS
  <2> QED
    BY <1>7, <2>1, FirstManifest
<1> HIDE DEF m
<1>9. /\ Descr' = m /\ Cuts' = {1} /\ FilesAt(Descr, 1)' = v
      /\ FilesAt(Descr', 1) = v
  BY <1>1, <1>4, <1>5, <1>8 DEF Descr, Cuts, FilesAt
<1>10. Started' = Started /\ Sound' /\ FirstMade'
  <2>1. Sound'
    BY <1>4 DEF AnswersInv, Sound
  <2> QED
    BY <1>1, <2>1 DEF Started, FirstMade
<1>11. /\ Good(v) /\ Stored(v) = InTables(v) /\ TablesStay(v)
       /\ Good(v)' /\ InTables(v) \subseteq InTables(v)'
  <2>1. Good(v) /\ v \subseteq DOMAIN tables
    BY <1>5, <1>6 DEF Good
  <2>2. TablesStay(v)
    BY <1>4, <1>6, <2>1 DEF TablesStay
  <2> QED
    BY <1>10, <2>1, <2>2, StoredInTables, TablesKeep
<1>12. acked' \subseteq InTables(v)' /\ durable' \subseteq acked'
  <2>1. acked \subseteq InTables(v)
    BY <1>5, <1>6 DEF Answered, Kinds
  <2> QED
    BY <1>1, <1>5, <1>6, <1>11, <2>1
<1>13. DiskOK'
  <2>1. ASSUME NEW c \in Cuts', c > 0
        PROVE  Safe(FilesAt(Descr, c), Descr.records[c].log)'
    <3>1. c = 1 /\ FilesAt(Descr, c)' = v
      BY <1>9, <2>1
    <3>2. Good(FilesAt(Descr, c))' /\ InTables(FilesAt(Descr, c))' = InTables(v)'
      BY <1>11, <3>1 DEF Good, InTables
    <3>3. \A kind \in Kinds : Answered(kind)' \subseteq InTables(v)'
      BY <1>12 DEF Answered
    <3> QED
      BY <3>2, <3>3 DEF Safe
  <2>2. current' # None /\ Descr'.synced # 0
    BY <1>1, <1>2, <1>8, <1>9, DBFilesAssumption DEF DBFilesAssumption
  <2> QED
    BY <1>12, <2>1, <2>2 DEF DiskOK
<1>14. OpenOK'
  <2>1. logfile' \in DOMAIN logs' /\ \A n \in DOMAIN logs' : n < nextFile'
    BY <1>1, <1>2, <1>4, <1>5
  <2>2. /\ Descr'.synced = 1 /\ Len(Descr'.records) = 1 /\ Descr'.records[1].log = edit.log
        /\ logNumber' = edit.log /\ logfile' = edit.log
    BY <1>1, <1>5, <1>8, <1>9
  <2>3. InTables(FilesAt(Descr, 1))' = InTables(v)' /\ InTables(version)' = InTables(v)'
        /\ Good(version)'
    BY <1>6, <1>9, <1>11 DEF InTables, Good
  <2>4. \A c \in Cuts' :
          /\ logNumber' <= Descr'.records[c].log /\ Descr'.records[c].log <= logfile'
          /\ acked' \subseteq InTables(FilesAt(Descr, c))' \cup Memory'
    BY <1>2, <1>9, <1>12, <2>2, <2>3
  <2>5. FilesAt(Descr', Descr'.synced) = version'
    BY <1>6, <1>9, <2>2
  <2>6. mem' = {} /\ applying' = "no" /\ writing' = None
    BY <1>1, <1>3
  <2> QED
    BY <1>12, <2>1, <2>2, <2>3, <2>4, <2>5, <2>6 DEF OpenOK
<1>15. FlushOK' /\ MergeOK'
  BY <1>1, <1>3 DEF FlushOK, MergeOK
<1>16. RecoveringOK'
  BY <1>1 DEF RecoveringOK
<1>17. KeepsNeededFiles
  <2>1. TablesStay(FilesAt(Descr, Len(Descr.records)) \cap FilesAt(Descr', Len(Descr'.records)))
    BY <1>8, <1>9, <1>11 DEF TablesStay
  <2>2. \A n \in DOMAIN logs : n >= edit.log => n \in DOMAIN logs' /\ Grown(logs[n], logs'[n])
    BY <1>4, GrownItself DEF FilesInv, Typed, TypedFiles
  <2>3. current' # None
    BY <1>1, <1>2, DBFilesAssumption DEF DBFilesAssumption
  <2>4. Len(Descr'.records) = 1 /\ Descr'.records[Len(Descr'.records)].log = edit.log
    BY <1>8, <1>9
  <2>5. NeededStay
    BY <1>5, <2>1, <2>2, <2>3, <2>4 DEF NeededStay
  <2> QED
    BY <1>10, <2>5, NeededFiles
<1> QED
  BY <1>10, <1>13, <1>14, <1>15, <1>16, <1>17 DEF AnswersInv

LEMMA OpenFailsKeepsAnswers ==
  ASSUME DBFilesAssumption, FilesInv, AnswersInv, FilesInv', OpenFails
  PROVE  AnswersInv' /\ KeepsNeededFiles
<1>1. /\ phase = "current" /\ phase' = "closed"
      /\ manifests' = Only(manifests, DOMAIN manifests \ {manifestNumber})
      /\ UNCHANGED <<current, logs, tables, acked, durable, started>>
  BY DEF OpenFails
<1>2. /\ current \in DOMAIN manifests /\ current \in Nat /\ manifestNumber \in Nat
      /\ current < manifestNumber
  BY <1>1 DEF FilesInv, CurrentNamed, Typed
<1>3. manifests'[current] = manifests[current]
  <2>1. current # manifestNumber
    BY <1>2
  <2> QED
    BY <1>1, <1>2, <2>1 DEF Only
<1>4. Sound' /\ FirstMade' /\ RecoveringOK'
  BY <1>1 DEF AnswersInv, Sound, FirstMade, RecoveringOK, Only
<1>5. DiskOK'
  <2>1. \A c \in Cuts : c > 0 => TablesStay(FilesAt(Descr, c)) /\ LogsGrow(Descr.records[c].log)
    <3>1. \A log : LogsGrow(log)
      BY <1>1, LogsStay
    <3> QED
      BY <1>1, <1>2, <3>1, DBFilesAssumption
         DEF DBFilesAssumption, AnswersInv, DiskOK, Safe, Good, TablesStay
  <2>2. Started' = Started
    BY <1>1 DEF Started
  <2> QED
    BY <1>1, <1>3, <2>1, <2>2, DiskKept
<1>6. KeepsNeededFiles
  BY <1>1 DEF KeepsNeededFiles
<1> QED
  BY <1>1, <1>4, <1>5, <1>6, NotOpen DEF AnswersInv

(* Crashes.  A table that was being made for the recovery of a log has a   *)
(* number that the descriptor does not name.                               *)
LEMMA StopLeavesNeeded ==
  ASSUME DBFilesAssumption, FilesInv, AnswersInv, Stop, current # None
  PROVE  \A c \in Cuts : c > 0 => TablesStay(FilesAt(Descr, c))
<1>1. tables' = tables \/ (phase = "logs" /\ tables' = Create(tables, nextFile, Torn))
  BY DEF Stop
<1>2. SUFFICES ASSUME NEW c \in Cuts, c > 0 PROVE TablesStay(FilesAt(Descr, c))
  OBVIOUS
<1>3. FilesAt(Descr, c) \subseteq DOMAIN tables
  BY <1>2 DEF AnswersInv, DiskOK, Safe, Good
<1>4. CASE tables' = tables
  BY <1>3, <1>4 DEF TablesStay
<1>5. CASE phase = "logs" /\ tables' = Create(tables, nextFile, Torn)
  <2>1. FilesAt(Descr, c) \subseteq Below(nextFile)
    BY <1>2, <1>5 DEF AnswersInv, RecoveringOK
  <2>2. nextFile \notin Below(nextFile)
    BY DEF FilesInv, Typed, Below
  <2> QED
    BY <1>3, <1>5, <2>1, <2>2 DEF TablesStay, Create
<1> QED
  BY <1>1, <1>4, <1>5

LEMMA ProcessCrashKeepsAnswers ==
  ASSUME DBFilesAssumption, FilesInv, AnswersInv, FilesInv', ProcessCrash
  PROVE  AnswersInv' /\ KeepsNeededFiles
<1>1. /\ Stop /\ phase' = "closed"
      /\ UNCHANGED <<current, manifests, logs, acked, durable, started>>
  BY DEF ProcessCrash, Stop
<1>2. Sound' /\ FirstMade' /\ RecoveringOK'
  BY <1>1 DEF AnswersInv, Sound, FirstMade, RecoveringOK
<1>3. DiskOK'
  <2>1. CASE current = None
    BY <1>1, <2>1 DEF AnswersInv, DiskOK
  <2>2. CASE current # None
    <3>1. \A c \in Cuts : c > 0 => TablesStay(FilesAt(Descr, c))
      BY <1>1, <2>2, StopLeavesNeeded
    <3>2. \A log : LogsGrow(log)
      BY <1>1, LogsStay
    <3>3. Started' = Started
      BY <1>1 DEF Started
    <3> QED
      BY <1>1, <3>1, <3>2, <3>3, DiskKept
  <2> QED
    BY <2>1, <2>2
<1>4. KeepsNeededFiles
  BY <1>1 DEF KeepsNeededFiles
<1> QED
  BY <1>1, <1>2, <1>3, <1>4, NotOpen DEF AnswersInv

(* What a machine's crash leaves of a log is what was synced, or more.     *)
LEMMA CutLogSurvives ==
  ASSUME NEW S, NEW l \in LogType(S), NEW k \in 0 .. Len(l.records), l.synced <= k
  PROVE  /\ \A kind : Survives(l, "machine") \subseteq Survives(CutOff(l, k), kind)
         /\ Len(CutOff(l, k).records) = k
         /\ \A i \in 1 .. k : CutOff(l, k).records[i] = l.records[i]
<1>1. /\ l.records \in Seq(S \cup {Torn}) /\ Len(l.records) \in Nat /\ l.synced \in Nat
  BY DEF LogType
<1>2. /\ CutOff(l, k).records = SubSeq(l.records, 1, k) /\ CutOff(l, k).synced = k
  BY DEF CutOff
<1>3. /\ Len(CutOff(l, k).records) = k
      /\ \A i \in 1 .. k : CutOff(l, k).records[i] = l.records[i]
  BY <1>1, <1>2
<1>4. \A kind : Survives(CutOff(l, k), kind) = {l.records[i] : i \in 1 .. k}
  BY <1>2, <1>3 DEF Survives
<1>5. 1 .. l.synced \subseteq 1 .. k
  BY <1>1
<1>6. Survives(l, "machine") = {l.records[i] : i \in 1 .. l.synced}
  BY DEF Survives
<1> QED
  BY <1>3, <1>4, <1>5, <1>6

LEMMA MachineCrashKeepsAnswers ==
  ASSUME DBFilesAssumption, FilesInv, AnswersInv, FilesInv', MachineCrash
  PROVE  AnswersInv' /\ KeepsNeededFiles
<1>1. /\ Stop /\ phase' = "closed" /\ acked' = durable
      /\ UNCHANGED <<current, durable, started>>
      /\ \E cut \in Cut(manifests) : manifests' = Truncated(manifests, cut)
      /\ \E cut \in Cut(logs) : logs' = Truncated(logs, cut)
  BY DEF MachineCrash, Stop
<1>2. TypedFiles(manifests, ManifestType) /\ TypedFiles(logs, LogType(Started))
  BY DEF FilesInv, Typed
<1>3. /\ DOMAIN manifests' = DOMAIN manifests
      /\ \A n \in DOMAIN manifests : \E k \in 0 .. Len(manifests[n].records) :
           manifests[n].synced <= k /\ manifests'[n] = CutOff(manifests[n], k)
  <2>1. PICK cut \in Cut(manifests) : manifests' = Truncated(manifests, cut)
    BY <1>1
  <2> QED
    BY <2>1, <1>2, CutTypes DEF TypedFiles, ManifestType
<1>4. /\ DOMAIN logs' = DOMAIN logs
      /\ \A n \in DOMAIN logs : \E k \in 0 .. Len(logs[n].records) :
           logs[n].synced <= k /\ logs'[n] = CutOff(logs[n], k)
  <2>1. PICK cut \in Cut(logs) : logs' = Truncated(logs, cut)
    BY <1>1
  <2> QED
    BY <2>1, <1>2, CutTypes DEF TypedFiles, LogType
<1>5. Sound'
  <2>1. ASSUME NEW n \in DOMAIN manifests PROVE Whole(manifests'[n], Len(manifests'[n].records))
    <3>1. PICK k \in 0 .. Len(manifests[n].records) : manifests'[n] = CutOff(manifests[n], k)
      BY <1>3
    <3>2. manifests[n] \in ManifestType /\ Whole(manifests[n], Len(manifests[n].records))
      BY <1>2 DEF TypedFiles, AnswersInv, Sound
    <3>3. Len(manifests[n].records) \in Nat
      BY <3>2 DEF ManifestType
    <3> QED
      BY <3>1, <3>2, <3>3, CutManifest, WholePrefix
  <2>2. ASSUME NEW n \in DOMAIN logs
        PROVE  \A i \in 1 .. Len(logs'[n].records) : logs'[n].records[i] # Torn
    <3>1. PICK k \in 0 .. Len(logs[n].records) :
            logs[n].synced <= k /\ logs'[n] = CutOff(logs[n], k)
      BY <1>4
    <3>2. logs[n] \in LogType(Started) /\ \A i \in 1 .. Len(logs[n].records) : logs[n].records[i] # Torn
      BY <1>2 DEF TypedFiles, AnswersInv, Sound
    <3>3. 1 .. k \subseteq 1 .. Len(logs[n].records)
      BY <3>1, <3>2 DEF LogType
    <3> QED
      BY <3>1, <3>2, <3>3, CutLogSurvives
  <2> QED
    BY <1>3, <1>4, <2>1, <2>2 DEF Sound
<1>6. FirstMade' /\ RecoveringOK'
  BY <1>1 DEF FirstMade, RecoveringOK
<1>7. DiskOK'
  <2>1. CASE current = None
    BY <1>1, <2>1 DEF AnswersInv, DiskOK
  <2>2. CASE current # None
    <3>1. /\ Descr \in ManifestType /\ current \in DOMAIN manifests
          /\ Descr.synced \in Nat /\ Len(Descr.records) \in Nat
      BY <2>2, DescrTyped DEF AnswersInv
    <3>2. PICK k \in 0 .. Len(Descr.records) : Descr.synced <= k /\ Descr' = CutOff(Descr, k)
      BY <1>1, <1>3, <3>1 DEF Descr
    <3>3. /\ Descr'.synced = k /\ Len(Descr'.records) = k
          /\ \A c \in 0 .. k : FilesAt(Descr', c) = FilesAt(Descr, c)
          /\ \A c \in 1 .. k : Descr'.records[c] = Descr.records[c]
      BY <3>1, <3>2, CutManifest
    <3>4. k \in Cuts /\ \A c \in Cuts' : c = k
      BY <3>1, <3>2, <3>3 DEF Cuts
    <3>5. k = 0 => acked' = {}
      <4>1. k = 0 => Descr.synced = 0
        BY <3>1, <3>2
      <4> QED
        BY <1>1, <2>2, <4>1 DEF AnswersInv, DiskOK
    <3>6. ASSUME k > 0 PROVE Safe(FilesAt(Descr, k), Descr.records[k].log)'
      <4>1. PICK files, log : files = FilesAt(Descr, k) /\ log = Descr.records[k].log
        OBVIOUS
      <4>2. Safe(files, log) /\ TablesStay(files)
        BY <1>1, <2>2, <3>4, <3>6, <4>1, StopLeavesNeeded DEF AnswersInv, DiskOK
      <4>3. Started' = Started
        BY <1>1 DEF Started
      <4>4. Good(files)' /\ InTables(files) \subseteq InTables(files)'
        BY <4>2, <4>3, TablesKeep DEF Safe
      <4>5. \A kind \in Kinds : InLogs("machine", log) \subseteq InLogs(kind, log)'
        <5>1. SUFFICES ASSUME NEW kind \in Kinds, NEW f \in DOMAIN logs, f >= log
                       PROVE  f \in DOMAIN logs' /\ Survives(logs[f], "machine") \subseteq Survives(logs'[f], kind)
          BY <4>3 DEF InLogs
        <5>2. PICK j \in 0 .. Len(logs[f].records) :
                logs[f].synced <= j /\ logs'[f] = CutOff(logs[f], j)
          BY <1>4
        <5>3. logs[f] \in LogType(Started)
          BY <1>2 DEF TypedFiles
        <5> QED
          BY <1>4, <5>2, <5>3, CutLogSurvives
      <4>6. \A kind \in Kinds : Answered(kind)' = Answered("machine")
        BY <1>1 DEF Answered
      <4>7. Answered("machine") \subseteq InTables(files) \cup InLogs("machine", log)
        BY <4>2 DEF Safe, Kinds
      <4>8. Safe(files, log)'
        BY <4>4, <4>5, <4>6, <4>7 DEF Safe
      <4>9. k \in 0 .. k /\ k \in 1 .. k
        BY <3>1, <3>2, <3>6
      <4>10. FilesAt(Descr, k)' = files /\ (Descr.records[k].log)' = log
        BY <3>3, <4>1, <4>9 DEF FilesAt
      <4> QED
        BY <4>8, <4>10 DEF Safe
    <3>7. \A c \in Cuts' : c > 0 => Safe(FilesAt(Descr, c), Descr.records[c].log)'
      <4> SUFFICES ASSUME NEW c \in Cuts', c > 0
                   PROVE  Safe(FilesAt(Descr, c), Descr.records[c].log)'
        OBVIOUS
      <4> QED
        BY <3>4, <3>6
    <3> QED
      BY <1>1, <2>2, <3>3, <3>5, <3>7 DEF DiskOK
  <2> QED
    BY <2>1, <2>2
<1>8. KeepsNeededFiles
  BY <1>1 DEF KeepsNeededFiles
<1> QED
  BY <1>1, <1>5, <1>6, <1>7, <1>8, NotOpen DEF AnswersInv

(* The steps of writers.                                                   *)
LEMMA AppendedSurvives ==
  ASSUME NEW S, NEW l \in LogType(S), NEW r, r # Torn,
         \A i \in 1 .. Len(l.records) : l.records[i] # Torn
  PROVE  /\ Grown(l, Appended(l, r)) /\ r \in Survives(Appended(l, r), "process")
         /\ \A i \in 1 .. Len(Appended(l, r).records) : Appended(l, r).records[i] # Torn
<1> DEFINE n == Len(l.records)
<1>1. l.records \in Seq(S \cup {Torn}) /\ n \in Nat /\ l.synced \in Nat
  BY DEF LogType
<1>2. Appended(l, r).records = Append(l.records, r) /\ Appended(l, r).synced = l.synced
  BY DEF LogType, Appended
<1>3. PICK a : a = Appended(l, r)
  OBVIOUS
<1>4. /\ Len(a.records) = n + 1 /\ a.records[n + 1] = r /\ a.synced = l.synced
      /\ \A i \in 1 .. n : a.records[i] = l.records[i]
  BY <1>1, <1>2, <1>3
<1> HIDE DEF n
<1>5. n <= n + 1 /\ n + 1 \in 1 .. n + 1 /\ \A i \in 1 .. n + 1 : i \in 1 .. n \/ i = n + 1
  BY <1>1
<1>6. Grown(l, a)
  BY <1>1, <1>4, <1>5 DEF Grown, n
<1>7. r \in Survives(a, "process")
  BY <1>4, <1>5 DEF Survives
<1>8. \A i \in 1 .. n + 1 : a.records[i] # Torn
  BY <1>4, <1>5 DEF n
<1> QED
  BY <1>3, <1>4, <1>6, <1>7, <1>8

LEMMA SyncedSurvives ==
  ASSUME NEW S, NEW l \in LogType(S)
  PROVE  /\ Grown(l, Synced(l)) /\ Synced(l).records = l.records
         /\ \A kind : Survives(Synced(l), kind) = Survives(l, "process")
<1>1. Len(l.records) \in Nat /\ l.synced \in Nat /\ l.synced <= Len(l.records)
  BY DEF LogType
<1>2. Synced(l).records = l.records /\ Synced(l).synced = Len(l.records)
  BY DEF LogType, Synced
<1>3. Grown(l, Synced(l))
  BY <1>1, <1>2 DEF Grown
<1> QED
  BY <1>2, <1>3 DEF Survives

(* A step that leaves the tables as they are, but may start a write.       *)
LEMMA TablesSame ==
  ASSUME FilesInv, tables' = tables, Started \subseteq Started', NEW files, files \subseteq DOMAIN tables
  PROVE  InTables(files)' = InTables(files) /\ (Good(files) <=> Good(files)') /\ TablesStay(files)
<1>1. \A n \in files : tables[n] # Torn => tables[n] \subseteq Started
  <2>1. \A n \in DOMAIN tables : tables[n] \in (SUBSET Started) \cup {Torn}
    BY DEF FilesInv, Typed, TypedFiles
  <2> QED
    BY <2>1
<1> QED
  BY <1>1 DEF InTables, Good, TablesStay

LEMMA BackgroundKept ==
  ASSUME FilesInv, AnswersInv, tables' = tables, Started \subseteq Started', Descr' = Descr, Cuts' = Cuts,
         UNCHANGED <<flush, compaction, applying, edit, version, reading, logNumber>>,
         flush # None => logfile' = logfile /\ imm' = imm
  PROVE  FlushOK' /\ MergeOK'
<1>1. FlushOK'
  BY DEF AnswersInv, FlushOK, FilesAt
<1>2. MergeOK'
  <2>1. CASE compaction = None
    BY <2>1 DEF AnswersInv, MergeOK
  <2>2. CASE compaction # None
    <3>1. PICK b, d, i : b = compaction.base /\ d = compaction.done /\ i = compaction.inputs
      OBVIOUS
    <3>2. Good(b) /\ Good(d) /\ i \subseteq b /\ InTables(i) \subseteq InTables(d) \cup compaction.left
      BY <2>2, <3>1 DEF AnswersInv, MergeOK
    <3>3. Good(b)' /\ Good(d)' /\ InTables(i)' = InTables(i) /\ InTables(d)' = InTables(d)
      <4>1. b \subseteq DOMAIN tables /\ d \subseteq DOMAIN tables /\ i \subseteq DOMAIN tables
        BY <3>2 DEF Good
      <4> QED
        BY <3>2, <4>1, TablesSame
    <3>4. /\ Good(compaction.base)' /\ Good(compaction.done)'
          /\ InTables(compaction.inputs)' = InTables(i)' /\ InTables(compaction.done)' = InTables(d)'
      BY <3>1, <3>3 DEF Good, InTables
    <3> QED
      BY <2>2, <3>1, <3>2, <3>3, <3>4 DEF AnswersInv, MergeOK, FilesAt
  <2> QED
    BY <2>1, <2>2
<1> QED
  BY <1>1, <1>2

LEMMA AddRecordKeepsAnswers ==
  ASSUME DBFilesAssumption, FilesInv, AnswersInv, FilesInv', NEW sync \in SyncOptions,
         AddRecord(sync)
  PROVE  AnswersInv' /\ KeepsNeededFiles
<1> DEFINE w == started + 1
<1>1. /\ phase = "open" /\ started < MaxWrites /\ started' = w /\ writing = None
      /\ logs' = [logs EXCEPT ![logfile] = Appended(@, w)]
      /\ writing' = [id |-> w, sync |-> sync]
      /\ UNCHANGED <<current, manifests, tables, phase, state, memtables, work,
                     nextFile, bgError, edit, toRecover, reading, acked, durable, stops>>
  BY DEF AddRecord
<1>2. Started \subseteq Started' /\ w \notin Started /\ w # Torn
  <2>1. started \in Nat
    BY DEF FilesInv, Typed
  <2> QED
    BY <1>1, <2>1, DBFilesAssumption DEF Started, DBFilesAssumption
<1> HIDE DEF w
<1>3. logfile \in DOMAIN logs /\ logs[logfile] \in LogType(Started)
  BY <1>1 DEF AnswersInv, OpenOK, FilesInv, Typed, TypedFiles
<1>4. /\ DOMAIN logs' = DOMAIN logs /\ logs'[logfile] = Appended(logs[logfile], w)
      /\ \A n \in DOMAIN logs : n # logfile => logs'[n] = logs[n]
  BY <1>1, <1>3
<1>5. /\ Grown(logs[logfile], logs'[logfile]) /\ w \in Survives(logs'[logfile], "process")
      /\ \A i \in 1 .. Len(logs'[logfile].records) : logs'[logfile].records[i] # Torn
  BY <1>2, <1>3, <1>4, AppendedSurvives DEF AnswersInv, Sound
<1>6. \A log : LogsGrow(log)
  <2>1. \A n \in DOMAIN logs : Grown(logs[n], logs[n])
    BY GrownItself DEF FilesInv, Typed, TypedFiles
  <2> QED
    BY <1>4, <1>5, <2>1 DEF LogsGrow
<1>7. Sound' /\ FirstMade' /\ RecoveringOK'
  BY <1>1, <1>4, <1>5 DEF AnswersInv, Sound, FirstMade, RecoveringOK
<1>8. /\ current # None /\ Len(Descr.records) >= 1
      /\ \A c \in Cuts : TablesStay(FilesAt(Descr, c)) /\ FilesAt(Descr, c) \subseteq DOMAIN tables
  BY <1>1, OpenCuts DEF TablesStay, Good
<1>9. /\ Descr' = Descr /\ Cuts' = Cuts
      /\ \A c : FilesAt(Descr, c)' = FilesAt(Descr, c)
      /\ DiskOK' /\ KeepsNeededFiles
  BY <1>1, <1>2, <1>6, <1>7, <1>8, DescrKept
<1>10. FlushOK' /\ MergeOK'
  BY <1>1, <1>2, <1>9, BackgroundKept
<1>11. OpenOK'
  <2>1. ASSUME NEW c \in Cuts
        PROVE  InTables(FilesAt(Descr, c))' = InTables(FilesAt(Descr, c))
    <3>1. PICK f : f = FilesAt(Descr, c)
      OBVIOUS
    <3>2. InTables(f)' = InTables(f)
      BY <1>1, <1>2, <1>8, <3>1, TablesSame
    <3> QED
      BY <1>9, <3>1, <3>2 DEF InTables
  <2>2. Good(version)' /\ InTables(version)' = InTables(version)
    <3>1. PICK f : f = version
      OBVIOUS
    <3>2. Good(f) /\ f \subseteq DOMAIN tables
      BY <1>1, <3>1 DEF AnswersInv, OpenOK, Good
    <3>3. InTables(f)' = InTables(f) /\ Good(f)'
      BY <1>1, <1>2, <3>2, TablesSame
    <3> QED
      BY <1>1, <3>1, <3>3 DEF InTables, Good
  <2>3. Memory' = Memory
    BY <1>1 DEF Memory
  <2>4. \A kind \in Kinds :
          /\ Answered(kind)' = Answered(kind)
          /\ Survives(logs[logfile], kind) \subseteq Survives(logs'[logfile], kind)
    <3>1. logs'[logfile] \in LogType(Started')
      BY <1>3, <1>4 DEF FilesInv, Typed, TypedFiles
    <3> QED
      BY <1>1, <1>3, <1>5, <3>1, GrownSurvives DEF Answered
  <2>5. writing' # None =>
          writing'.id \notin acked' /\ writing'.id \in Survives(logs'[logfile'], "process")
    BY <1>1, <1>2, <1>5 DEF FilesInv, Typed
  <2>6. \A kind \in Kinds : (Answered(kind) \cap mem \subseteq Survives(logs[logfile], kind))'
    BY <1>1, <2>4 DEF AnswersInv, OpenOK
  <2>7. \A c \in Cuts' :
         /\ logNumber' <= Descr'.records[c].log /\ Descr'.records[c].log <= logfile'
         /\ acked' \subseteq InTables(FilesAt(Descr, c))' \cup Memory'
    BY <1>1, <1>9, <2>1, <2>3 DEF AnswersInv, OpenOK
  <2>8. /\ ~bgError' =>
             /\ Descr'.synced = IF applying' = "logged" THEN Len(Descr'.records) - 1
                                                        ELSE Len(Descr'.records)
             /\ FilesAt(Descr', Descr'.synced) = version'
        /\ applying' = "logged" =>
             Descr'.records[Len(Descr'.records)] = edit' /\ Descr'.synced < Len(Descr'.records)
    BY <1>1, <1>9 DEF AnswersInv, OpenOK
  <2>9. /\ Descr'.synced >= 1 /\ logfile' \in DOMAIN logs'
        /\ \A n \in DOMAIN logs' : n < nextFile'
        /\ acked' \subseteq InTables(version)' \cup Memory'
    BY <1>1, <1>4, <1>9, <2>2, <2>3 DEF AnswersInv, OpenOK
  <2> QED
    BY <2>2, <2>5, <2>6, <2>7, <2>8, <2>9 DEF OpenOK
<1> QED
  BY <1>7, <1>9, <1>10, <1>11 DEF AnswersInv

(* No record is written in part.                                           *)
LEMMA NothingTorn ==
  ASSUME WholeRecords
  PROVE  ~AddRecordFails /\ ~EditTorn
BY DEF WholeRecords, AddRecordFails, EditTorn

LEMMA SyncAndInsertKeepsAnswers ==
  ASSUME DBFilesAssumption, FilesInv, AnswersInv, FilesInv', SyncAndInsert
  PROVE  AnswersInv' /\ KeepsNeededFiles
<1> DEFINE w == writing.id
<1>1. /\ writing # None
      /\ logs' = IF writing.sync THEN [logs EXCEPT ![logfile] = Synced(@)] ELSE logs
      /\ mem' = mem \cup {w}
      /\ acked' = acked \cup {w}
      /\ durable' = IF writing.sync THEN durable \cup {w} ELSE durable
      /\ writing' = None
      /\ UNCHANGED <<current, manifests, tables, phase, state, work, nextFile,
                     logfile, imm, bgError, edit, toRecover, reading, started, stops>>
  BY DEF SyncAndInsert
<1>2. phase = "open" /\ Started' = Started
  BY <1>1 DEF FilesInv, Closed, Started
<1>3. /\ logfile \in DOMAIN logs /\ logs[logfile] \in LogType(Started)
      /\ w \notin acked /\ w \in Survives(logs[logfile], "process") /\ w \in Started
      /\ durable \subseteq acked /\ logfile \in Nat
  BY <1>1, <1>2 DEF AnswersInv, OpenOK, DiskOK, FilesInv, Typed, TypedFiles
<1> HIDE DEF w
<1>4. PICK l, m : l = logs[logfile] /\ m = logs'[logfile]
  OBVIOUS
<1>5. /\ DOMAIN logs' = DOMAIN logs
      /\ m = (IF writing.sync THEN Synced(l) ELSE l)
      /\ \A n \in DOMAIN logs : n # logfile => logs'[n] = logs[n]
  BY <1>1, <1>3, <1>4
<1>6. /\ Grown(l, m) /\ m.records = l.records
      /\ w \in Survives(m, "process") /\ (writing.sync => w \in Survives(m, "machine"))
      /\ \A kind : Survives(l, kind) \subseteq Survives(m, kind)
  <2>1. Grown(l, l) /\ Grown(l, Synced(l)) /\ Synced(l).records = l.records
        /\ \A kind : Survives(Synced(l), kind) = Survives(l, "process")
    BY <1>3, <1>4, SyncedSurvives, GrownItself
  <2>2. Grown(l, m) /\ m.records = l.records
    BY <1>5, <2>1
  <2>3. w \in Survives(m, "process") /\ (writing.sync => w \in Survives(m, "machine"))
    BY <1>3, <1>4, <1>5, <2>1
  <2>4. m \in LogType(Started')
    BY <1>3, <1>4, <1>5 DEF FilesInv, Typed, TypedFiles
  <2> QED
    BY <1>3, <1>4, <2>2, <2>3, <2>4, GrownSurvives
<1>7. \A log : LogsGrow(log)
  <2>1. \A n \in DOMAIN logs : Grown(logs[n], logs[n])
    BY GrownItself DEF FilesInv, Typed, TypedFiles
  <2> QED
    BY <1>4, <1>5, <1>6, <2>1 DEF LogsGrow
<1>8. Sound' /\ FirstMade' /\ RecoveringOK'
  <2>1. \A n \in DOMAIN logs : logs'[n].records = logs[n].records
    BY <1>4, <1>5, <1>6
  <2> QED
    BY <1>1, <1>2, <1>5, <2>1 DEF AnswersInv, Sound, FirstMade, RecoveringOK
<1>9. /\ current # None /\ Len(Descr.records) >= 1 /\ Cuts \subseteq 1 .. Len(Descr.records)
      /\ \A c \in Cuts : /\ TablesStay(FilesAt(Descr, c)) /\ FilesAt(Descr, c) \subseteq DOMAIN tables
                         /\ Safe(FilesAt(Descr, c), Descr.records[c].log)
                         /\ Descr.records[c].log <= logfile
  BY <1>1, <1>2, OpenCuts DEF TablesStay, Good, AnswersInv, OpenOK
<1>10. /\ Descr' = Descr /\ Cuts' = Cuts
       /\ \A c : FilesAt(Descr, c)' = FilesAt(Descr, c)
       /\ KeepsNeededFiles
  BY <1>1, <1>7, <1>8, <1>9, DescrStays
<1>11. \A kind \in Kinds :
         /\ Answered(kind)' \subseteq Answered(kind) \cup {w}
         /\ w \in Answered(kind)' => w \in Survives(m, kind)
  BY <1>1, <1>3, <1>6 DEF Kinds, Answered
<1>12. DiskOK'
  <2>1. ASSUME NEW c \in Cuts PROVE Safe(FilesAt(Descr, c), Descr.records[c].log)'
    <3>1. PICK f, log : f = FilesAt(Descr, c) /\ log = Descr.records[c].log
      OBVIOUS
    <3>2. Safe(f, log) /\ f \subseteq DOMAIN tables /\ logfile >= log
      BY <1>3, <1>9, <2>1, <3>1
    <3>3. Good(f)' /\ InTables(f)' = InTables(f)
      BY <1>1, <1>2, <3>2, TablesSame DEF Safe
    <3>4. ASSUME NEW kind \in Kinds PROVE Answered(kind)' \subseteq InTables(f)' \cup InLogs(kind, log)'
      <4>1. InLogs(kind, log) \subseteq InLogs(kind, log)'
        BY <1>2, <1>7, LogsKeep
      <4>2. w \in Answered(kind)' => w \in InLogs(kind, log)'
        BY <1>1, <1>2, <1>3, <1>4, <1>5, <1>11, <3>2 DEF InLogs
      <4>3. Answered(kind) \subseteq InTables(f) \cup InLogs(kind, log)
        BY <3>2 DEF Safe
      <4> QED
        BY <1>11, <3>3, <4>1, <4>2, <4>3
    <3>5. Safe(f, log)'
      BY <3>3, <3>4 DEF Safe
    <3>6. FilesAt(Descr, c)' = f /\ (Descr.records[c].log)' = log
      BY <1>10, <3>1
    <3> QED
      BY <3>5, <3>6 DEF Safe
  <2>2. durable' \subseteq acked' /\ current' # None
    BY <1>1, <1>3, <1>9
  <2>3. Descr'.synced # 0
    BY <1>2, <1>10, OpenCuts
  <2> QED
    BY <1>10, <2>1, <2>2, <2>3 DEF DiskOK
<1>13. FlushOK' /\ MergeOK'
  BY <1>1, <1>2, <1>10, BackgroundKept
<1>14. OpenOK'
  <2>1. ASSUME NEW c \in Cuts
        PROVE  InTables(FilesAt(Descr, c))' = InTables(FilesAt(Descr, c))
    <3>1. PICK f : f = FilesAt(Descr, c)
      OBVIOUS
    <3>2. InTables(f)' = InTables(f)
      BY <1>1, <1>2, <1>9, <3>1, TablesSame
    <3> QED
      BY <1>10, <3>1, <3>2 DEF InTables
  <2>2. Good(version)' /\ InTables(version)' = InTables(version)
    BY <1>1, <1>2 DEF AnswersInv, OpenOK, Good, InTables
  <2>3. Memory' = Memory \cup {w}
    BY <1>1 DEF Memory
  <2>4. ASSUME NEW kind \in Kinds
        PROVE  (Answered(kind) \cap mem \subseteq Survives(logs[logfile], kind))'
    <3>1. Answered(kind) \cap mem \subseteq Survives(l, kind)
      BY <1>2, <1>4 DEF AnswersInv, OpenOK
    <3>2. Answered(kind)' \cap mem' \subseteq Survives(m, kind)
      <4>1. w \notin Answered(kind)
        BY <1>3 DEF Answered
      <4> QED
        BY <1>1, <1>6, <1>11, <3>1
    <3> QED
      BY <1>1, <1>4, <3>2
  <2>5. \A c \in Cuts' :
         /\ logNumber' <= Descr'.records[c].log /\ Descr'.records[c].log <= logfile'
         /\ acked' \subseteq InTables(FilesAt(Descr, c))' \cup Memory'
    BY <1>1, <1>2, <1>10, <2>1, <2>3 DEF AnswersInv, OpenOK
  <2>6. /\ ~bgError' =>
             /\ Descr'.synced = IF applying' = "logged" THEN Len(Descr'.records) - 1
                                                        ELSE Len(Descr'.records)
             /\ FilesAt(Descr', Descr'.synced) = version'
        /\ applying' = "logged" =>
             Descr'.records[Len(Descr'.records)] = edit' /\ Descr'.synced < Len(Descr'.records)
    BY <1>1, <1>2, <1>10 DEF AnswersInv, OpenOK
  <2>7. /\ Descr'.synced >= 1 /\ logfile' \in DOMAIN logs'
        /\ \A n \in DOMAIN logs' : n < nextFile'
        /\ acked' \subseteq InTables(version)' \cup Memory'
    BY <1>1, <1>2, <1>5, <1>10, <2>2, <2>3 DEF AnswersInv, OpenOK
  <2> QED
    BY <1>1, <2>2, <2>4, <2>5, <2>6, <2>7 DEF OpenOK
<1> QED
  BY <1>8, <1>10, <1>12, <1>13, <1>14 DEF AnswersInv

LEMMA SwitchMemTableKeepsAnswers ==
  ASSUME DBFilesAssumption, FilesInv, AnswersInv, FilesInv', SwitchMemTable
  PROVE  AnswersInv' /\ KeepsNeededFiles
<1>1. /\ phase = "open" /\ writing = None /\ imm = None
      /\ logs' = Create(logs, nextFile, NewFile)
      /\ logfile' = nextFile /\ nextFile' = nextFile + 1 /\ imm' = mem /\ mem' = {}
      /\ UNCHANGED <<current, manifests, tables, phase, state, work, calls,
                     history, bgError, edit, toRecover>>
  BY DEF SwitchMemTable
<1>2. /\ nextFile \in Nat /\ DOMAIN logs \subseteq Nat /\ logfile \in Nat /\ logfile < nextFile
      /\ \A n \in DOMAIN logs : n < nextFile
      /\ Started' = Started /\ mem # None
  <2>1. mem \in SUBSET Writes
    BY DBFilesAssumption DEF DBFilesAssumption, FilesInv, Typed, Started, Writes
  <2> QED
    BY <1>1, <2>1, DBFilesAssumption
       DEF DBFilesAssumption, FilesInv, Typed, TypedFiles, MemoryNumbered, AnswersInv, OpenOK, Started
<1>3. /\ nextFile \notin DOMAIN logs
      /\ DOMAIN logs' = DOMAIN logs \cup {nextFile} /\ logs'[nextFile] = NewFile
      /\ \A n \in DOMAIN logs : logs'[n] = logs[n]
  <2>1. nextFile \notin DOMAIN logs
    BY <1>2
  <2> QED
    BY <1>1, <2>1 DEF Create
<1>4. \A log : LogsGrow(log)
  BY <1>3, LogsStay
<1>5. Sound' /\ FirstMade' /\ RecoveringOK'
  <2>1. \A i \in 1 .. Len(NewFile.records) : NewFile.records[i] # Torn
    BY DEF NewFile
  <2>2. Sound'
    BY <1>1, <1>3, <2>1 DEF AnswersInv, Sound
  <2> QED
    BY <1>1, <2>2 DEF FirstMade, RecoveringOK
<1>6. /\ current # None /\ Len(Descr.records) >= 1 /\ Cuts \subseteq 1 .. Len(Descr.records)
      /\ \A c \in Cuts : TablesStay(FilesAt(Descr, c)) /\ Descr.records[c].log \in Nat
  BY <1>1, OpenCuts DEF TablesStay, Good
<1>7. /\ Descr' = Descr /\ Cuts' = Cuts
      /\ \A c : FilesAt(Descr, c)' = FilesAt(Descr, c)
      /\ DiskOK' /\ KeepsNeededFiles
  BY <1>1, <1>2, <1>4, <1>5, <1>6, DescrKept
<1>8. FlushOK' /\ MergeOK'
  <2>1. flush = None
    BY <1>1 DEF FilesInv, Present
  <2> QED
    BY <1>1, <1>2, <1>7, <2>1, BackgroundKept
<1>9. OpenOK'
  <2>1. Memory' = Memory
    BY <1>1, <1>2 DEF Memory
  <2>2. \A c \in Cuts' :
         /\ logNumber' <= Descr'.records[c].log /\ Descr'.records[c].log <= logfile'
         /\ acked' \subseteq InTables(FilesAt(Descr, c))' \cup Memory'
    <3>1. ASSUME NEW c \in Cuts
          PROVE  /\ logNumber' <= Descr.records[c].log /\ Descr.records[c].log <= logfile'
                 /\ acked' \subseteq InTables(FilesAt(Descr, c)) \cup Memory
      <4>1. /\ logNumber <= Descr.records[c].log /\ Descr.records[c].log <= logfile
            /\ acked \subseteq InTables(FilesAt(Descr, c)) \cup Memory
        BY <1>1, <3>1 DEF AnswersInv, OpenOK
      <4>2. Descr.records[c].log <= nextFile
        BY <1>2, <1>6, <3>1, <4>1
      <4> QED
        BY <1>1, <4>1, <4>2
    <3>2. \A c \in Cuts : InTables(FilesAt(Descr, c))' = InTables(FilesAt(Descr, c))
      BY <1>2, <1>7, <1>1 DEF InTables
    <3> QED
      BY <1>7, <2>1, <3>1, <3>2
  <2>3. logfile' \in DOMAIN logs' /\ \A n \in DOMAIN logs' : n < nextFile'
    BY <1>1, <1>2, <1>3
  <2>4. Good(version)' /\ InTables(version)' = InTables(version)
    BY <1>1, <1>2 DEF AnswersInv, OpenOK, Good, InTables
  <2>5. mem' = {} /\ writing' = None
    BY <1>1
  <2>6. /\ ~bgError' =>
             /\ Descr'.synced = IF applying' = "logged" THEN Len(Descr'.records) - 1
                                                        ELSE Len(Descr'.records)
             /\ FilesAt(Descr', Descr'.synced) = version'
        /\ applying' = "logged" =>
             Descr'.records[Len(Descr'.records)] = edit' /\ Descr'.synced < Len(Descr'.records)
        /\ Descr'.synced >= 1
    BY <1>1, <1>7 DEF AnswersInv, OpenOK
  <2>7. acked' \subseteq InTables(version)' \cup Memory'
    BY <1>1, <2>1, <2>4 DEF AnswersInv, OpenOK
  <2> QED
    BY <2>2, <2>3, <2>4, <2>5, <2>6, <2>7 DEF OpenOK
<1> QED
  BY <1>5, <1>7, <1>8, <1>9 DEF AnswersInv

(* What an edit does to tables: none of the writes in them is lost, and a  *)
(* memtable that was flushed is in its table.                              *)
LEMMA EditMoves ==
  ASSUME DBFilesAssumption, FilesInv, AnswersInv, applying # "no"
  PROVE  /\ \A files : InTables(files) \subseteq InTables((files \ edit.del) \cup edit.add)
         /\ Good(edit.add)
         /\ flush # None => imm # None /\ imm \subseteq InTables(edit.add) /\ edit.log = logfile
         /\ edit.log \in Nat /\ logNumber <= edit.log /\ edit.log <= logfile
<1>1. phase = "open"
  BY WorkInOpen
<1>2. /\ logNumber \in Nat /\ logfile \in Nat /\ edit.log \in Nat
      /\ logNumber <= logfile
  <2>1. PICK c \in Cuts : c = Len(Descr.records)
    BY <1>1, OpenCuts
  <2>2. PICK x : x = Descr.records[c].log
    OBVIOUS
  <2>3. logNumber <= x /\ x <= logfile /\ x \in Nat
    BY <1>1, <2>2, OpenCuts DEF AnswersInv, OpenOK
  <2>4. logNumber \in Nat /\ logfile \in Nat /\ edit.log \in Nat
    BY DEF FilesInv, Typed, EditType
  <2> QED
    BY <2>3, <2>4
<1>3. CASE flush # None
  <2>1. /\ edit.del = {} /\ edit.log = logfile /\ imm # None
        /\ edit.add = IF imm = {} THEN {} ELSE {flush}
        /\ imm # {} => tables[flush] = imm /\ flush \in DOMAIN tables
    BY <1>3 DEF AnswersInv, FlushOK, FilesInv, Present
  <2>2. imm \subseteq Started /\ imm # Torn
    <3>1. imm \in SUBSET Writes
      BY <2>1, DBFilesAssumption DEF DBFilesAssumption, FilesInv, Typed, Started, Writes
    <3> QED
      BY <2>1, <3>1, DBFilesAssumption DEF DBFilesAssumption, FilesInv, Typed
  <2>3. Good(edit.add) /\ imm \subseteq InTables(edit.add)
    BY <2>1, <2>2 DEF Good, InTables
  <2>4. \A files : InTables(files) \subseteq InTables((files \ edit.del) \cup edit.add)
    BY <2>1 DEF InTables
  <2> QED
    BY <1>2, <2>1, <2>3, <2>4
<1>4. CASE flush = None
  <2>1. PICK d, i : d = compaction.done /\ i = compaction.inputs
    OBVIOUS
  <2>2. /\ edit.del = i /\ edit.add = d /\ edit.log = logNumber
        /\ Good(d) /\ InTables(i) \subseteq InTables(d)
    BY <1>4, <2>1 DEF AnswersInv, MergeOK
  <2>3. \A files : InTables(files) \subseteq InTables((files \ i) \cup d)
    <3>1. \A files : InTables(files) \subseteq InTables(files \ i) \cup InTables(i)
      BY DEF InTables
    <3>2. \A files : InTables(files \ i) \cup InTables(d) \subseteq InTables((files \ i) \cup d)
      BY DEF InTables
    <3> QED
      BY <2>2, <3>1, <3>2
  <2> QED
    BY <1>2, <1>4, <2>2, <2>3
<1> QED
  BY <1>3, <1>4

(* The tables and logs that the descriptor will name with the edit.        *)
LEMMA EditSafe ==
  ASSUME DBFilesAssumption, FilesInv, AnswersInv, applying # "no",
         NEW n, n = Len(Descr.records), NEW files, files = FilesAt(Descr, n)
  PROVE  Safe((files \ edit.del) \cup edit.add, edit.log)
<1> DEFINE g == (files \ edit.del) \cup edit.add
<1>1. phase = "open"
  BY WorkInOpen
<1>2. PICK x : x = Descr.records[n].log
  OBVIOUS
<1>3. /\ n \in Cuts /\ Safe(files, x) /\ x \in Nat /\ logNumber <= x
      /\ acked \subseteq InTables(files) \cup Memory
  BY <1>1, <1>2, OpenCuts DEF AnswersInv, OpenOK
<1>4. InTables(files) \subseteq InTables(g) /\ Good(edit.add) /\ InTables(edit.add) \subseteq InTables(g)
  BY EditMoves DEF InTables
<1>5. Good(g)
  BY <1>3, <1>4 DEF Safe, Good
<1> HIDE DEF g
<1>6. ASSUME NEW kind \in Kinds PROVE Answered(kind) \subseteq InTables(g) \cup InLogs(kind, edit.log)
  <2>1. CASE flush # None
    <3>1. imm \subseteq InTables(g) /\ edit.log = logfile /\ imm # None
      BY <1>4, <2>1, EditMoves
    <3>2. Answered(kind) \subseteq acked
      BY DEF Answered, AnswersInv, DiskOK
    <3>3. Answered(kind) \cap mem \subseteq InLogs(kind, edit.log)
      <4>1. Answered(kind) \cap mem \subseteq Survives(logs[logfile], kind) /\ logfile \in DOMAIN logs
        BY <1>1 DEF AnswersInv, OpenOK
      <4>2. mem \subseteq Started /\ logfile >= edit.log
        BY <3>1 DEF FilesInv, Typed
      <4> QED
        BY <4>1, <4>2 DEF InLogs
    <3> QED
      BY <1>3, <1>4, <3>1, <3>2, <3>3 DEF Memory
  <2>2. CASE flush = None
    <3>1. edit.log = logNumber /\ logNumber \in Nat
      BY <2>2 DEF AnswersInv, MergeOK, FilesInv, Typed
    <3>2. InLogs(kind, x) \subseteq InLogs(kind, edit.log)
      <4>1. DOMAIN logs \subseteq Nat
        BY DEF FilesInv, Typed, TypedFiles
      <4>2. \A f \in DOMAIN logs : f >= x => f >= edit.log
        BY <1>3, <3>1, <4>1
      <4> QED
        BY <4>2 DEF InLogs
    <3> QED
      BY <1>3, <1>4, <3>2 DEF Safe
  <2> QED
    BY <2>1, <2>2
<1> QED
  BY <1>5, <1>6 DEF Safe, g

LEMMA LogEditKeepsAnswers ==
  ASSUME DBFilesAssumption, FilesInv, AnswersInv, FilesInv', LogEdit
  PROVE  AnswersInv' /\ KeepsNeededFiles
<1> DEFINE n == Len(Descr.records)
<1>1. /\ applying = "started" /\ applying' = "logged"
      /\ manifests' = [manifests EXCEPT ![manifestNumber] = Appended(@, edit)]
      /\ UNCHANGED <<current, logs, tables, phase, state, memtables, calls, history,
                     nextFile, pending, bgError, edit, toRecover, flush, compaction>>
  BY DEF LogEdit
<1>2. phase = "open" /\ Started' = Started
  BY <1>1, WorkInOpen DEF Started
<1>3. /\ current # None /\ current = manifestNumber /\ n \in Nat /\ n >= 1
      /\ Descr.synced \in Nat /\ Descr.synced >= 1 /\ Descr.synced <= n
      /\ Descr \in ManifestType /\ Whole(Descr, n) /\ current \in DOMAIN manifests
      /\ edit \in EditType /\ edit # Torn
  <2>1. current # None /\ current = manifestNumber /\ n \in Nat /\ n >= 1
        /\ Descr.synced \in Nat /\ Descr.synced >= 1
    BY <1>2, OpenCuts
  <2>2. n \in 0 .. n
    BY <2>1
  <2>3. Descr \in ManifestType /\ Whole(Descr, n) /\ current \in DOMAIN manifests /\ Descr.synced <= n
    BY <2>1, <2>2, DescrTyped DEF AnswersInv
  <2>4. edit \in EditType /\ edit # Torn
    BY DBFilesAssumption DEF DBFilesAssumption, FilesInv, Typed
  <2> QED
    BY <2>1, <2>3, <2>4
<1>4. Descr' = Appended(Descr, edit)
  BY <1>1, <1>3 DEF Descr
<1>5. /\ Descr'.synced = Descr.synced /\ Len(Descr'.records) = n + 1
      /\ Descr'.records[n + 1] = edit
      /\ \A c \in 0 .. n : FilesAt(Descr', c) = FilesAt(Descr, c)
      /\ \A c \in 1 .. n : Descr'.records[c] = Descr.records[c]
      /\ Whole(Descr', n + 1)
      /\ FilesAt(Descr', n + 1) = (FilesAt(Descr, n) \ edit.del) \cup edit.add
  <2>1. PICK d, e, k : d = Descr /\ e = edit /\ k = n
    OBVIOUS
  <2>2. d \in ManifestType /\ e \in EditType /\ e # Torn /\ k = Len(d.records) /\ Whole(d, k)
    BY <1>3, <2>1
  <2>3. /\ Appended(d, e).synced = d.synced /\ Len(Appended(d, e).records) = k + 1
        /\ Appended(d, e).records[k + 1] = e
        /\ \A c \in 0 .. k : FilesAt(Appended(d, e), c) = FilesAt(d, c)
        /\ \A c \in 1 .. k : Appended(d, e).records[c] = d.records[c]
        /\ Whole(Appended(d, e), k + 1)
    BY <2>2, AppendedManifest
  <2>4. FilesAt(Appended(d, e), k + 1) = (FilesAt(d, k) \ e.del) \cup e.add
    BY <2>2, AppendedFiles
  <2>5. Descr' = Appended(d, e)
    BY <1>4, <2>1
  <2> HIDE DEF n
  <2> QED
    BY <2>1, <2>3, <2>4, <2>5
<1> HIDE DEF n
<1>6. /\ \A c \in Cuts' : c = n + 1 \/ (c \in Cuts /\ c \in 1 .. n)
      /\ \A c \in Cuts : c \in 1 .. n
  <2>1. Cuts' = Descr.synced .. n + 1 /\ Cuts = Descr.synced .. n
    BY <1>5 DEF Cuts, n
  <2> QED
    BY <1>3, <2>1
<1>7. PICK f, g : f = FilesAt(Descr, n) /\ g = (f \ edit.del) \cup edit.add
  OBVIOUS
<1>8. Safe(g, edit.log)
  BY <1>1, <1>7, EditSafe DEF n
<1>9. \A h, log : Safe(h, log)' = Safe(h, log) /\ InTables(h)' = InTables(h) /\ Good(h)' = Good(h)
  BY <1>1, <1>2 DEF Safe, Good, InTables, InLogs, Answered
<1>10. ASSUME NEW c \in Cuts'
       PROVE  \/ /\ c = n + 1 /\ FilesAt(Descr', c) = g /\ Descr'.records[c].log = edit.log
              \/ /\ c \in Cuts /\ FilesAt(Descr', c) = FilesAt(Descr, c)
                 /\ Descr'.records[c].log = Descr.records[c].log
  <2>1. \A d \in 1 .. n : d \in 0 .. n
    OBVIOUS
  <2> QED
    BY <1>5, <1>6, <1>7, <2>1
<1>11. Sound' /\ FirstMade' /\ RecoveringOK'
  <2>1. ASSUME NEW m \in DOMAIN manifests'
        PROVE  Whole(manifests'[m], Len(manifests'[m].records))
    <3>1. CASE m = current
      BY <1>1, <1>4, <1>5, <3>1 DEF Descr
    <3>2. CASE m # current
      BY <1>1, <1>3, <2>1, <3>2 DEF AnswersInv, Sound
    <3> QED
      BY <3>1, <3>2
  <2>2. Sound'
    BY <1>1, <2>1 DEF AnswersInv, Sound
  <2> QED
    BY <1>1, <1>2, <2>2 DEF FirstMade, RecoveringOK
<1>12. DiskOK'
  <2>1. ASSUME NEW c \in Cuts' PROVE Safe(FilesAt(Descr, c), Descr.records[c].log)'
    <3>1. PICK h, log : h = FilesAt(Descr', c) /\ log = Descr'.records[c].log
      OBVIOUS
    <3>2. Safe(h, log)
      <4>1. c \in Cuts => Safe(FilesAt(Descr, c), Descr.records[c].log)
        BY <1>2, OpenCuts
      <4> QED
        BY <1>8, <1>10, <3>1, <4>1
    <3>3. Safe(h, log)'
      BY <1>9, <3>2
    <3>4. FilesAt(Descr, c)' = h /\ (Descr.records[c].log)' = log
      BY <3>1 DEF FilesAt
    <3> QED
      BY <3>3, <3>4 DEF Safe
  <2>2. Descr'.synced # 0
    BY <1>3, <1>5
  <2> QED
    BY <1>1, <1>3, <2>1, <2>2 DEF AnswersInv, DiskOK
<1>13. OpenOK'
  <2>1. Memory' = Memory
    BY <1>1 DEF Memory
  <2>2. ASSUME NEW c \in Cuts'
        PROVE  /\ logNumber' <= Descr'.records[c].log /\ Descr'.records[c].log <= logfile'
               /\ acked' \subseteq InTables(FilesAt(Descr, c))' \cup Memory'
    <3>1. PICK h, log : h = FilesAt(Descr', c) /\ log = Descr'.records[c].log
      OBVIOUS
    <3>2. logNumber <= log /\ log <= logfile /\ acked \subseteq InTables(h) \cup Memory
      <4>1. c \in Cuts => /\ logNumber <= Descr.records[c].log /\ Descr.records[c].log <= logfile
                          /\ acked \subseteq InTables(FilesAt(Descr, c)) \cup Memory
        BY <1>2 DEF AnswersInv, OpenOK
      <4>2. logNumber <= edit.log /\ edit.log <= logfile /\ InTables(f) \subseteq InTables(g)
        BY <1>1, <1>7, EditMoves
      <4>3. acked \subseteq InTables(f) \cup Memory
        <5>1. n \in Cuts
          BY <1>2, OpenCuts DEF n
        <5> QED
          BY <1>2, <1>7, <5>1 DEF AnswersInv, OpenOK
      <4> QED
        BY <1>10, <3>1, <4>1, <4>2, <4>3
    <3>3. InTables(FilesAt(Descr, c))' = InTables(h)'
      BY <3>1 DEF FilesAt, InTables
    <3> QED
      BY <1>1, <1>9, <2>1, <3>1, <3>2, <3>3
  <2>3. ~bgError' => Descr'.synced = Len(Descr'.records) - 1 /\ FilesAt(Descr', Descr'.synced) = version'
    <3>1. ~bgError => Descr.synced = n /\ FilesAt(Descr, n) = version
      BY <1>1, <1>2 DEF AnswersInv, OpenOK, n
    <3>2. n \in 0 .. n /\ n = (n + 1) - 1
      BY <1>3 DEF n
    <3>3. bgError' = bgError /\ version' = version
      BY <1>1
    <3> QED
      BY <1>5, <3>1, <3>2, <3>3
  <2>4. Descr'.records[Len(Descr'.records)] = edit' /\ Descr'.synced < Len(Descr'.records)
        /\ Descr'.synced >= 1
    <3>1. Descr.synced < n + 1
      BY <1>3 DEF n
    <3> QED
      BY <1>1, <1>3, <1>5, <3>1
  <2>5. /\ logfile' \in DOMAIN logs' /\ \A m \in DOMAIN logs' : m < nextFile'
        /\ \A kind \in Kinds : (Answered(kind) \cap mem \subseteq Survives(logs[logfile], kind))'
        /\ writing' # None =>
             writing'.id \notin acked' /\ writing'.id \in Survives(logs'[logfile'], "process")
    BY <1>1, <1>2 DEF AnswersInv, OpenOK, Answered
  <2>6. Good(version)' /\ acked' \subseteq InTables(version)' \cup Memory'
    BY <1>1, <1>2, <2>1 DEF AnswersInv, OpenOK, Good, InTables
  <2> QED
    BY <1>1, <2>2, <2>3, <2>4, <2>5, <2>6 DEF OpenOK
<1>14. FlushOK'
  BY <1>1 DEF AnswersInv, FlushOK
<1>15. MergeOK'
  <2>1. compaction # None => Good(compaction.base)' /\ Good(compaction.done)'
          /\ InTables(compaction.inputs)' = InTables(compaction.inputs)
          /\ InTables(compaction.done)' = InTables(compaction.done)
    BY <1>1, <1>2 DEF AnswersInv, MergeOK, Good, InTables
  <2>2. ASSUME compaction # None, compaction.output # None, NEW c \in Cuts'
        PROVE  compaction.output \notin FilesAt(Descr', c)
    <3>1. \A d \in Cuts : compaction.output \notin FilesAt(Descr, d)
      BY <2>2 DEF AnswersInv, MergeOK
    <3>2. compaction.output \notin edit.add
      BY <2>2 DEF AnswersInv, MergeOK
    <3>3. n \in Cuts
      BY <1>2, OpenCuts DEF n
    <3> QED
      BY <1>7, <1>10, <3>1, <3>2, <3>3
  <2>3. compaction' = compaction /\ \A c : FilesAt(Descr, c)' = FilesAt(Descr', c)
    BY <1>1 DEF FilesAt
  <2> QED
    BY <1>1, <2>1, <2>2, <2>3 DEF AnswersInv, MergeOK
<1>16. KeepsNeededFiles
  <2>1. NeededStay
    <3>1. \A h : h \subseteq DOMAIN tables => TablesStay(h)
      BY <1>1 DEF TablesStay
    <3>2. FilesAt(Descr, n) \subseteq DOMAIN tables
      BY <1>2, OpenCuts DEF n, Good
    <3>3. \A m \in DOMAIN logs : m \in DOMAIN logs' /\ Grown(logs[m], logs'[m])
      BY <1>1, GrownItself DEF FilesInv, Typed, TypedFiles
    <3>4. Len(Descr'.records) >= 1 /\ Len(Descr.records) >= 1 /\ current' # None
      BY <1>1, <1>3, <1>5 DEF n
    <3>5. TablesStay(FilesAt(Descr, Len(Descr.records)) \cap FilesAt(Descr', Len(Descr'.records)))
      BY <3>1, <3>2 DEF n
    <3> QED
      BY <3>3, <3>4, <3>5 DEF NeededStay
  <2> QED
    BY <1>11, <2>1, NeededFiles
<1> QED
  BY <1>11, <1>12, <1>13, <1>14, <1>15, <1>16 DEF AnswersInv

(* One edit after another.                                                 *)
LEMMA FilesNext ==
  ASSUME NEW m \in ManifestType, NEW c \in Nat, c + 1 <= Len(m.records), Whole(m, c + 1)
  PROVE  FilesAt(m, c + 1) = (FilesAt(m, c) \ m.records[c + 1].del) \cup m.records[c + 1].add
<1> DEFINE s == SubSeq(m.records, 1, c)
           e == m.records[c + 1]
<1>1. m.records \in Seq(EditType \cup {Torn}) /\ Len(m.records) \in Nat
  BY DEF ManifestType
<1>2. c + 1 \in 1 .. c + 1 /\ c + 1 \in 1 .. Len(m.records) /\ 1 .. c \subseteq 1 .. c + 1
      /\ 1 .. c \subseteq 1 .. Len(m.records)
  BY <1>1
<1>3. \A i \in 1 .. c + 1 : m.records[i] \in EditType
  BY <1>1, <1>2 DEF Whole
<1>4. e \in EditType
  BY <1>2, <1>3
<1>5. s = [i \in 1 .. c |-> m.records[i]] /\ Len(s) = c
  BY <1>1, <1>2
<1>6. s \in Seq(EditType)
  <2>1. \A i \in 1 .. c : m.records[i] \in EditType
    BY <1>2, <1>3
  <2>2. \A i \in 1 .. c : s[i] \in EditType
    BY <1>5, <2>1
  <2> HIDE DEF s
  <2> QED
    BY <1>5, <2>2
<1>7. SubSeq(m.records, 1, c + 1) = Append(s, e)
  <2>1. SubSeq(m.records, 1, c + 1) = [i \in 1 .. c + 1 |-> m.records[i]]
    BY <1>1, <1>2
  <2>2. Append(s, e) = [i \in 1 .. c + 1 |-> IF i = c + 1 THEN e ELSE s[i]]
    BY <1>5, <1>6
  <2>3. \A i \in 1 .. c + 1 : i # c + 1 => i \in 1 .. c
    OBVIOUS
  <2>4. \A i \in 1 .. c + 1 : m.records[i] = IF i = c + 1 THEN e ELSE s[i]
    BY <1>5, <2>3
  <2> HIDE DEF s, e
  <2> QED
    BY <2>1, <2>2, <2>4
<1> HIDE DEF s, e
<1>8. Files(Append(s, e)) = (Files(s) \ e.del) \cup e.add
  BY <1>4, <1>6, FilesAppend
<1> QED
  BY <1>7, <1>8 DEF FilesAt, s, e

(* The edit is on disk and the new version is installed; files that are    *)
(* not live are deleted if there was no error.                             *)
LEMMA InstalledKept ==
  ASSUME DBFilesAssumption, FilesInv, AnswersInv, FilesInv',
         applying = "logged", applying' = "no",
         NEW live, version' \subseteq live,
         DeleteObsoleteFiles(bgError, live, edit.log, Descriptor),
         version' = (version \ edit.del) \cup edit.add, logNumber' = edit.log,
         imm' = IF flush # None THEN None ELSE imm,
         UNCHANGED <<current, phase, logfile, mem, writing, nextFile, manifestNumber, bgError,
                     acked, durable, started>>
  PROVE  /\ Sound' /\ FirstMade' /\ DiskOK' /\ RecoveringOK' /\ OpenOK' /\ KeepsNeededFiles
         /\ \A n \in DOMAIN tables \cap live : n \in DOMAIN tables' /\ tables'[n] = tables[n]
         /\ \A c \in Cuts' : c \in Cuts /\ FilesAt(Descr', c) = FilesAt(Descr, c)
<1> DEFINE n == Len(Descr.records)
<1>1. phase = "open" /\ Started' = Started /\ bgError \in BOOLEAN
      /\ logfile \in Nat /\ edit.log \in Nat /\ DOMAIN logs \subseteq Nat
  BY WorkInOpen DEF Started, FilesInv, Typed, TypedFiles, EditType
<1>2. /\ current # None /\ current = manifestNumber /\ n \in Nat /\ n >= 1
      /\ Descr \in ManifestType /\ \A c \in 0 .. n : Whole(Descr, c)
      /\ n \in Cuts /\ Descr.synced \in Nat
  <2>1. current # None /\ current = manifestNumber /\ n \in Nat /\ n >= 1
    BY <1>1, OpenCuts
  <2> QED
    BY <2>1, DescrTyped DEF AnswersInv
<1>3. Descr.records[n] = edit /\ Descr.synced < n
  BY <1>1 DEF AnswersInv, OpenOK
<1>4. /\ TypedFiles(Descriptor, ManifestType) /\ DOMAIN Descriptor = DOMAIN manifests
      /\ \A m \in DOMAIN Descriptor : Numbers(m, Descriptor[m])
      /\ manifestNumber \in DOMAIN Descriptor /\ Descriptor[manifestNumber] = Synced(Descr)
      /\ \A m \in DOMAIN Descriptor : m # current => Descriptor[m] = manifests[m]
  <2>1. \A m \in DOMAIN Descriptor : m # current => Descriptor[m] = manifests[m]
    BY <1>2 DEF Descriptor
  <2> QED
    BY <1>1, <1>2, <2>1, DescriptorNumbered DEF Descr
<1>5. /\ manifests'[manifestNumber] = Synced(Descr)
      /\ \A f \in DOMAIN tables' : f \in DOMAIN tables /\ tables'[f] = tables[f]
      /\ DOMAIN tables \cap live \subseteq DOMAIN tables'
      /\ bgError => DOMAIN tables \subseteq DOMAIN tables'
      /\ \A f \in DOMAIN logs : f >= edit.log => f \in DOMAIN logs'
      /\ \A f \in DOMAIN logs' : f \in DOMAIN logs /\ logs'[f] = logs[f]
      /\ \A m \in DOMAIN manifests' : m \in DOMAIN Descriptor /\ manifests'[m] = Descriptor[m]
  <2>1. PICK error, log, ms : error = bgError /\ log = edit.log /\ ms = Descriptor
    OBVIOUS
  <2>2. /\ DeleteObsoleteFiles(error, live, log, ms) /\ error \in BOOLEAN /\ log \in Nat
        /\ TypedFiles(ms, ManifestType) /\ manifestNumber \in DOMAIN ms
        /\ \A m \in DOMAIN ms : Numbers(m, ms[m])
    BY <1>1, <1>4, <2>1
  <2>3. /\ manifests'[manifestNumber] = ms[manifestNumber]
        /\ \A f \in DOMAIN tables' : f \in DOMAIN tables /\ tables'[f] = tables[f]
        /\ DOMAIN tables \cap live \subseteq DOMAIN tables'
        /\ \A f \in DOMAIN logs : f >= log => f \in DOMAIN logs'
        /\ \A f \in DOMAIN logs' : f \in DOMAIN logs /\ logs'[f] = logs[f]
    BY <2>2, FilesLeft, ZenonT(30)
  <2>4. /\ Thinned(manifests', ms, IF error THEN DOMAIN ms ELSE {f \in Nat : f >= manifestNumber})
        /\ Thinned(tables', tables, IF error THEN DOMAIN tables ELSE live)
    BY <2>2, ObsoleteDeleted DEF FilesInv, Typed
  <2>5. /\ \A m \in DOMAIN manifests' : m \in DOMAIN ms /\ manifests'[m] = ms[m]
        /\ error => DOMAIN tables \subseteq DOMAIN tables'
    BY <2>4 DEF Thinned
  <2> QED
    BY <1>4, <2>1, <2>3, <2>5
<1>6. /\ Descr' = Synced(Descr) /\ Descr'.records = Descr.records /\ Descr'.synced = n
      /\ \A c : FilesAt(Descr', c) = FilesAt(Descr, c)
  <2>1. Descr' = Synced(Descr)
    BY <1>2, <1>5 DEF Descr
  <2>2. PICK d : d = Descr
    OBVIOUS
  <2>3. /\ Synced(d).records = d.records /\ Synced(d).synced = Len(d.records)
        /\ \A c : FilesAt(Synced(d), c) = FilesAt(d, c)
    BY <1>2, <2>2, SyncedManifest
  <2> QED
    BY <2>1, <2>2, <2>3
<1>7. Len(Descr'.records) = n /\ \A c \in Cuts' : c = n
  BY <1>2, <1>6 DEF Cuts
<1> HIDE DEF n
<1>8. PICK f : f = FilesAt(Descr, n)
  OBVIOUS
<1>9. ~bgError => f = version'
  <2>1. SUFFICES ASSUME ~bgError PROVE f = version'
    OBVIOUS
  <2>2. Descr.synced = n - 1 /\ FilesAt(Descr, Descr.synced) = version
    BY <1>1, <2>1 DEF AnswersInv, OpenOK, n
  <2>3. PICK c : c = n - 1
    OBVIOUS
  <2>4. c \in Nat /\ c + 1 = n /\ c + 1 <= Len(Descr.records) /\ n \in 0 .. n
    BY <1>2, <2>3 DEF n
  <2>5. Descr \in ManifestType /\ Whole(Descr, c + 1)
    BY <1>2, <2>4
  <2>6. FilesAt(Descr, c + 1)
          = (FilesAt(Descr, c) \ Descr.records[c + 1].del) \cup Descr.records[c + 1].add
    <3>1. PICK d : d = Descr
      OBVIOUS
    <3> QED
      BY <2>4, <2>5, <3>1, FilesNext
  <2> QED
    BY <1>3, <1>8, <2>2, <2>3, <2>4, <2>6
<1>10. edit.add \subseteq f
  <2>1. PICK c : c = n - 1
    OBVIOUS
  <2>2. c \in Nat /\ c + 1 = n /\ c + 1 <= Len(Descr.records) /\ n \in 0 .. n
    BY <1>2, <2>1 DEF n
  <2>3. Descr \in ManifestType /\ Whole(Descr, c + 1)
    BY <1>2, <2>2
  <2>4. FilesAt(Descr, c + 1)
          = (FilesAt(Descr, c) \ Descr.records[c + 1].del) \cup Descr.records[c + 1].add
    <3>1. PICK d : d = Descr
      OBVIOUS
    <3> QED
      BY <2>2, <2>3, <3>1, FilesNext
  <2> QED
    BY <1>3, <1>8, <2>2, <2>4
<1>11. /\ Safe(f, edit.log) /\ f \subseteq DOMAIN tables
       /\ edit.log <= logfile /\ logNumber <= edit.log
       /\ acked \subseteq InTables(f) \cup Memory
  BY <1>1, <1>2, <1>3, <1>8, OpenCuts DEF Good, AnswersInv, OpenOK
<1>12. PICK v : v = version' /\ v = (version \ edit.del) \cup edit.add
  OBVIOUS
<1>13. /\ Good(v) /\ acked \subseteq InTables(v) \cup mem \cup (IF flush # None \/ imm = None THEN {} ELSE imm)
       /\ acked \subseteq InTables(f) \cup mem \cup (IF flush # None \/ imm = None THEN {} ELSE imm)
  <2>1. /\ InTables(version) \subseteq InTables(v) /\ Good(edit.add)
        /\ flush # None => imm # None /\ imm \subseteq InTables(edit.add)
    BY <1>12, EditMoves
  <2>2. Good(version) /\ acked \subseteq InTables(version) \cup Memory
    BY <1>1 DEF AnswersInv, OpenOK
  <2>3. InTables(edit.add) \subseteq InTables(v) /\ InTables(edit.add) \subseteq InTables(f)
    BY <1>10, <1>12 DEF InTables
  <2>4. Good(v)
    BY <1>12, <2>1, <2>2 DEF Good
  <2>5. Memory = mem \cup (IF imm = None THEN {} ELSE imm)
    BY DEF Memory
  <2> QED
    BY <1>11, <2>1, <2>2, <2>3, <2>4, <2>5
<1>14. TablesStay(f) /\ TablesStay(v)
  <2>1. v \subseteq DOMAIN tables /\ v \subseteq live
    BY <1>12, <1>13 DEF Good
  <2>2. TablesStay(v)
    BY <1>5, <2>1 DEF TablesStay
  <2>3. TablesStay(f)
    BY <1>5, <1>9, <1>11, <1>12, <2>2 DEF TablesStay
  <2> QED
    BY <2>2, <2>3
<1>15. /\ Good(f)' /\ InTables(f) \subseteq InTables(f)'
       /\ Good(v)' /\ InTables(v) \subseteq InTables(v)'
  BY <1>1, <1>11, <1>13, <1>14, TablesKeep DEF Safe
<1>16. LogsGrow(edit.log)
  BY <1>5, LogsStay
<1>17. Sound' /\ FirstMade' /\ RecoveringOK'
  <2>1. ASSUME NEW m \in DOMAIN manifests'
        PROVE  Whole(manifests'[m], Len(manifests'[m].records))
    <3>1. CASE m = current
      <4>1. manifests'[m] = Descr'
        BY <3>1 DEF Descr
      <4>2. n \in 0 .. n
        BY <1>2
      <4>3. Whole(Descr', n)
        BY <1>2, <1>6, <4>2 DEF Whole
      <4> QED
        BY <1>7, <4>1, <4>3
    <3>2. CASE m # current
      BY <1>4, <1>5, <2>1, <3>2 DEF AnswersInv, Sound
    <3> QED
      BY <3>1, <3>2
  <2>2. Sound'
    BY <1>5, <2>1 DEF AnswersInv, Sound
  <2> QED
    BY <1>1, <2>2 DEF FirstMade, RecoveringOK
<1>18. DiskOK'
  <2>1. PICK log : log = edit.log
    OBVIOUS
  <2>2. Safe(f, log)'
    BY <1>1, <1>11, <1>14, <1>16, <2>1, SafeKept
  <2>3. \A c \in Cuts' : Safe(FilesAt(Descr, c), Descr.records[c].log)'
    <3> SUFFICES ASSUME NEW c \in Cuts' PROVE Safe(FilesAt(Descr, c), Descr.records[c].log)'
      OBVIOUS
    <3>1. FilesAt(Descr, c)' = f /\ (Descr.records[c].log)' = log
      BY <1>3, <1>6, <1>7, <1>8, <2>1 DEF FilesAt
    <3> QED
      BY <2>2, <3>1 DEF Safe
  <2>4. current' # None /\ Descr'.synced # 0 /\ durable' \subseteq acked'
    BY <1>2, <1>6 DEF AnswersInv, DiskOK
  <2> QED
    BY <2>3, <2>4 DEF DiskOK
<1>19. OpenOK'
  <2>1. Memory' = mem \cup (IF flush # None \/ imm = None THEN {} ELSE imm)
    BY DEF Memory
  <2>2. InTables(version)' = InTables(v)' /\ Good(version)'
    BY <1>12, <1>15 DEF InTables, Good
  <2>3. \A c \in Cuts' :
          /\ logNumber' <= Descr'.records[c].log /\ Descr'.records[c].log <= logfile'
          /\ acked' \subseteq InTables(FilesAt(Descr, c))' \cup Memory'
    <3> SUFFICES ASSUME NEW c \in Cuts'
                 PROVE  /\ logNumber' <= Descr'.records[c].log /\ Descr'.records[c].log <= logfile'
                        /\ acked' \subseteq InTables(FilesAt(Descr, c))' \cup Memory'
      OBVIOUS
    <3>1. Descr'.records[c].log = edit.log /\ logNumber' = edit.log
      BY <1>3, <1>6, <1>7
    <3>2. InTables(FilesAt(Descr, c))' = InTables(f)'
      BY <1>6, <1>7, <1>8 DEF InTables, FilesAt
    <3>3. acked' \subseteq InTables(f)' \cup Memory'
      BY <1>13, <1>15, <2>1
    <3> QED
      BY <1>1, <1>11, <3>1, <3>2, <3>3
  <2>4. /\ Descr'.synced = Len(Descr'.records) /\ Descr'.synced >= 1
        /\ ~bgError' => FilesAt(Descr', Descr'.synced) = version'
    BY <1>2, <1>6, <1>7, <1>8, <1>9
  <2>5. /\ logfile' \in DOMAIN logs' /\ logs'[logfile'] = logs[logfile]
        /\ \A m \in DOMAIN logs' : m < nextFile'
    <3>1. logfile \in DOMAIN logs /\ \A m \in DOMAIN logs : m < nextFile
      BY <1>1 DEF AnswersInv, OpenOK
    <3> QED
      BY <1>1, <1>5, <1>11, <3>1
  <2>6. /\ \A kind \in Kinds : (Answered(kind) \cap mem \subseteq Survives(logs[logfile], kind))'
        /\ writing' # None =>
             writing'.id \notin acked' /\ writing'.id \in Survives(logs'[logfile'], "process")
    BY <1>1, <2>5 DEF AnswersInv, OpenOK, Answered
  <2>7. acked' \subseteq InTables(version)' \cup Memory'
    BY <1>13, <1>15, <2>1, <2>2
  <2> QED
    BY <2>2, <2>3, <2>4, <2>5, <2>6, <2>7 DEF OpenOK
<1>20. KeepsNeededFiles
  <2>1. TablesStay(FilesAt(Descr, Len(Descr.records)) \cap FilesAt(Descr', Len(Descr'.records)))
    BY <1>6, <1>7, <1>8, <1>14 DEF n, TablesStay
  <2>2. \A m \in DOMAIN logs :
          m >= Descr.records[Len(Descr.records)].log => m \in DOMAIN logs' /\ Grown(logs[m], logs'[m])
    BY <1>3, <1>16 DEF LogsGrow, n
  <2>3. Len(Descr.records) >= 1 /\ Len(Descr'.records) >= 1 /\ current' # None
    BY <1>2, <1>7 DEF n
  <2>4. NeededStay
    BY <2>1, <2>2, <2>3 DEF NeededStay
  <2> QED
    BY <1>17, <2>4, NeededFiles
<1>21. /\ \A m \in DOMAIN tables \cap live : m \in DOMAIN tables' /\ tables'[m] = tables[m]
       /\ \A c \in Cuts' : c \in Cuts /\ FilesAt(Descr', c) = FilesAt(Descr, c)
  BY <1>2, <1>5, <1>6, <1>7
<1> QED
  BY <1>17, <1>18, <1>19, <1>20, <1>21

LEMMA InstallFlushKeepsAnswers ==
  ASSUME DBFilesAssumption, FilesInv, AnswersInv, FilesInv', InstallFlush
  PROVE  AnswersInv' /\ KeepsNeededFiles
<1>1. /\ flush # None /\ flush' = None /\ imm' = None
      /\ applying = "logged" /\ applying' = "no"
      /\ version' = (version \ edit.del) \cup edit.add
      /\ logNumber' = edit.log /\ edit' = Edit({}, {}, 0, 0)
      /\ DeleteObsoleteFiles(bgError, LiveFiles(version', pending, Base), edit.log, Descriptor)
      /\ UNCHANGED <<current, phase, logfile, mem, calls, history, nextFile,
                     manifestNumber, pending, bgError, toRecover, compaction>>
  BY DEF InstallFlush, Install
<1>2. PICK live : /\ live = LiveFiles(version', pending, Base)
                  /\ version' \cup reading \cup Base \cup Outputs \subseteq live
  <2>1. Outputs \subseteq pending
    BY DEF FilesInv, MemoryNumbered
  <2>2. PICK live : live = LiveFiles(version', pending, Base)
    OBVIOUS
  <2>3. live = version' \cup pending \cup Base \cup reading
    BY <2>2 DEF LiveFiles
  <2> QED
    BY <2>1, <2>2, <2>3
<1>3. /\ Sound' /\ FirstMade' /\ DiskOK' /\ RecoveringOK' /\ OpenOK' /\ KeepsNeededFiles
      /\ \A n \in DOMAIN tables \cap live : n \in DOMAIN tables' /\ tables'[n] = tables[n]
      /\ \A c \in Cuts' : c \in Cuts /\ FilesAt(Descr', c) = FilesAt(Descr, c)
  <2>1. DeleteObsoleteFiles(bgError, live, edit.log, Descriptor)
    BY <1>1, <1>2
  <2>2. version' \subseteq live
    BY <1>2
  <2> QED
    BY <1>1, <2>1, <2>2, InstalledKept
<1>4. FlushOK'
  BY <1>1 DEF FlushOK
<1>5. MergeOK'
  <2>1. CASE compaction = None
    BY <1>1, <2>1 DEF MergeOK
  <2>2. CASE compaction # None
    <3>1. PICK b, d, i : b = compaction.base /\ d = compaction.done /\ i = compaction.inputs
      OBVIOUS
    <3>2. /\ Good(b) /\ Good(d) /\ i \subseteq b /\ InTables(i) \subseteq InTables(d) \cup compaction.left
          /\ b \cup d \subseteq live
      <4>1. Base = b /\ d \subseteq Outputs
        BY <2>2, <3>1, CompactionParts
      <4> QED
        BY <1>2, <2>2, <3>1, <4>1 DEF AnswersInv, MergeOK
    <3>3. \A n \in b \cup d : n \in DOMAIN tables /\ n \in DOMAIN tables' /\ tables'[n] = tables[n]
      BY <1>3, <3>2 DEF Good
    <3>4. Good(b)' /\ Good(d)' /\ InTables(i)' = InTables(i) /\ InTables(d)' = InTables(d)
      BY <1>1, <3>2, <3>3 DEF Good, InTables, Started
    <3>5. /\ Good(compaction.base)' /\ Good(compaction.done)'
          /\ InTables(compaction.inputs)' = InTables(i)' /\ InTables(compaction.done)' = InTables(d)'
      BY <1>1, <3>1, <3>4 DEF Good, InTables
    <3>6. compaction.output # None =>
            /\ compaction.output \notin version' \cup reading' \cup edit'.add \cup b \cup d
            /\ \A c \in Cuts' : compaction.output \notin FilesAt(Descr, c)'
      <4>1. \A c : FilesAt(Descr, c)' = FilesAt(Descr', c)
        BY DEF FilesAt
      <4>2. edit'.add = {}
        BY <1>1 DEF Edit
      <4>3. compaction.output # None =>
              /\ compaction.output \notin version \cup reading \cup edit.add \cup b \cup d
              /\ \A c \in Cuts : compaction.output \notin FilesAt(Descr, c)
        BY <2>2, <3>1 DEF AnswersInv, MergeOK
      <4> QED
        BY <1>1, <1>3, <4>1, <4>2, <4>3
    <3> QED
      BY <1>1, <2>2, <3>1, <3>2, <3>4, <3>5, <3>6 DEF MergeOK
  <2> QED
    BY <2>1, <2>2
<1> QED
  BY <1>3, <1>4, <1>5 DEF AnswersInv

LEMMA InstallCompactionKeepsAnswers ==
  ASSUME DBFilesAssumption, FilesInv, AnswersInv, FilesInv', InstallCompaction
  PROVE  AnswersInv' /\ KeepsNeededFiles
<1>1. /\ flush = None
      /\ applying = "logged" /\ applying' = "no"
      /\ version' = (version \ edit.del) \cup edit.add
      /\ logNumber' = edit.log /\ edit' = Edit({}, {}, 0, 0)
      /\ compaction' = None /\ bgError' = bgError
      /\ DeleteObsoleteFiles(bgError, LiveFiles(version', pending', {}), edit.log, Descriptor)
      /\ UNCHANGED <<current, phase, memtables, calls, history, nextFile,
                     manifestNumber, toRecover, flush>>
  BY DEF InstallCompaction, Install, CleanupCompaction
<1>2. PICK live : live = LiveFiles(version', pending', {}) /\ version' \subseteq live
  BY DEF LiveFiles
<1>3. /\ Sound' /\ FirstMade' /\ DiskOK' /\ RecoveringOK' /\ OpenOK' /\ KeepsNeededFiles
  <2>1. DeleteObsoleteFiles(bgError, live, edit.log, Descriptor)
    BY <1>1, <1>2
  <2>2. version' \subseteq live
    BY <1>2
  <2> QED
    BY <1>1, <2>1, <2>2, InstalledKept
<1>4. FlushOK' /\ MergeOK'
  BY <1>1 DEF FlushOK, MergeOK
<1> QED
  BY <1>3, <1>4 DEF AnswersInv

LEMMA InitAnswers ==
  ASSUME DBFilesAssumption, Init
  PROVE  AnswersInv
<1>1. /\ DOMAIN manifests = {} /\ DOMAIN logs = {} /\ current = None
      /\ phase = "closed" /\ flush = None /\ compaction = None /\ applying = "no"
      /\ acked = {} /\ durable = {}
  BY DEF Init
<1>2. Sound /\ FirstMade /\ DiskOK
  BY <1>1 DEF Sound, FirstMade, DiskOK
<1>3. RecoveringOK /\ OpenOK /\ FlushOK /\ MergeOK
  BY <1>1 DEF RecoveringOK, OpenOK, FlushOK, MergeOK
<1> QED
  BY <1>2, <1>3 DEF AnswersInv

LEMMA StutterKeepsAnswers ==
  ASSUME AnswersInv, UNCHANGED vars
  PROVE  AnswersInv'
<1>1. /\ UNCHANGED <<current, manifests, logs, tables, phase, version, logNumber, nextFile>>
      /\ UNCHANGED <<manifestNumber, logfile, mem, imm, pending, bgError, edit, toRecover>>
      /\ UNCHANGED <<writing, flush, compaction, applying, reading, acked, durable, started>>
  BY DEF vars, disk, memory, history, state, memtables, work, calls
<1>2. Descr' = Descr /\ Cuts' = Cuts /\ Memory' = Memory /\ Started' = Started
  BY <1>1 DEF Descr, Cuts, Memory, Started
<1>3. Sound' /\ FirstMade'
  BY <1>1 DEF AnswersInv, Sound, FirstMade
<1>4. /\ \A f : InTables(f)' = InTables(f) /\ Good(f)' = Good(f)
      /\ \A kind : Answered(kind)' = Answered(kind)
      /\ \A kind, n : InLogs(kind, n)' = InLogs(kind, n)
  BY <1>1, <1>2 DEF InTables, Good, Answered, InLogs
<1>5. \A f, n : Safe(f, n)' = Safe(f, n)
  BY <1>4 DEF Safe
<1>6. DiskOK'
  BY <1>1, <1>2, <1>5 DEF AnswersInv, DiskOK
<1>7. RecoveringOK'
  <2> SUFFICES ASSUME phase' \in {"logs", "manifest", "current"}
               PROVE  RecoveringOK!2'
    BY DEF RecoveringOK
  <2>1. RecoveringOK!2
    BY <1>1 DEF AnswersInv, RecoveringOK
  <2>2. ASSUME NEW kind \in Kinds
        PROVE  Answered(kind)' \subseteq
         InTables(version \cup edit.add)' \cup UNION {Survives(logs'[n], kind) : n \in toRecover'}
    <3>1. InTables(version \cup edit.add)' = InTables(version \cup edit.add)
      BY <1>1, <1>2 DEF InTables
    <3>2. UNION {Survives(logs'[n], kind) : n \in toRecover'}
            = UNION {Survives(logs[n], kind) : n \in toRecover}
      BY <1>1
    <3> QED
      BY <1>4, <2>1, <3>1, <3>2
  <2>3. Good(version \cup edit.add)'
    BY <1>1, <2>1 DEF Good
  <2> QED
    BY <1>1, <1>2, <2>1, <2>2, <2>3
<1>8. OpenOK' /\ FlushOK' /\ MergeOK'
  BY <1>1, <1>2, <1>4 DEF AnswersInv, OpenOK, FlushOK, MergeOK
<1> QED
  BY <1>3, <1>6, <1>7, <1>8 DEF AnswersInv

LEMMA NextKeepsAnswers ==
  ASSUME DBFilesAssumption, WholeRecords, FilesInv, AnswersInv, [Next]_vars
  PROVE  AnswersInv' /\ [KeepsNeededFiles]_vars
<1>1. FilesInv' /\ ~AddRecordFails /\ ~EditTorn
  BY NextKeepsFilesInv, NothingTorn
<1>2. CASE Open
  BY <1>1, <1>2, NewDBKeepsAnswers, CreateCurrentKeepsAnswers, RecoverKeepsAnswers,
     RecoverLogFileKeepsAnswers, NewLogKeepsAnswers, NewManifestKeepsAnswers,
     SetCurrentFileKeepsAnswers, OpenFailsKeepsAnswers DEF Open
<1>3. CASE Background
  BY <1>1, <1>3, StartFlushKeepsAnswers, FinishFlushKeepsAnswers, FlushFailsKeepsAnswers,
     StartCompactionKeepsAnswers, OpenCompactionOutputFileKeepsAnswers,
     CompactionFailsKeepsAnswers, FinishCompactionOutputFileKeepsAnswers,
     LogEditKeepsAnswers, InstallFlushKeepsAnswers, InstallCompactionKeepsAnswers,
     ManifestFailsKeepsAnswers DEF Background
<1>4. CASE Next /\ ~Open /\ ~Background
  BY <1>1, <1>4, ProcessCrashKeepsAnswers, MachineCrashKeepsAnswers, AddRecordKeepsAnswers,
     SyncAndInsertKeepsAnswers, SyncFailsKeepsAnswers, SwitchMemTableKeepsAnswers,
     ReadingKeepsAnswers DEF Next
<1>5. CASE UNCHANGED vars
  BY <1>5, StutterKeepsAnswers
<1> QED
  BY <1>2, <1>3, <1>4, <1>5

(* From here on nothing but the records is assumed to be written whole:    *)
(* syncs, tables, manifests and deletions may fail, the process and the    *)
(* machine may stop at any step.                                           *)
LEMMA AnswersAreInvariant ==
  ASSUME DBFilesAssumption, WholeRecords
  PROVE  Spec => [](FilesInv /\ AnswersInv) /\ [][KeepsNeededFiles]_vars
<1>1. Init => FilesInv /\ AnswersInv
  BY InitFilesInv, InitAnswers
<1>2. (FilesInv /\ AnswersInv) /\ [Next]_vars => (FilesInv /\ AnswersInv)'
  BY NextKeepsFilesInv, NextKeepsAnswers
<1>3. (FilesInv /\ AnswersInv) /\ [Next]_vars => [KeepsNeededFiles]_vars
  BY NextKeepsAnswers
<1> QED
  BY <1>1, <1>2, <1>3, PTL DEF Spec

(* What DBImpl::Write answered ok is in the files at every moment of every *)
(* behaviour, for any number of writes, crashes and files: a process crash *)
(* loses none of it, a machine crash none that was synced or was found     *)
(* when the database was opened (db_impl.cc:1204, :292, :551, :901).       *)
THEOREM AnswersAreKept ==
  ASSUME DBFilesAssumption, WholeRecords
  PROVE  Spec => []NothingLost
<1>1. FilesInv /\ AnswersInv => NothingLost
  BY AnswersAreRecoverable
<1> QED
  BY <1>1, AnswersAreInvariant, PTL

(* An open database shows all it answered, from its tables and memtables,  *)
(* and the file of each table of its version is whole (DBImpl::Get).       *)
THEOREM AnswersAreVisible ==
  ASSUME DBFilesAssumption, WholeRecords
  PROVE  Spec => []NothingHidden
<1>1. FilesInv /\ AnswersInv => NothingHidden
  BY AnswersAreShown
<1> QED
  BY <1>1, AnswersAreInvariant, PTL

(* No step deletes or makes anew a table or a log that the descriptor      *)
(* CURRENT names needs before and after it: DeleteObsoleteFiles and the    *)
(* file numbers of NewFileNumber, over crashes in the middle of an open.   *)
THEOREM NeededFilesAreKept ==
  ASSUME DBFilesAssumption, WholeRecords
  PROVE  Spec => NeededFilesStay
BY AnswersAreInvariant, PTL DEF NeededFilesStay
=============================================================================
